SPECIFICATION FairChain
CONSTANTS
    Callers = {c1, c2, c3, c4}
    Keys = {k1, k2}
    NoPromise = NoPromise
INVARIANTS NoEntryWhenIdle
PROPERTIES ImplementsFifoLock EveryCallRuns
