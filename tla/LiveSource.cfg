SPECIFICATION FairSpec
CONSTANTS
    Viewers = {v1, v2}
    Trains = {t1}
    Places = {a, b}
    None = None
    MaxSources = 2
    MaxFaults = 1
INVARIANTS OneSourceServesAll ViewsFollowLatest
PROPERTIES TriggersAreServed StoppedSourcesEnd
