------------------------------ MODULE KeyLock -------------------------------
(***************************************************************************)
(* withKeyLock of services/nr-ingest/src/store.ts: a per-key mutex made of *)
(* a chain of promises.  A call takes the promise at the end of its key's  *)
(* chain (`previous`), installs its own (`ourTurn`) in its place, and runs *)
(* fn once `previous` has settled.  `ourTurn` settles when `previous` has  *)
(* and the inner promise made by previous.then was resolved by release().  *)
(*                                                                         *)
(* A promise is named by the call that made it; NoPromise stands for the   *)
(* already resolved promise and for an absent map entry.                   *)
(***************************************************************************)
EXTENDS FifoLock

CONSTANT NoPromise
ASSUME NoPromiseAssumption == NoPromise \notin Callers

VARIABLES
    keyLocks,  \* the map from a key to the last promise of its chain
    previous,  \* the promise each call waits for
    armed,     \* the calls whose previous.then callback has run: release is set
    settled    \* the calls whose ourTurn promise has resolved

chainVars == <<lockVars, keyLocks, previous, armed, settled>>

ChainTypeOK ==
    /\ LockTypeOK
    /\ keyLocks \in [Keys -> Callers \cup {NoPromise}]
    /\ previous \in [Callers -> Callers \cup {NoPromise}]
    /\ armed \subseteq Callers
    /\ settled \subseteq Callers

ChainInit ==
    /\ LockInit
    /\ keyLocks = [k \in Keys |-> NoPromise]
    /\ previous = [c \in Callers |-> NoPromise]
    /\ armed = {}
    /\ settled = {}

-----------------------------------------------------------------------------

IsSettled(p) == p = NoPromise \/ p \in settled

(* The synchronous part of a call, up to `await previous`.                 *)
Enter(c) ==
    /\ Call(c)
    /\ previous' = [previous EXCEPT ![c] = keyLocks[key[c]]]
    /\ keyLocks' = [keyLocks EXCEPT ![key[c]] = c]
    /\ UNCHANGED <<armed, settled>>

(* The callback of previous.then, which creates release.  It was           *)
(* registered before the await, so it runs before fn does.                 *)
Arm(c) ==
    /\ phase[c] = "waiting"
    /\ c \notin armed
    /\ IsSettled(previous[c])
    /\ armed' = armed \cup {c}
    /\ UNCHANGED <<lockVars, keyLocks, previous, settled>>

(* `await previous` returns and fn is called.                              *)
Run(c) ==
    /\ phase[c] = "waiting"
    /\ c \in armed
    /\ phase' = [phase EXCEPT ![c] = "running"]
    /\ UNCHANGED <<key, ticket, clock, keyLocks, previous, armed, settled>>

(* Mutant: the finally block deletes the entry whether or not it is ours.  *)
UnlinkedAlways(c) == [keyLocks EXCEPT ![key[c]] = NoPromise]

(* Mutant: the finally block never deletes the entry.                      *)
NeverUnlinked(c) == keyLocks

(* The map entry after c's finally block: deleted only when it is still    *)
(* c's own promise, that is, when nothing has queued behind c.             *)
Unlinked(c) ==
    IF keyLocks[key[c]] = c THEN [keyLocks EXCEPT ![key[c]] = NoPromise]
                            ELSE keyLocks

(* fn has settled, resolved or rejected; the finally block runs.           *)
Release(c) ==
    /\ phase[c] = "running"
    /\ phase' = [phase EXCEPT ![c] = "done"]
    /\ keyLocks' = Unlinked(c)
    /\ UNCHANGED <<key, ticket, clock, previous, armed, settled>>

(* Mutant: release() is not called, so ourTurn never settles.              *)
NeverSettle(c) == FALSE /\ UNCHANGED chainVars

(* ourTurn adopts the inner promise, resolved by release(), in a later     *)
(* microtask.                                                              *)
Settle(c) ==
    /\ phase[c] = "done"
    /\ c \notin settled
    /\ settled' = settled \cup {c}
    /\ UNCHANGED <<lockVars, keyLocks, previous, armed>>

Step(c) == Arm(c) \/ Run(c) \/ Release(c) \/ Settle(c)

(* Every call has been made and every promise has settled.                 *)
Terminated == settled = Callers /\ UNCHANGED chainVars

ChainNext == (\E c \in Callers : Enter(c) \/ Step(c)) \/ Terminated

ChainSpec == ChainInit /\ [][ChainNext]_chainVars

(* The event loop runs every microtask that is ready, and every query that *)
(* fn awaits is answered or fails.  Nothing obliges a report to arrive.    *)
FairChain == ChainSpec /\ \A c \in Callers : WF_chainVars(Step(c))

-----------------------------------------------------------------------------

(* The promise chain keeps the promise of FifoLock: its steps are the      *)
(* steps of the abstract lock, or stutter.                                 *)
Abstract == INSTANCE FifoLock
ImplementsFifoLock == Abstract!LockSpec

(* An idle chain leaves nothing behind: once every call of a key is done   *)
(* the map has no entry for it, so the map does not grow with the trains   *)
(* ever seen.                                                              *)
NoEntryWhenIdle ==
    \A k \in Keys :
        (\A c \in Callers : (phase[c] # "idle" /\ key[c] = k) => phase[c] = "done")
            => keyLocks[k] = NoPromise

(* No call is starved: a report that arrives is handled.                   *)
EveryCallRuns == \A c \in Callers : (phase[c] = "waiting") ~> (phase[c] = "done")

=============================================================================
