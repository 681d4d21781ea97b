------------------------------ MODULE FifoLock ------------------------------
(***************************************************************************)
(* What services/nr-ingest promises of withKeyLock: calls made with the    *)
(* same key run one at a time, in the order in which they were made, and   *)
(* calls with different keys do not wait for one another.  The comment of  *)
(* withKeyLock states this promise; KeyLock.tla models the promise chain   *)
(* that keeps it, and NrPosition.tla runs its handlers under it.           *)
(***************************************************************************)
EXTENDS Naturals

CONSTANTS
    Callers,   \* the calls of withKeyLock, each made at most once
    Keys       \* the lock keys (a TRUST train id, or "TD:" and a headcode)

VARIABLES
    phase,     \* where each call is
    key,       \* the key each call is made with
    ticket,    \* the position of a call in the order of all calls, from 1
    clock      \* the number of calls made so far

lockVars == <<phase, key, ticket, clock>>

Phases == {"idle", "waiting", "running", "done"}

LockTypeOK ==
    /\ phase \in [Callers -> Phases]
    /\ key \in [Callers -> Keys]
    /\ ticket \in [Callers -> Nat]
    /\ clock \in Nat

LockInit ==
    /\ phase = [c \in Callers |-> "idle"]
    /\ key \in [Callers -> Keys]
    /\ ticket = [c \in Callers |-> 0]
    /\ clock = 0

-----------------------------------------------------------------------------

(* The calls with c's key that were made before c and have not finished.   *)
Ahead(c) == {d \in Callers : /\ key[d] = key[c]
                             /\ ticket[d] < ticket[c]
                             /\ phase[d] \in {"waiting", "running"}}

Call(c) ==
    /\ phase[c] = "idle"
    /\ phase' = [phase EXCEPT ![c] = "waiting"]
    /\ ticket' = [ticket EXCEPT ![c] = clock + 1]
    /\ clock' = clock + 1
    /\ key' = key

Start(c) ==
    /\ phase[c] = "waiting"
    /\ Ahead(c) = {}
    /\ phase' = [phase EXCEPT ![c] = "running"]
    /\ UNCHANGED <<key, ticket, clock>>

(* fn resolves or rejects: either way the lock is released.                *)
Finish(c) ==
    /\ phase[c] = "running"
    /\ phase' = [phase EXCEPT ![c] = "done"]
    /\ UNCHANGED <<key, ticket, clock>>

LockNext == \E c \in Callers : Call(c) \/ Start(c) \/ Finish(c)

LockSpec == LockInit /\ [][LockNext]_lockVars

-----------------------------------------------------------------------------

(* Two calls with the same key never run at the same time: no two reports  *)
(* of one train interleave their read-resolve-write sequences.             *)
MutualExclusion ==
    \A c, d \in Callers :
        (phase[c] = "running" /\ phase[d] = "running" /\ key[c] = key[d]) => c = d

(* A call runs only when every earlier call with its key is done: reports  *)
(* of one train are handled in the order in which they arrived.            *)
ArrivalOrder ==
    \A c, d \in Callers :
        ( /\ phase[c] \in {"running", "done"}
          /\ phase[d] # "idle"
          /\ key[d] = key[c]
          /\ ticket[d] < ticket[c] ) => phase[d] = "done"

=============================================================================
