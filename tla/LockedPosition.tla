---------------------------- MODULE LockedPosition ---------------------------
(***************************************************************************)
(* The handlers of NrPosition over the promise chain of KeyLock: what the  *)
(* process really runs.  NrPosition takes the lock for granted; here a     *)
(* handler begins when the promise before it in its key's chain has        *)
(* settled, and other frames, microtasks and restarts fall in between.     *)
(***************************************************************************)
EXTENDS NrPosition, KeyLock

position == <<msg, row, strikes, handler, history, failed, faults>>
chain == <<keyLocks, previous, armed, settled>>
lockedVars == <<vars, chain>>

LockedInit == Init /\ ChainInit

(* applyMovement and its like: withKeyLock up to its first await.          *)
Receives(r) == Enter(r) /\ UNCHANGED position

(* A microtask of the chain.                                               *)
ArmsOrSettles(r) == (Arm(r) \/ Settle(r)) /\ UNCHANGED position

(* Mutant: a handler starts without waiting for the promise before it.     *)
RunsAtOnce(r) ==
    /\ phase[r] = "waiting"
    /\ phase' = [phase EXCEPT ![r] = "running"]
    /\ UNCHANGED <<key, ticket, clock, chain>>
    /\ Entered(r)

(* `await previous' is over, and fn() is called.                           *)
Runs(r) == Run(r) /\ Entered(r)

Proceeds(r) == Proceed(r) /\ UNCHANGED chain

(* fn() has returned or thrown: the finally block.                         *)
Ends(r) == End(r) /\ Release(r)

(* A new process has an empty map, and none of the old one's microtasks.   *)
Restarts ==
    /\ Restart
    /\ keyLocks' = [k \in Keys |-> NoPromise]
    /\ previous' = [r \in Reports |-> NoPromise]
    /\ armed' = {} /\ settled' = {r \in Reports : phase[r] = "done"}

LockedNext ==
    \/ \E r \in Reports : Receives(r) \/ ArmsOrSettles(r) \/ Runs(r) \/ Proceeds(r) \/ Ends(r)
    \/ Restarts

LockedSpec == LockedInit /\ [][LockedNext]_lockedVars

-----------------------------------------------------------------------------
(* The chain gives NrPosition the lock it counts on: from the frame that   *)
(* arrives to the finally block, and over restarts, each step is one that  *)
(* NrPosition takes, so a handler begins only when it is alone.            *)
ImplementsPosition == Spec
=============================================================================
