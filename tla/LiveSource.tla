----------------------------- MODULE LiveSource -----------------------------
(***************************************************************************)
(* The shared computation behind the live map of apps/web: live-source.ts  *)
(* counts the viewers of a key and computes once for all of them, and      *)
(* live-trains-source.ts hands each viewer a snapshot and then the         *)
(* differences between one computation and the next.                       *)
(*                                                                         *)
(* One key.  The last viewer to leave stops the source, and the next to    *)
(* come creates another; the computation of the stopped one may still be   *)
(* under way, and both share the module's variable `previous'.             *)
(***************************************************************************)
EXTENDS Integers

CONSTANTS
    Viewers,    \* the open streams
    Trains,     \* the trains that can be on the map
    Places,     \* where a train can be, not on the map included
    None,       \* no snapshot yet
    MaxSources, \* bound: how many times a source is created
    MaxFaults   \* bound: failed computations

Pictures == [Trains -> Places]
Sources == 1..MaxSources

ASSUME LiveSourceAssumption ==
    /\ None \notin Pictures
    /\ MaxSources \in Nat /\ MaxFaults \in Nat

VARIABLES
    world,    \* what getLiveTrains would answer now
    current,  \* the source of the key in sources(), 0 when there is none
    made,     \* how many sources were created
    on,       \* its interval and its bus listeners are set
    debounce, \* its debounce timer is set
    phase,    \* its computation: "idle", or the query "asked" or "read"
    answer,   \* what the query of that computation has read
    pending,  \* source.pending
    latest,   \* source.latest
    previous, \* the trains of the computation that ended last
    at,       \* the source each viewer is subscribed to, 0 when to none
    view,     \* the trains each viewer shows; None before its snapshot
    crossed,  \* the computation of another source ended after one of this
              \* source's had (history variable)
    faults

server == <<current, made, on, debounce, phase, answer, pending, latest, previous, crossed>>
clients == <<at, view>>
vars == <<world, server, clients, faults>>

TypeOK ==
    /\ world \in Pictures
    /\ current \in 0..MaxSources /\ made \in 0..MaxSources
    /\ on \in [Sources -> BOOLEAN] /\ debounce \in [Sources -> BOOLEAN]
    /\ phase \in [Sources -> {"idle", "asked", "read"}]
    /\ answer \in [Sources -> Pictures \cup {None}]
    /\ pending \in [Sources -> BOOLEAN]
    /\ latest \in [Sources -> Pictures \cup {None}]
    /\ previous \in Pictures \cup {None}
    /\ at \in [Viewers -> 0..MaxSources]
    /\ view \in [Viewers -> Pictures \cup {None}]
    /\ crossed \in [Sources -> BOOLEAN]
    /\ faults \in 0..MaxFaults

Init ==
    /\ world \in Pictures
    /\ current = 0 /\ made = 0
    /\ on = [s \in Sources |-> FALSE] /\ debounce = [s \in Sources |-> FALSE]
    /\ phase = [s \in Sources |-> "idle"] /\ answer = [s \in Sources |-> None]
    /\ pending = [s \in Sources |-> FALSE]
    /\ latest = [s \in Sources |-> None]
    /\ previous = None
    /\ at = [v \in Viewers |-> 0] /\ view = [v \in Viewers |-> None]
    /\ crossed = [s \in Sources |-> FALSE]
    /\ faults = 0

-----------------------------------------------------------------------------
(* The computation (run).                                                  *)

(* Mutant: a call during a computation is dropped.                         *)
RunDropsCall(s) ==
    /\ phase' = IF phase[s] = "idle" THEN [phase EXCEPT ![s] = "asked"] ELSE phase
    /\ UNCHANGED pending

(* A call of run() while a computation is under way only leaves a note.    *)
Run(s) ==
    IF phase[s] = "idle"
    THEN phase' = [phase EXCEPT ![s] = "asked"] /\ UNCHANGED pending
    ELSE pending' = [pending EXCEPT ![s] = TRUE] /\ UNCHANGED phase

(* Mutant: the note is never erased.                                       *)
EndRunKeepsNote(s) ==
    /\ phase' = [phase EXCEPT ![s] = IF pending[s] THEN "asked" ELSE "idle"]
    /\ answer' = [answer EXCEPT ![s] = None]
    /\ UNCHANGED pending

(* The `finally' of run: the note is taken up by one more computation.     *)
EndRun(s) ==
    /\ phase' = [phase EXCEPT ![s] = IF pending[s] THEN "asked" ELSE "idle"]
    /\ pending' = [pending EXCEPT ![s] = FALSE]
    /\ answer' = [answer EXCEPT ![s] = None]

(* The trains whose fields on the screen differ, with their new place.     *)
diff(before, now) == [t \in {u \in Trains : before[u] # now[u]} |-> now[t]]

ApplyDelta(shown, delta) ==
    [t \in Trains |-> IF t \in DOMAIN delta THEN delta[t] ELSE shown[t]]

(* What a subscriber does with an emission: the snapshot first, and then   *)
(* the difference, of which there is none in the very first emission.      *)
Shown(v, picture) ==
    IF view[v] = None THEN picture
    ELSE IF previous = None THEN view[v]
    ELSE ApplyDelta(view[v], diff(previous, picture))

(* The database answers the query.                                         *)
Read(s) ==
    /\ phase[s] = "asked"
    /\ phase' = [phase EXCEPT ![s] = "read"]
    /\ answer' = [answer EXCEPT ![s] = world]
    /\ UNCHANGED <<world, current, made, on, debounce, pending, latest, previous,
                   crossed, clients, faults>>

(* The answer arrives: the difference to `previous' is taken and every     *)
(* subscriber of this source is served.                                    *)
Finish(s) ==
    /\ phase[s] = "read"
    /\ previous' = answer[s]
    /\ latest' = [latest EXCEPT ![s] = answer[s]]
    /\ view' = [v \in Viewers |-> IF at[v] = s THEN Shown(v, answer[s]) ELSE view[v]]
    /\ crossed' = [q \in Sources |-> crossed[q] \/ (q # s /\ latest[q] # None)]
    /\ EndRun(s)
    /\ UNCHANGED <<world, current, made, on, debounce, at, faults>>

(* Mutant: `previous' is set before the queries that may still fail.       *)
FailAfterPrevious(s) ==
    /\ phase[s] # "idle" /\ faults < MaxFaults
    /\ faults' = faults + 1
    /\ previous' = IF phase[s] = "read" THEN answer[s] ELSE previous
    /\ EndRun(s)
    /\ UNCHANGED <<world, current, made, on, debounce, latest, crossed, clients>>

(* A failed computation keeps the previous snapshot.                       *)
Fail(s) ==
    /\ phase[s] # "idle" /\ faults < MaxFaults
    /\ faults' = faults + 1
    /\ EndRun(s)
    /\ UNCHANGED <<world, current, made, on, debounce, latest, previous, crossed, clients>>

-----------------------------------------------------------------------------
(* What calls run().                                                       *)

(* A message of the bus (schedule): the timer is set unless it is.         *)
Trigger(s) ==
    /\ on[s] /\ ~debounce[s]
    /\ debounce' = [debounce EXCEPT ![s] = TRUE]
    /\ UNCHANGED <<world, current, made, on, phase, answer, pending, latest, previous,
                   crossed, clients, faults>>

DebounceFires(s) ==
    /\ debounce[s]
    /\ debounce' = [debounce EXCEPT ![s] = FALSE]
    /\ Run(s)
    /\ UNCHANGED <<world, current, made, on, answer, latest, previous, crossed, clients,
                   faults>>

Tick(s) ==
    /\ on[s]
    /\ Run(s)
    /\ UNCHANGED <<world, current, made, on, debounce, answer, latest, previous, crossed,
                   clients, faults>>

-----------------------------------------------------------------------------
(* The viewers (subscribeToSource).                                        *)

(* The first viewer creates the source, which computes at once.            *)
Create(v) ==
    /\ at[v] = 0 /\ current = 0 /\ made < MaxSources
    /\ made' = made + 1 /\ current' = made + 1
    /\ on' = [on EXCEPT ![made + 1] = TRUE]
    /\ phase' = [phase EXCEPT ![made + 1] = "asked"]
    /\ at' = [at EXCEPT ![v] = made + 1]
    /\ UNCHANGED <<world, debounce, answer, pending, latest, previous, view, crossed, faults>>

(* A later one joins it, and is handed the snapshot there is.              *)
Join(v) ==
    /\ at[v] = 0 /\ current # 0
    /\ at' = [at EXCEPT ![v] = current]
    /\ view' = [view EXCEPT ![v] = latest[current]]
    /\ UNCHANGED <<world, server, faults>>

(* Mutant: the debounce timer outlives the source.                         *)
StopKeepsDebounce(s) ==
    /\ current' = 0
    /\ on' = [on EXCEPT ![s] = FALSE]
    /\ UNCHANGED debounce

(* stop: the timers and listeners go, a computation under way does not.    *)
Stop(s) ==
    /\ current' = 0
    /\ on' = [on EXCEPT ![s] = FALSE]
    /\ debounce' = [debounce EXCEPT ![s] = FALSE]

(* The stream is closed, and the last viewer to leave stops the source.    *)
Leave(v) ==
    /\ at[v] # 0
    /\ at' = [at EXCEPT ![v] = 0] /\ view' = [view EXCEPT ![v] = None]
    /\ IF \E u \in Viewers \ {v} : at[u] = at[v]
       THEN UNCHANGED <<current, on, debounce>>
       ELSE Stop(at[v])
    /\ UNCHANGED <<world, made, phase, answer, pending, latest, previous, crossed, faults>>

(* Trains move, with the clock as well as with reports.                    *)
Move ==
    /\ world' \in Pictures \ {world}
    /\ UNCHANGED <<server, clients, faults>>

Next ==
    \/ \E s \in Sources : Read(s) \/ Finish(s) \/ Fail(s)
    \/ \E s \in Sources : Trigger(s) \/ DebounceFires(s) \/ Tick(s)
    \/ \E v \in Viewers : Create(v) \/ Join(v) \/ Leave(v)
    \/ Move

Spec == Init /\ [][Next]_vars

(* A set timeout fires, and the database answers.  Nothing is assumed of   *)
(* the interval.                                                           *)
FairSpec ==
    Spec /\ \A s \in Sources : /\ WF_vars(DebounceFires(s))
                               /\ WF_vars(Read(s))
                               /\ WF_vars(Finish(s))

-----------------------------------------------------------------------------

(* Every viewer is on the source in the map, and a source has timers only  *)
(* while someone looks: however viewers come and go, none is left on a     *)
(* source that nothing computes, and no timer runs for nobody.             *)
OneSourceServesAll ==
    /\ \A v \in Viewers : at[v] # 0 => at[v] = current
    /\ \A s \in Sources : on[s] \/ debounce[s] =>
          s = current /\ \E v \in Viewers : at[v] = s

(* The snapshot and the differences a viewer was sent add up to the latest *)
(* computation of its source, whenever it joined and whatever failed,      *)
(* unless a computation left over from a stopped source ended in between   *)
(* and replaced `previous'.                                                *)
ViewsFollowLatest ==
    \A v \in Viewers : at[v] # 0 /\ ~crossed[at[v]] => view[v] = latest[at[v]]

(* A trigger is served by a computation that reads what it announced,      *)
(* also when it comes in the middle of another: unless the trains move     *)
(* on, a computation fails or the viewer leaves, every viewer comes to     *)
(* see the map as it was when the debounce timer was set.                  *)
TriggersAreServed ==
    \A v \in Viewers, w \in Pictures, f \in 0..MaxFaults :
        (at[v] # 0 /\ debounce[at[v]] /\ world = w /\ faults = f)
            ~> (at[v] = 0 \/ view[v] = w \/ crossed[at[v]] \/ world # w \/ faults # f)

(* A source that was stopped computes for nobody only a while longer.      *)
StoppedSourcesEnd ==
    \A s \in Sources : (s <= made /\ ~on[s]) ~> [](phase[s] = "idle")

=============================================================================
