------------------------------ MODULE Commute ------------------------------
(***************************************************************************)
(* A commute that is started, followed and ended from several devices of   *)
(* its user: commute-runs.ts, the dashboard that reads it every thirty     *)
(* seconds (commute-dashboard.ts), and the edits of the weekly grid and of *)
(* single dates that happen meanwhile (commutes.ts, commute-overrides.ts). *)
(*                                                                         *)
(* One commute of one user, with a leg on one day of the week.  A handler  *)
(* is split at its statements: a start is a read, an UPDATE and an INSERT  *)
(* without a transaction around them; a dashboard reads the grid, the run  *)
(* and the override one after the other and may write the run's end.       *)
(***************************************************************************)
EXTENDS CommuteResolve

CONSTANTS
  Devices,   \* the requests under way at once, one for each device
  Runs,      \* rows of commute_run
  MaxLegs,   \* bound: how often the grid is saved with the leg in it
  Templates, \* the legs a grid can be saved with, but for their ids
  Overrides, \* the exceptions the date can be saved with
  Trips,     \* what can be started: a direction, and how long it takes or None
  MaxNow,    \* bound: the last tick of the day
  Grace      \* RUN_GRACE_MS

Legs == 1..MaxLegs
Home == "home"
Today == 0

ASSUME CommuteAssumption ==
  /\ MaxNow \in Nat /\ Grace \in Nat /\ MaxLegs \in Nat
  /\ None \notin Nat /\ None \notin Runs
  /\ Trips \subseteq [direction : Directions, lasts : Nat \union {None}]

VARIABLES
  now,
  exists,    \* the row of the commute
  leg,       \* its leg, None when the grid leaves the day out
  saves,     \* leg ids given out so far
  override,  \* the date's row of commute_day_override, None without one
  status,    \* of a run: "none", "open", its endedReason, or "gone" with its commute
  run,       \* what an open run's row says: [leg, direction, arrival, since]
  pc,        \* the statement a device's request waits to make
  at,        \* `now' of its request
  want,      \* a start: what the body asks for
  seen,      \* a dashboard: the leg and the run it has read
  before,    \* history: the run open when the request began
  travelling \* history: a start was answered, or refused by the index,
             \* and nothing has ended the trip since

table == <<status, run>>
grid == <<exists, leg, saves, override>>
requests == <<pc, at, want, seen, before>>
vars == <<now, grid, table, requests, travelling>>

Open == {r \in Runs : status[r] = "open"}
TheOpen == IF Open = {} THEN None ELSE CHOOSE r \in Open : TRUE
NoRow == [leg |-> None, direction |-> "am", arrival |-> None, since |-> 0]
NoWant == [leg |-> None, direction |-> "am", arrival |-> None]
NoSeen == [leg |-> None, run |-> None, direction |-> None, reason |-> None]

Init ==
  /\ now = 0
  /\ exists = FALSE /\ leg = None /\ saves = 0
  /\ override = None
  /\ status = [r \in Runs |-> "none"]
  /\ run = [r \in Runs |-> NoRow]
  /\ pc = [d \in Devices |-> "idle"] /\ at = [d \in Devices |-> 0]
  /\ want = [d \in Devices |-> NoWant] /\ seen = [d \in Devices |-> NoSeen]
  /\ before = [d \in Devices |-> None]
  /\ travelling = FALSE

Tick == now < MaxNow /\ now' = now + 1 /\ UNCHANGED <<grid, table, requests, travelling>>

-----------------------------------------------------------------------------
(* The weekly grid and the dated exceptions.                               *)

SavedLeg(template) == [template EXCEPT !.id = saves + 1]

createCommute ==
  /\ ~exists /\ saves = 0 /\ saves < MaxLegs
  /\ exists' = TRUE
  /\ \E t \in Templates : leg' = SavedLeg(t)
  /\ saves' = saves + 1
  /\ UNCHANGED <<now, override, table, requests, travelling>>

\* ON DELETE SET NULL
Detach(old) == run' = [r \in Runs |-> IF old # None /\ run[r].leg = old.id
                                     THEN [run[r] EXCEPT !.leg = None] ELSE run[r]]

(* Replace-all: the old leg goes, and the new one has another id.          *)
updateCommute ==
  /\ exists
  /\ \/ leg' = None /\ UNCHANGED saves
     \/ /\ saves < MaxLegs /\ saves' = saves + 1
        /\ \E t \in Templates : leg' = SavedLeg(t)
  /\ Detach(leg)
  /\ UNCHANGED <<now, exists, override, status, requests, travelling>>

(* The runs and the overrides go with their commute.                       *)
deleteCommute ==
  /\ exists
  /\ exists' = FALSE /\ leg' = None
  /\ override' = None
  /\ status' = [r \in Runs |-> IF status[r] = "none" THEN "none" ELSE "gone"]
  /\ run' = [r \in Runs |-> NoRow]
  /\ travelling' = FALSE
  /\ UNCHANGED <<now, saves, requests>>

(* saveOverride and saveOverrideForFutureWeekdays upsert the date in one   *)
(* statement; clearOverride deletes its row.                               *)
saveOverride(o) ==
  /\ exists
  /\ override' = o
  /\ UNCHANGED <<now, exists, leg, saves, table, requests, travelling>>
clearOverride == override # None /\ saveOverride(None)

-----------------------------------------------------------------------------
(* Starting and ending a run.                                              *)

\* Nothing reads an ended row again: the model forgets what it says.
EndRuns(rs, reason) ==
  /\ status' = [r \in Runs |-> IF r \in rs THEN reason ELSE status[r]]
  /\ run' = [r \in Runs |-> IF r \in rs THEN NoRow ELSE run[r]]

\* endRunById (and mutants that forget its second condition, or its first).
endRunByIdAgain(id, reason) == EndRuns({id}, reason)
endRunByIdAny(id, reason) == EndRuns(Open, reason)
endRunById(id, reason) == EndRuns({id} \cap Open, reason)

endActiveRun(reason) == EndRuns(Open, reason)

Begin(d, first) ==
  /\ pc[d] = "idle"
  /\ pc' = [pc EXCEPT ![d] = first]
  /\ at' = [at EXCEPT ![d] = now]

Answered(d) ==
  /\ pc' = [pc EXCEPT ![d] = "idle"] /\ at' = [at EXCEPT ![d] = 0]
  /\ want' = [want EXCEPT ![d] = NoWant] /\ seen' = [seen EXCEPT ![d] = NoSeen]
  /\ before' = [before EXCEPT ![d] = None]

(* startRunChecked: the commute and its legs are read, and a leg of another *)
(* grid is dropped from the run.                                            *)
startRunChecked(d, legId, trip) ==
  /\ exists
  /\ Begin(d, "end")
  /\ want' = [want EXCEPT ![d] =
       [leg |-> IF leg # None /\ legId = leg.id THEN legId ELSE None,
        direction |-> trip.direction,
        arrival |-> IF trip.lasts = None THEN None ELSE now + trip.lasts]]
  /\ UNCHANGED <<now, grid, table, seen, before, travelling>>

StartEnds(d) ==
  /\ pc[d] = "end"
  /\ endActiveRun("manual")
  /\ pc' = [pc EXCEPT ![d] = "insert"]
  /\ travelling' = FALSE
  /\ UNCHANGED <<now, grid, at, want, seen, before>>

\* The partial unique index.
IndexAllows == Open = {}

KeysHold(d) == exists /\ (want[d].leg # None => leg # None /\ leg.id = want[d].leg)

(* The INSERT: refused when another start came first, or when the commute  *)
(* or the leg read before is gone.  The run ended by StartEnds stays ended.*)
StartInserts(d) ==
  /\ pc[d] = "insert"
  /\ IF IndexAllows /\ KeysHold(d)
     THEN \E r \in Runs :
            /\ status[r] = "none" /\ \A q \in Runs : q < r => status[q] # "none"
            /\ status' = [status EXCEPT ![r] = "open"]
            /\ run' = [run EXCEPT ![r] = [leg |-> want[d].leg, direction |-> want[d].direction,
                                          arrival |-> want[d].arrival, since |-> at[d]]]
     ELSE UNCHANGED table
  /\ travelling' = (travelling \/ KeysHold(d))
  /\ Answered(d)
  /\ UNCHANGED <<now, grid>>

EndPressed ==
  /\ Open # {}
  /\ endActiveRun("manual")
  /\ travelling' = FALSE
  /\ UNCHANGED <<now, grid, requests>>

-----------------------------------------------------------------------------
(* The dashboard.                                                          *)

Arrived(r, t) == run[r].arrival # None /\ t >= run[r].arrival
\* Past its grace (and a mutant in which it never is).
NeverStale(r, t) == FALSE
Stale(r, t) == t - run[r].since > Grace

readGrid(d) ==
  /\ exists
  /\ Begin(d, "run")
  /\ seen' = [seen EXCEPT ![d] = [NoSeen EXCEPT !.leg = leg]]
  /\ before' = [before EXCEPT ![d] = TheOpen]
  /\ UNCHANGED <<now, grid, table, want, travelling>>

DueReason(r, t) == CASE Arrived(r, t) -> "arrived" [] ~Arrived(r, t) /\ Stale(r, t) -> "expired"
                     [] OTHER -> None

getActiveRun(d) ==
  /\ pc[d] = "run"
  /\ LET reason == IF Open = {} THEN None ELSE DueReason(TheOpen, at[d])
     IN /\ seen' = [seen EXCEPT ![d].run = TheOpen, ![d].reason = reason,
                                ![d].direction = IF Open = {} THEN None ELSE run[TheOpen].direction]
        /\ pc' = [pc EXCEPT ![d] = IF reason = None THEN "override" ELSE "auto-end"]
  /\ UNCHANGED <<now, grid, table, at, want, before, travelling>>

AutoEnd(d) ==
  /\ pc[d] = "auto-end"
  /\ endRunById(seen[d].run, seen[d].reason)
  /\ travelling' = (travelling /\ seen[d].run \notin Open)
  /\ seen' = [seen EXCEPT ![d].run = None, ![d].direction = None, ![d].reason = None]
  /\ pc' = [pc EXCEPT ![d] = "override"]
  /\ UNCHANGED <<now, grid, at, want, before>>

\* The leg of a run, or else what the clock says (and a mutant in which the
\* clock wins while it has an answer).
ByTheClock(d) ==
  LET legs == {seen[d].leg} \ {None}
      active == resolveActiveLegForCommute([home |-> Home], legs, {}, Today, at[d], override)
  IN [run |-> None, direction |-> IF active = None THEN None ELSE active.direction]
legFromRun(s) == [run |-> s.run, direction |-> s.direction]
ClockFirst(d) == IF ByTheClock(d).direction # None \/ seen[d].run = None
                 THEN ByTheClock(d) ELSE legFromRun(seen[d])
Dashboard(d) == IF seen[d].run # None THEN legFromRun(seen[d]) ELSE ByTheClock(d)

(* The override is read last, and the page shows Dashboard(d).             *)
answer(d) ==
  /\ pc[d] = "override"
  /\ Answered(d)
  /\ UNCHANGED <<now, grid, table, travelling>>

Poll(d) == readGrid(d) \/ getActiveRun(d) \/ AutoEnd(d) \/ answer(d)
Start(d) == StartEnds(d) \/ StartInserts(d)

\* Bound: a start is made early enough for its run's grace to pass, and while
\* there is a row for it and for the starts under way.
CanStart == /\ now + Grace < MaxNow
            /\ Cardinality({r \in Runs : status[r] = "none"})
                 > Cardinality({d \in Devices : pc[d] \in {"end", "insert"}})

Next ==
  \/ Tick
  \/ createCommute \/ updateCommute \/ deleteCommute
  \/ clearOverride \/ \E o \in Overrides : saveOverride(o)
  \/ EndPressed
  \/ \E d \in Devices :
       \/ CanStart /\ \E l \in Legs, trip \in Trips : startRunChecked(d, l, trip)
       \/ Start(d) \/ Poll(d)

\* Time passes, a statement is answered, and each device's page reloads.
Spec == Init /\ [][Next]_vars /\ WF_vars(Tick)
        /\ \A d \in Devices : WF_vars(Start(d)) /\ WF_vars(Poll(d))

-----------------------------------------------------------------------------
SavedLegs == {[t EXCEPT !.id = n] : t \in Templates, n \in Legs}
Request == [leg : Legs \union {None}, direction : Directions, arrival : Nat \union {None}]
Glance == [leg : SavedLegs \union {None}, run : Runs \union {None},
           direction : Directions \union {None}, reason : {"arrived", "expired", None}]
RunRow == [leg : Legs \union {None}, direction : Directions, arrival : Nat \union {None},
           since : 0..MaxNow]

TypeOK ==
  /\ now \in 0..MaxNow /\ exists \in BOOLEAN /\ saves \in 0..MaxLegs
  /\ status \in [Runs -> {"none", "open", "manual", "arrived", "expired", "gone"}]
  /\ pc \in [Devices -> {"idle", "end", "insert", "run", "auto-end", "override"}]
  /\ at \in [Devices -> 0..MaxNow] /\ want \in [Devices -> Request]
  /\ run \in [Runs -> RunRow]
  /\ leg \in SavedLegs \union {None}
  /\ seen \in [Devices -> Glance]
  /\ before \in [Devices -> Runs \union {None}]
  /\ travelling \in BOOLEAN

(* However many devices start the commute at once, and whatever a poll that *)
(* read an older run still writes, there is never more than one run in      *)
(* play (migration 0031), and once a start has gone through or met another  *)
(* there is one until the trip is ended.                                    *)
StartLeavesOneRun ==
  /\ Cardinality(Open) <= 1
  /\ travelling => Cardinality(Open) = 1

(* A run ends once: the reason it ended for is not rewritten by a poll that *)
(* had read it open (commute-runs.ts:187).                                  *)
EndedOnce == [][\A r \in Runs : status[r] \in {"manual", "arrived", "expired"}
                  => status'[r] \in {status[r], "gone"}]_vars

(* A dashboard asked for after a run was started, and answered while that   *)
(* run is still in play, shows that run, whatever the clock and the edits   *)
(* of the grid say (commute-dashboard.ts:153); it never shows the run as    *)
(* over and leaves it in play.                                              *)
DirectionHeld == \A d \in Devices :
  LET r == before[d]
  IN pc[d] = "override" /\ r # None /\ status[r] = "open" =>
       Dashboard(d) = [run |-> r, direction |-> run[r].direction]

(* Nothing can wedge (commute-runs.ts:144): while some page polls, a run    *)
(* ends, arrival time or none.                                              *)
RunsEnd == \A r \in Runs : status[r] = "open" ~> status[r] # "open"
=============================================================================
