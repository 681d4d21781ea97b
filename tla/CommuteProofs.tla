---------------------------- MODULE CommuteProofs ----------------------------
(***************************************************************************)
(* Proofs about Commute, for any devices, runs, legs and exceptions: one   *)
(* run at most is in play and a start leaves one, a run ends once, and a   *)
(* dashboard holds the direction of the run it was asked for in.           *)
(***************************************************************************)
EXTENDS Commute, FiniteSetTheorems, TLAPS

Ended == {"manual", "arrived", "expired"}

(* The run in play, as far as the index and the starts answer for it.      *)
OneRunInv ==
  /\ \A r, q \in Open : r = q
  /\ travelling => Open # {}

(* What a dashboard has read of the run that was open when it was asked    *)
(* for: until it has read the run nothing is known of it but that it was   *)
(* inserted before, and then it is the one read, if it is still open.      *)
Held(d) ==
  LET r == before[d]
  IN r # None =>
       /\ status[r] # "none"
       /\ pc[d] \in {"run", "auto-end", "override"}
       /\ status[r] = "open" /\ pc[d] # "run" => seen[d].run = r
       /\ status[r] = "open" /\ pc[d] = "override" => seen[d].direction = run[r].direction
HeldInv == \A d \in Devices : Held(d)

(* A dashboard ends a run only for a reason.                               *)
ReasonInv == \A d \in Devices : pc[d] = "auto-end" => seen[d].reason \in {"arrived", "expired"}

IInv == TypeOK /\ OneRunInv /\ HeldInv /\ ReasonInv

(* What any step may do to a run.                                          *)
RunStep(r) ==
  /\ status[r] # "none" =>
       /\ status'[r] # "none"
       /\ status'[r] = "open" => status[r] = "open" /\ run'[r].direction = run[r].direction
  /\ status[r] \in Ended => status'[r] \in {status[r], "gone"}

-----------------------------------------------------------------------------
(* Statements.                                                             *)

LEMMA NoRowType == NoRow \in RunRow
BY CommuteAssumption DEF NoRow, RunRow, Directions

LEMMA NoWantType == NoWant \in Request
BY CommuteAssumption DEF NoWant, Request, Directions

LEMMA NoSeenType == NoSeen \in Glance
BY DEF NoSeen, Glance

LEMMA SavedLegType ==
    ASSUME saves \in 0..MaxLegs, saves < MaxLegs, NEW t \in Templates
    PROVE  SavedLeg(t) \in SavedLegs
<1>1. saves + 1 \in Legs
  BY CommuteAssumption DEF Legs
<1>2. QED
  BY <1>1 DEF SavedLeg, SavedLegs

(* The run that a query for the one in play finds.                         *)
LEMMA TheOpenIsOpen ==
    ASSUME TypeOK, OneRunInv
    PROVE  /\ TheOpen \in Runs \union {None}
           /\ \A r \in Open : TheOpen = r
           /\ Open = {} <=> TheOpen = None
<1>1. CASE Open = {}
  BY <1>1 DEF TheOpen
<1>2. CASE Open # {}
  <2>1. TheOpen \in Open
    BY <1>2 DEF TheOpen
  <2>2. QED
    BY <1>2, <2>1, CommuteAssumption DEF OneRunInv, Open
<1>3. QED
  BY <1>1, <1>2

(* An UPDATE that ends runs ends open ones only, and touches no other.     *)
LEMMA EndRunsEnds ==
    ASSUME TypeOK, NEW rs \in SUBSET Open, NEW reason \in Ended, EndRuns(rs, reason)
    PROVE  /\ status' \in [Runs -> {"none", "open", "manual", "arrived", "expired", "gone"}]
           /\ run' \in [Runs -> RunRow]
           /\ Open' = Open \ rs
           /\ \A r \in Runs : RunStep(r)
<1> USE DEF EndRuns, Open, Ended
<1>1. status' \in [Runs -> {"none", "open", "manual", "arrived", "expired", "gone"}]
  BY DEF TypeOK
<1>2. run' \in [Runs -> RunRow]
  BY NoRowType DEF TypeOK
<1>3. Open' = Open \ rs
  BY DEF TypeOK
<1>4. \A r \in Runs : RunStep(r)
  BY DEF TypeOK, RunStep
<1>5. QED
  BY <1>1, <1>2, <1>3, <1>4

(* A request that is answered leaves nothing behind.                       *)
LEMMA AnsweredTypes ==
    ASSUME TypeOK, NEW d \in Devices, Answered(d)
    PROVE  /\ pc' \in [Devices -> {"idle", "end", "insert", "run", "auto-end", "override"}]
           /\ at' \in [Devices -> 0..MaxNow] /\ want' \in [Devices -> Request]
           /\ seen' \in [Devices -> Glance]
           /\ before' \in [Devices -> Runs \union {None}]
<1>1. 0 \in 0..MaxNow
  BY CommuteAssumption
<1>2. QED
  BY <1>1, NoSeenType, NoWantType DEF TypeOK, Answered

-----------------------------------------------------------------------------
(* The types.                                                              *)

LEMMA InitTypes == Init => TypeOK
<1> SUFFICES ASSUME Init PROVE TypeOK
  OBVIOUS
<1>1. now \in 0..MaxNow /\ saves \in 0..MaxLegs /\ at \in [Devices -> 0..MaxNow]
  BY CommuteAssumption DEF Init
<1>2. run \in [Runs -> RunRow] /\ want \in [Devices -> Request]
  BY NoRowType, NoWantType DEF Init
<1>3. seen \in [Devices -> Glance]
  BY NoSeenType DEF Init
<1>4. QED
  BY <1>1, <1>2, <1>3 DEF Init, TypeOK

LEMMA GridTypes ==
    ASSUME TypeOK, createCommute \/ updateCommute \/ deleteCommute
                     \/ \E o \in Overrides \union {None} : saveOverride(o)
    PROVE  TypeOK'
<1>1. CASE createCommute
  <2>1. leg' \in SavedLegs /\ saves' \in 0..MaxLegs
    BY <1>1, SavedLegType, CommuteAssumption DEF createCommute, TypeOK
  <2>2. QED
    BY <1>1, <2>1 DEF createCommute, table, requests, TypeOK
<1>2. CASE updateCommute
  <2>1. leg' \in SavedLegs \union {None} /\ saves' \in 0..MaxLegs
    BY <1>2, SavedLegType, CommuteAssumption DEF updateCommute, TypeOK
  <2>2. run' \in [Runs -> RunRow]
    BY <1>2 DEF updateCommute, Detach, TypeOK, RunRow
  <2>3. QED
    BY <1>2, <2>1, <2>2 DEF updateCommute, requests, TypeOK
<1>3. CASE deleteCommute
  <2>1. status' \in [Runs -> {"none", "open", "manual", "arrived", "expired", "gone"}]
    BY <1>3 DEF deleteCommute
  <2>2. run' \in [Runs -> RunRow]
    BY <1>3, NoRowType DEF deleteCommute
  <2>3. QED
    BY <1>3, <2>1, <2>2 DEF deleteCommute, requests, TypeOK
<1>4. CASE \E o \in Overrides \union {None} : saveOverride(o)
  BY <1>4 DEF saveOverride, table, requests, TypeOK
<1>5. QED
  BY <1>1, <1>2, <1>3, <1>4

LEMMA StartTypes ==
    ASSUME TypeOK, NEW d \in Devices,
           StartEnds(d) \/ StartInserts(d)
             \/ \E l \in Legs, trip \in Trips : startRunChecked(d, l, trip)
    PROVE  TypeOK'
<1>1. ASSUME NEW l \in Legs, NEW trip \in Trips, startRunChecked(d, l, trip) PROVE TypeOK'
  <2>1. trip.direction \in Directions /\ trip.lasts \in Nat \union {None}
    BY CommuteAssumption
  <2>2. now \in Nat
    BY CommuteAssumption DEF TypeOK
  <2>3. (IF trip.lasts = None THEN None ELSE now + trip.lasts) \in Nat \union {None}
    BY <2>1, <2>2
  <2>4. want' \in [Devices -> Request]
    BY <1>1, <2>1, <2>3 DEF startRunChecked, TypeOK, Request
  <2>5. QED
    BY <1>1, <2>4 DEF startRunChecked, Begin, grid, table, TypeOK
<1>2. CASE StartEnds(d)
  <2>1. endActiveRun("manual")
    BY <1>2 DEF StartEnds
  <2>2. /\ status' \in [Runs -> {"none", "open", "manual", "arrived", "expired", "gone"}]
        /\ run' \in [Runs -> RunRow]
    BY <2>1, EndRunsEnds DEF endActiveRun, Ended
  <2>3. QED
    BY <1>2, <2>2 DEF StartEnds, grid, TypeOK
<1>3. CASE StartInserts(d)
  <2>1. Answered(d)
    BY <1>3 DEF StartInserts
  <2>2. want[d] \in Request /\ at[d] \in 0..MaxNow
    BY DEF TypeOK
  <2>3. [leg |-> want[d].leg, direction |-> want[d].direction,
         arrival |-> want[d].arrival, since |-> at[d]] \in RunRow
    BY <2>2 DEF Request, RunRow
  <2>4. run' \in [Runs -> RunRow]
    BY <1>3, <2>3 DEF StartInserts, table, TypeOK
  <2>5. status' \in [Runs -> {"none", "open", "manual", "arrived", "expired", "gone"}]
    BY <1>3 DEF StartInserts, table, TypeOK
  <2>6. travelling' \in BOOLEAN
    BY <1>3 DEF StartInserts, KeysHold, TypeOK
  <2>7. QED
    BY <1>3, <2>1, <2>4, <2>5, <2>6, AnsweredTypes DEF StartInserts, grid, TypeOK
<1>4. QED
  BY <1>1, <1>2, <1>3

LEMMA PollTypes == ASSUME IInv, NEW d \in Devices, Poll(d) PROVE TypeOK'
<1> USE DEF IInv
<1>1. CASE readGrid(d)
  <2>1. [NoSeen EXCEPT !.leg = leg] \in Glance
    BY DEF NoSeen, Glance, TypeOK
  <2>2. seen' = [seen EXCEPT ![d] = [NoSeen EXCEPT !.leg = leg]]
    BY <1>1 DEF readGrid
  <2>3. before' \in [Devices -> Runs \union {None}]
    BY <1>1, TheOpenIsOpen DEF readGrid, TypeOK
  <2>4. QED
    BY <1>1, <2>1, <2>2, <2>3 DEF readGrid, Begin, grid, table, TypeOK
<1>2. CASE getActiveRun(d)
  <2> DEFINE reason == IF Open = {} THEN None ELSE DueReason(TheOpen, at[d])
             direction == IF Open = {} THEN None ELSE run[TheOpen].direction
  <2>1. reason \in {"arrived", "expired", None}
    BY DEF DueReason
  <2>2. direction \in Directions \union {None}
    BY TheOpenIsOpen DEF TypeOK, RunRow
  <2>3. seen' = [seen EXCEPT ![d].run = TheOpen, ![d].reason = reason, ![d].direction = direction]
    BY <1>2 DEF getActiveRun
  <2>4. seen' \in [Devices -> Glance]
    <3>1. [seen[d] EXCEPT !.run = TheOpen, !.reason = reason, !.direction = direction] \in Glance
      BY <2>1, <2>2, TheOpenIsOpen DEF TypeOK, Glance
    <3>2. seen' = [seen EXCEPT ![d] = [seen[d] EXCEPT !.run = TheOpen, !.reason = reason,
                                                     !.direction = direction]]
      BY <2>3 DEF TypeOK, Glance
    <3>3. QED
      BY <3>1, <3>2 DEF TypeOK
  <2>5. pc' \in [Devices -> {"idle", "end", "insert", "run", "auto-end", "override"}]
    BY <1>2 DEF getActiveRun, TypeOK
  <2>6. QED
    BY <1>2, <2>4, <2>5 DEF getActiveRun, grid, table, TypeOK
<1>3. CASE AutoEnd(d)
  <2>1. EndRuns({seen[d].run} \cap Open, seen[d].reason)
    BY <1>3 DEF AutoEnd, endRunById
  <2>2. seen[d].reason \in Ended
    BY <1>3 DEF AutoEnd, ReasonInv, Ended
  <2>3. /\ status' \in [Runs -> {"none", "open", "manual", "arrived", "expired", "gone"}]
        /\ run' \in [Runs -> RunRow]
    BY <2>1, <2>2, EndRunsEnds
  <2>4. seen' = [seen EXCEPT ![d].run = None, ![d].direction = None, ![d].reason = None]
    BY <1>3 DEF AutoEnd
  <2>5. seen' \in [Devices -> Glance]
    <3>1. [seen[d] EXCEPT !.run = None, !.direction = None, !.reason = None] \in Glance
      BY DEF TypeOK, Glance
    <3>2. seen' = [seen EXCEPT ![d] = [seen[d] EXCEPT !.run = None, !.direction = None,
                                                     !.reason = None]]
      BY <2>4 DEF TypeOK, Glance
    <3>3. QED
      BY <3>1, <3>2 DEF TypeOK
  <2>6. pc' \in [Devices -> {"idle", "end", "insert", "run", "auto-end", "override"}]
    BY <1>3 DEF AutoEnd, TypeOK
  <2>7. travelling' \in BOOLEAN
    BY <1>3 DEF AutoEnd, TypeOK
  <2>8. QED
    BY <1>3, <2>3, <2>5, <2>6, <2>7 DEF AutoEnd, grid, TypeOK
<1>4. CASE answer(d)
  BY <1>4, AnsweredTypes DEF answer, grid, table, TypeOK
<1>5. QED
  BY <1>1, <1>2, <1>3, <1>4 DEF Poll

LEMMA StepTypes == ASSUME IInv, [Next]_vars PROVE TypeOK'
<1>1. CASE Tick
  BY <1>1, CommuteAssumption DEF Tick, grid, table, requests, IInv, TypeOK
<1>2. CASE EndPressed
  <2>1. endActiveRun("manual")
    BY <1>2 DEF EndPressed
  <2>2. /\ status' \in [Runs -> {"none", "open", "manual", "arrived", "expired", "gone"}]
        /\ run' \in [Runs -> RunRow]
    BY <2>1, EndRunsEnds DEF endActiveRun, Ended, IInv
  <2>3. QED
    BY <1>2, <2>2 DEF EndPressed, grid, requests, IInv, TypeOK
<1>3. CASE createCommute \/ updateCommute \/ deleteCommute
            \/ clearOverride \/ \E o \in Overrides : saveOverride(o)
  BY <1>3, GridTypes DEF clearOverride, IInv
<1>4. CASE UNCHANGED vars
  BY <1>4 DEF vars, grid, table, requests, IInv, TypeOK
<1>5. QED
  BY <1>1, <1>2, <1>3, <1>4, StartTypes, PollTypes DEF Next, Start, IInv

-----------------------------------------------------------------------------
(* The runs.                                                               *)

(* The steps that leave every run as it is, or detach it from its leg.     *)
LEMMA SameRuns ==
    ASSUME TypeOK, UNCHANGED table \/ updateCommute
    PROVE  Open' = Open /\ \A r \in Runs : RunStep(r)
<1>1. status' = status
  BY DEF table, updateCommute
<1>2. \A r \in Runs : run'[r].direction = run[r].direction
  <2>1. CASE UNCHANGED table
    BY <2>1 DEF table
  <2>2. CASE updateCommute
    BY <2>2 DEF updateCommute, Detach, TypeOK, RunRow
  <2>3. QED
    BY <2>1, <2>2
<1>3. QED
  BY <1>1, <1>2 DEF Open, RunStep

LEMMA DeletedRuns ==
    ASSUME TypeOK, deleteCommute PROVE Open' = {} /\ \A r \in Runs : RunStep(r)
BY DEF TypeOK, deleteCommute, Open, RunStep

(* An insert opens a run that was none, and only while none is open.       *)
LEMMA InsertedRuns ==
    ASSUME TypeOK, NEW d \in Devices, StartInserts(d)
    PROVE  /\ \A r \in Runs : RunStep(r)
           /\ \/ Open' = Open
              \/ Open = {} /\ \E r \in Runs : Open' = {r}
           /\ KeysHold(d) => Open' # {}
<1>1. CASE IndexAllows /\ KeysHold(d)
  <2> DEFINE row == [leg |-> want[d].leg, direction |-> want[d].direction,
                     arrival |-> want[d].arrival, since |-> at[d]]
  <2>1. PICK r \in Runs : /\ status[r] = "none"
                          /\ status' = [status EXCEPT ![r] = "open"]
                          /\ run' = [run EXCEPT ![r] = row]
    BY <1>1 DEF StartInserts
  <2>2. Open = {} /\ Open' = {r}
    BY <1>1, <2>1 DEF IndexAllows, Open, TypeOK
  <2>3. \A q \in Runs : RunStep(q)
    BY <2>1 DEF RunStep, TypeOK, Ended
  <2>4. QED
    BY <2>2, <2>3
<1>2. CASE ~(IndexAllows /\ KeysHold(d))
  <2>1. UNCHANGED table
    BY <1>2 DEF StartInserts
  <2>2. QED
    BY <1>2, <2>1, SameRuns DEF IndexAllows
<1>3. QED
  BY <1>1, <1>2

LEMMA AutoEndedRuns ==
    ASSUME TypeOK, ReasonInv, NEW d \in Devices, AutoEnd(d)
    PROVE  Open' = Open \ {seen[d].run} /\ \A r \in Runs : RunStep(r)
<1>1. EndRuns({seen[d].run} \cap Open, seen[d].reason)
  BY DEF AutoEnd, endRunById
<1>2. seen[d].reason \in Ended
  BY DEF AutoEnd, ReasonInv, Ended
<1>3. Open' = Open \ ({seen[d].run} \cap Open) /\ \A r \in Runs : RunStep(r)
  BY <1>1, <1>2, EndRunsEnds
<1>4. QED
  BY <1>3

LEMMA AllEndedRuns ==
    ASSUME TypeOK, endActiveRun("manual")
    PROVE  Open' = {} /\ \A r \in Runs : RunStep(r)
BY EndRunsEnds DEF endActiveRun, Ended

LEMMA RunsStep ==
    ASSUME IInv, [Next]_vars
    PROVE  (\A r \in Runs : RunStep(r)) /\ OneRunInv'
<1> USE DEF IInv
<1>1. CASE UNCHANGED table /\ travelling' = travelling
  BY <1>1, SameRuns DEF OneRunInv
<1>2. CASE updateCommute
  BY <1>2, SameRuns DEF OneRunInv, updateCommute
<1>3. CASE deleteCommute
  BY <1>3, DeletedRuns DEF OneRunInv, deleteCommute
<1>4. CASE EndPressed
  BY <1>4, AllEndedRuns DEF OneRunInv, EndPressed
<1>5. ASSUME NEW d \in Devices, StartEnds(d) PROVE (\A r \in Runs : RunStep(r)) /\ OneRunInv'
  BY <1>5, AllEndedRuns DEF OneRunInv, StartEnds
<1>6. ASSUME NEW d \in Devices, StartInserts(d)
      PROVE  (\A r \in Runs : RunStep(r)) /\ OneRunInv'
  <2>1. travelling' = (travelling \/ KeysHold(d))
    BY <1>6 DEF StartInserts
  <2>2. QED
    BY <1>6, <2>1, InsertedRuns DEF OneRunInv
<1>7. ASSUME NEW d \in Devices, AutoEnd(d) PROVE (\A r \in Runs : RunStep(r)) /\ OneRunInv'
  <2>1. travelling' = (travelling /\ seen[d].run \notin Open)
    BY <1>7 DEF AutoEnd
  <2>2. QED
    BY <1>7, <2>1, AutoEndedRuns DEF OneRunInv
<1>8. CASE Tick \/ createCommute \/ clearOverride \/ \E o \in Overrides : saveOverride(o)
  BY <1>1, <1>8 DEF Tick, createCommute, clearOverride, saveOverride
<1>9. ASSUME NEW d \in Devices,
             readGrid(d) \/ getActiveRun(d) \/ answer(d)
               \/ \E l \in Legs, trip \in Trips : startRunChecked(d, l, trip)
      PROVE  (\A r \in Runs : RunStep(r)) /\ OneRunInv'
  <2>1. UNCHANGED table /\ travelling' = travelling
    BY <1>9 DEF readGrid, getActiveRun, answer, startRunChecked
  <2>2. QED
    BY <1>1, <2>1
<1>10. CASE UNCHANGED vars
  BY <1>1, <1>10 DEF vars
<1>11. QED
  BY <1>2, <1>3, <1>4, <1>5, <1>6, <1>7, <1>8, <1>9, <1>10 DEF Next, Start, Poll

-----------------------------------------------------------------------------
(* The dashboards.                                                         *)

(* Whatever becomes of the runs, a dashboard that takes no step keeps what *)
(* it holds.                                                               *)
LEMMA KeptHeld ==
    ASSUME IInv, \A r \in Runs : RunStep(r), NEW d \in Devices,
           before'[d] = before[d], pc'[d] = pc[d], seen'[d] = seen[d]
    PROVE  Held(d)'
<1> SUFFICES ASSUME before[d] # None PROVE Held(d)'
  BY DEF Held
<1>1. before[d] \in Runs
  BY DEF IInv, TypeOK
<1>2. RunStep(before[d])
  BY <1>1
<1>3. Held(d)
  BY DEF IInv, HeldInv
<1>4. QED
  BY <1>2, <1>3 DEF Held, RunStep

(* What a dashboard knows after a statement of its own.                    *)
LEMMA ReadHeld ==
    ASSUME IInv, NEW d \in Devices, readGrid(d) PROVE Held(d)'
<1>1. before'[d] = TheOpen /\ pc'[d] = "run" /\ status' = status
  BY DEF readGrid, Begin, table, IInv, TypeOK
<1>2. TheOpen # None => status[TheOpen] = "open"
  BY TheOpenIsOpen DEF IInv, Open, TheOpen
<1>3. QED
  BY <1>1, <1>2 DEF Held

LEMMA FoundHeld ==
    ASSUME IInv, NEW d \in Devices, getActiveRun(d) PROVE Held(d)'
<1> SUFFICES ASSUME before[d] # None PROVE Held(d)'
  BY DEF Held, getActiveRun
<1>1. before[d] \in Runs /\ status[before[d]] # "none"
  BY DEF IInv, TypeOK, HeldInv, Held
<1>2. /\ status' = status /\ run' = run /\ before' = before
      /\ pc'[d] \in {"auto-end", "override"}
  BY DEF getActiveRun, table, IInv, TypeOK
<1>3. ASSUME status[before[d]] = "open"
      PROVE  seen'[d].run = before[d] /\ seen'[d].direction = run[before[d]].direction
  <2>1. TheOpen = before[d] /\ Open # {}
    BY <1>1, <1>3, TheOpenIsOpen DEF IInv, Open
  <2>2. /\ seen'[d].run = TheOpen
        /\ seen'[d].direction = IF Open = {} THEN None ELSE run[TheOpen].direction
    BY DEF getActiveRun, IInv, TypeOK, Glance
  <2>3. QED
    BY <2>1, <2>2
<1>4. QED
  BY <1>1, <1>2, <1>3 DEF Held

LEMMA EndedHeld ==
    ASSUME IInv, NEW d \in Devices, AutoEnd(d) PROVE Held(d)'
<1> SUFFICES ASSUME before[d] # None PROVE Held(d)'
  BY DEF Held, AutoEnd
<1> DEFINE r == before[d]
<1>1. r \in Runs /\ Held(d)
  BY DEF IInv, TypeOK, HeldInv
<1>2. RunStep(r) /\ Open' = Open \ {seen[d].run}
  BY <1>1, AutoEndedRuns DEF IInv
<1>3. before' = before /\ pc[d] = "auto-end" /\ pc'[d] = "override"
  BY DEF AutoEnd, IInv, TypeOK
<1>4. status'[r] # "open"
  BY <1>1, <1>2, <1>3 DEF Held, RunStep, Open
<1>5. QED
  BY <1>1, <1>2, <1>3, <1>4 DEF Held, RunStep

(* The steps of a device leave every other one alone.                      *)
LEMMA StepIsOwn ==
    ASSUME IInv, [Next]_vars, NEW d \in Devices
    PROVE  \/ before'[d] = before[d] /\ pc'[d] = pc[d] /\ seen'[d] = seen[d]
           \/ \E l \in Legs, trip \in Trips : startRunChecked(d, l, trip)
           \/ Start(d) \/ Poll(d)
<1>1. CASE UNCHANGED requests
  BY <1>1 DEF requests
<1>2. ASSUME NEW e \in Devices, e # d,
             (\E l \in Legs, trip \in Trips : startRunChecked(e, l, trip)) \/ Start(e) \/ Poll(e)
      PROVE  before'[d] = before[d] /\ pc'[d] = pc[d] /\ seen'[d] = seen[d]
  <2>1. CASE \E l \in Legs, trip \in Trips : startRunChecked(e, l, trip)
    BY <1>2, <2>1 DEF startRunChecked, Begin, IInv, TypeOK
  <2>2. CASE Start(e)
    BY <1>2, <2>2 DEF Start, StartEnds, StartInserts, Answered, IInv, TypeOK
  <2>3. CASE readGrid(e) \/ getActiveRun(e)
    BY <1>2, <2>3 DEF readGrid, Begin, getActiveRun, IInv, TypeOK
  <2>4. CASE AutoEnd(e) \/ answer(e)
    BY <1>2, <2>4 DEF AutoEnd, answer, Answered, IInv, TypeOK
  <2>5. QED
    BY <1>2, <2>1, <2>2, <2>3, <2>4 DEF Poll
<1>3. CASE Tick \/ createCommute \/ updateCommute \/ deleteCommute \/ clearOverride
             \/ (\E o \in Overrides : saveOverride(o)) \/ EndPressed
  BY <1>1, <1>3 DEF Tick, createCommute, updateCommute, deleteCommute, clearOverride,
     saveOverride, EndPressed
<1>4. QED
  BY <1>1, <1>2, <1>3 DEF Next, vars

LEMMA HeldStep == ASSUME IInv, [Next]_vars PROVE HeldInv'
<1> SUFFICES ASSUME NEW d \in Devices PROVE Held(d)'
  BY DEF HeldInv
<1>1. CASE before'[d] = before[d] /\ pc'[d] = pc[d] /\ seen'[d] = seen[d]
  BY <1>1, KeptHeld, RunsStep
<1>2. CASE (\E l \in Legs, trip \in Trips : startRunChecked(d, l, trip)) \/ StartEnds(d)
  <2>1. pc[d] \in {"idle", "end"} /\ before' = before
    BY <1>2 DEF startRunChecked, Begin, StartEnds
  <2>2. QED
    BY <2>1 DEF IInv, HeldInv, Held
<1>3. CASE StartInserts(d) \/ answer(d)
  BY <1>3 DEF StartInserts, answer, Answered, Held, IInv, TypeOK
<1>4. QED
  BY <1>1, <1>2, <1>3, StepIsOwn, ReadHeld, FoundHeld, EndedHeld DEF Start, Poll

LEMMA ReasonStep == ASSUME IInv, [Next]_vars PROVE ReasonInv'
<1> SUFFICES ASSUME NEW d \in Devices, pc'[d] = "auto-end"
             PROVE  seen'[d].reason \in {"arrived", "expired"}
  BY DEF ReasonInv
<1>1. CASE pc'[d] = pc[d] /\ seen'[d] = seen[d]
  BY <1>1 DEF IInv, ReasonInv
<1>2. CASE getActiveRun(d)
  <2> DEFINE reason == IF Open = {} THEN None ELSE DueReason(TheOpen, at[d])
  <2>1. seen'[d].reason = reason /\ pc'[d] = (IF reason = None THEN "override" ELSE "auto-end")
    BY <1>2 DEF getActiveRun, IInv, TypeOK, Glance
  <2>2. QED
    BY <2>1 DEF DueReason
<1>3. CASE (\E l \in Legs, trip \in Trips : startRunChecked(d, l, trip)) \/ Start(d)
             \/ readGrid(d) \/ AutoEnd(d) \/ answer(d)
  BY <1>3 DEF startRunChecked, Start, StartEnds, StartInserts, readGrid, Begin, AutoEnd, answer,
     Answered, IInv, TypeOK
<1>4. QED
  BY <1>1, <1>2, <1>3, StepIsOwn DEF Poll

-----------------------------------------------------------------------------
(* The theorems.                                                           *)

LEMMA InitIInv == Init => IInv
BY InitTypes DEF Init, IInv, OneRunInv, HeldInv, Held, ReasonInv, Open

(* The inductive invariant of the runs and of those who read them.         *)
THEOREM CommuteIsConsistent == Spec => []IInv
<1>1. IInv /\ [Next]_vars => IInv'
  BY StepTypes, RunsStep, HeldStep, ReasonStep DEF IInv
<1>2. QED
  BY <1>1, InitIInv, PTL DEF Spec

(* Type correctness: no handler writes a run, a leg or a request that the  *)
(* schema would not hold.                                                  *)
THEOREM TypeCorrect == Spec => []TypeOK
<1>1. IInv => TypeOK
  BY DEF IInv
<1>2. QED
  BY <1>1, CommuteIsConsistent, PTL

(* However many devices start a commute at once, one run at most is in     *)
(* play, and a start that went through leaves one.                         *)
THEOREM OneRunInPlay == Spec => []StartLeavesOneRun
<1>1. IInv => StartLeavesOneRun
  <2> SUFFICES ASSUME IInv PROVE StartLeavesOneRun
    OBVIOUS
  <2>1. CASE Open = {}
    BY <2>1, FS_EmptySet DEF IInv, OneRunInv, StartLeavesOneRun
  <2>2. CASE Open # {}
    <3>1. PICK r \in Open : Open = {r}
      BY <2>2 DEF IInv, OneRunInv
    <3>2. Cardinality(Open) = 1
      BY <3>1, FS_Singleton
    <3>3. QED
      BY <3>2 DEF StartLeavesOneRun
  <2>3. QED
    BY <2>1, <2>2
<1>2. QED
  BY <1>1, CommuteIsConsistent, PTL

(* The reason a run ended for is never rewritten, and it is not reopened.  *)
THEOREM RunsEndOnce == Spec => EndedOnce
<1>1. IInv /\ [Next]_vars =>
        [\A r \in Runs : status[r] \in {"manual", "arrived", "expired"}
           => status'[r] \in {status[r], "gone"}]_vars
  BY RunsStep DEF RunStep, Ended
<1>2. QED
  BY <1>1, CommuteIsConsistent, PTL DEF Spec, EndedOnce

(* A dashboard holds the direction of the run it was asked for in,         *)
(* whatever is saved, started or ended between its statements.             *)
THEOREM DashboardHolds == Spec => []DirectionHeld
<1>1. IInv => DirectionHeld
  <2> SUFFICES ASSUME IInv, NEW d \in Devices, pc[d] = "override", before[d] # None,
                      status[before[d]] = "open"
               PROVE  Dashboard(d) = [run |-> before[d], direction |-> run[before[d]].direction]
    BY DEF DirectionHeld
  <2>1. seen[d].run = before[d] /\ seen[d].direction = run[before[d]].direction
    BY DEF IInv, HeldInv, Held
  <2>2. QED
    BY <2>1 DEF Dashboard, legFromRun
<1>2. QED
  BY <1>1, CommuteIsConsistent, PTL
=============================================================================
