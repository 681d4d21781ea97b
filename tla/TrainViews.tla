----------------------------- MODULE TrainViews -----------------------------
(***************************************************************************)
(* What the web app shows of one running train.  The train moves along its *)
(* route and is reported, or not, by Darwin, TRUST and the describer; the  *)
(* service page loads its answer in four queries while that goes on, and   *)
(* the live map and a departure board are read from the same tables.       *)
(*                                                                         *)
(* A scenario is what does not change: the train's route, a sequence of    *)
(* points [crs, time, calls, known, expected] (it calls there; Darwin's    *)
(* schedule has the point; how many minutes late Darwin and the board say, *)
(* until the train has been there, that it will be), the other days' runs  *)
(* of the same timetable that are still active, and which of the feeds     *)
(* could be linked to the run.                                             *)
(***************************************************************************)
EXTENDS ServiceDetails, Boards, LiveTrains

CONSTANTS
  Scenarios,
  Ssd,           \* the date the train starts on
  Pause,         \* minutes a train is held
  StrayAt,       \* bound: the stations where another train is reported
  MaxOddities,   \* bound: reports lost, pauses, and other trains' reports
  MaxLoads       \* bound: loads of the service page

Point == [crs : STRING \ {""}, time : 0..(DayMinutes - 1), calls : BOOLEAN, known : BOOLEAN,
          expected : Int]
callsOn(points) == Selected(points, {i \in DOMAIN points : points[i].calls})

ASSUME TrainViewsAssumption ==
  /\ SummerFrom \in Int /\ SummerTo \in Int /\ SummerFrom + 60 <= SummerTo
  /\ Ssd \in Nat \ {0}
  /\ Pause \in Nat /\ MaxOddities \in Nat /\ MaxLoads \in Nat
  /\ Scenarios \subseteq
       [route : Seq(Point), rivals : SUBSET {-1, 1}, linked : BOOLEAN, tdLinked : BOOLEAN,
        headcode : BOOLEAN, byRid : BOOLEAN, boarding : Nat \ {0},
        portions : Seq(Seq([crs : STRING, name : STRING, st : Int, at : Int, et : Int]))]
  /\ \A s \in Scenarios : Len(s.route) > 1 /\ s.boarding <= Len(callsOn(s.route))

VARIABLES
  scenario,
  now,
  passed,        \* the instants at which it passed the points so far
  acted,         \* the points for which Darwin has an actual time
  positions,     \* nr_train_position, but for the other trains of the network
  history,       \* nr_train_position_history, by reported_at
  strays,        \* where other trains that could be taken for it were reported
  ended,         \* Darwin has deactivated the run
  oddities,
  pc,            \* the page: "idle" or the query it is about to send
  load,          \* what it has read so far
  page,          \* its last answer
  loads

world == <<scenario, now, passed, acted, positions, history, strays, ended, oddities>>
vars == <<world, pc, load, page, loads>>

Ours == "ours"
Headcode == "1A01"
route == scenario.route
at == Len(passed)
bookedDay(r, i) == Ssd + (IF r[i].time < r[1].time THEN 1 ELSE 0)
bookedOn(r, i) == londonWallToInstant(bookedDay(r, i), r[i].time)
bookedAt(i) == bookedOn(route, i)

\* When it is said to be at a call that it has not been at yet.
expectedAt(i) == IF route[i].calls /\ route[i].expected # NoTime
                 THEN bookedAt(i) + route[i].expected ELSE NoTime

\* Darwin's tables: the run, and the same timetable's run of another day, which
\* has been through if it was yesterday's.
stopRow(i, actual, estimate) ==
  [crs |-> route[i].crs, seq |-> i, actual |-> actual,
   estDep |-> IF route[i].calls /\ i < Len(route) THEN estimate ELSE NoTime,
   estArr |-> IF route[i].calls /\ i > 1 THEN estimate ELSE NoTime,
   schedDep |-> IF route[i].calls /\ i < Len(route) THEN route[i].time ELSE NoTime,
   schedArr |-> IF route[i].calls /\ i > 1 THEN route[i].time ELSE NoTime,
   schedPass |-> IF route[i].calls THEN NoTime ELSE route[i].time]
known == Selected([i \in DOMAIN route |-> i], {i \in DOMAIN route : route[i].known})
ourRun ==
  [rid |-> Ours, ssd |-> Ssd, deactivated |-> ended,
   stops |-> LET points == known
                 actual(i) == IF i \in acted THEN ukHhmm(passed[i]) ELSE NoTime
                 estimate(i) == IF i \in acted THEN NoTime ELSE ukHhmm(expectedAt(i))
             IN [k \in DOMAIN points |-> stopRow(points[k], actual(points[k]), estimate(points[k]))]]
rival(day) ==
  [rid |-> IF day < 0 THEN "yesterday's" ELSE "tomorrow's", ssd |-> Ssd + day, deactivated |-> FALSE,
   stops |-> LET points == known
                 actual(i) == IF day < 0 /\ route[i].calls THEN route[i].time ELSE NoTime
             IN [k \in DOMAIN points |-> stopRow(points[k], actual(points[k]), NoTime)]]
runs == (IF known = <<>> THEN {} ELSE {ourRun}) \cup {rival(day) : day \in scenario.rivals}
headcodeOf(rid) == IF rid # NoRid /\ scenario.headcode THEN Headcode ELSE ""

-----------------------------------------------------------------------------
(* The train and its reports.                                              *)

Spare(n) == oddities + n <= MaxOddities

row(id, td, headcode, rid, crs, event, time, late) ==
  [trainId |-> id, td |-> td, headcode |-> headcode, rid |-> rid, crs |-> crs,
   event |-> event, at |-> time, lateness |-> late]
replaced(rows) == {r \in positions : \A n \in rows : n.trainId # r.trainId} \cup rows

\* It passes the next point, or calls there and leaves again.  Each feed gives
\* its report or loses it; Darwin reports on calls only.
Move ==
  LET i == at + 1
      time == now + (IF at = 0 THEN 0 ELSE bookedAt(i) - bookedAt(at))
      event == IF ~route[i].calls THEN "PASS" ELSE IF i = Len(route) THEN "ARRIVAL" ELSE "DEPARTURE"
      late == time - bookedAt(i)
      rid(linked) == IF linked THEN Ours ELSE NoRid
      trust == row("TRUST", FALSE, Headcode, rid(scenario.linked), route[i].crs, event, time, late)
      td == row("TD:" \o Headcode, TRUE, Headcode, rid(scenario.tdLinked), route[i].crs, event, time, NoTime)
      feeds == {"trust", "td"} \cup (IF route[i].calls /\ route[i].known THEN {"darwin"} ELSE {})
      entry(r) == [rid |-> r.rid, crs |-> r.crs, at |-> r.at, lateness |-> r.lateness, td |-> r.td]
  IN /\ at < Len(route)
     /\ \E lost \in SUBSET feeds :
          LET rows == (IF "trust" \in lost THEN {} ELSE {trust}) \cup (IF "td" \in lost THEN {} ELSE {td})
          IN /\ Spare(Cardinality(lost))
             /\ oddities' = oddities + Cardinality(lost)
             /\ positions' = replaced(rows)
             /\ history' = history \o (IF trust \in rows THEN <<entry(trust)>> ELSE <<>>)
                                  \o (IF td \in rows THEN <<entry(td)>> ELSE <<>>)
             /\ acted' = IF "darwin" \in feeds \ lost THEN acted \cup {i} ELSE acted
     /\ now' = time
     /\ passed' = Append(passed, time)
     /\ UNCHANGED <<scenario, strays, ended, pc, load, page, loads>>

\* It is held where it is.
Held ==
  /\ at < Len(route) /\ Spare(1)
  /\ now' = now + Pause /\ oddities' = oddities + 1
  /\ UNCHANGED <<scenario, passed, acted, positions, history, strays, ended, pc, load, page, loads>>

\* Another train of its headcode, or of another, is reported somewhere.
Stray(crs, headcode) ==
  /\ Spare(1)
  /\ positions' = replaced({row("TD:" \o headcode, TRUE, headcode, NoRid, crs, "PASS", now, NoTime)})
  /\ strays' = strays \cup {crs} /\ oddities' = oddities + 1
  /\ UNCHANGED <<scenario, now, passed, acted, history, ended, pc, load, page, loads>>

\* Darwin deactivates the run some time after the train is there.
Deactivate ==
  /\ at = Len(route) /\ ~ended /\ known # <<>>
  /\ ended' = TRUE
  /\ UNCHANGED <<scenario, now, passed, acted, positions, history, strays, oddities, pc, load, page, loads>>

-----------------------------------------------------------------------------
(* The service page: enrichWithDarwinProgress and enrichWithNrProgress with *)
(* what they read, one query after the other.                               *)

boardCalls == callsOn(route)
boardService ==
  LET point(p) == LET i == CHOOSE j \in DOMAIN route : route[j] = p
                      told == i \in acted
                  IN [crs |-> p.crs, name |-> p.crs, st |-> p.time,
                      at |-> IF told THEN ukHhmm(passed[i]) ELSE NoTime,
                      et |-> IF told THEN NoTime ELSE ukHhmm(expectedAt(i))]
      points(from, to) == [i \in 1..(to - from + 1) |-> point(boardCalls[from + i - 1])]
      here == scenario.boarding
  IN [generatedAt |-> now, this |-> point(boardCalls[here]),
      previous |-> IF here = 1 THEN <<>> ELSE <<points(1, here - 1)>>,
      subsequent |-> IF here = Len(boardCalls) THEN <<>>
                     ELSE <<points(here + 1, Len(boardCalls))>> \o scenario.portions]

Nothing == [calls |-> <<>>, progress |-> NotTracking, rid |-> NoRid]

\* LDBWS's answer or the run's own stops, and then the candidate runs.
LoadRuns ==
  LET calls == IF scenario.byRid THEN fetchCallsByRid(ourRun) ELSE parseCallingPattern(boardService).calls
      keys == callKeys(calls)
      candidates == loadCandidateRuns({k[1] : k \in keys}, runs, now)
      rid == pickBestRun(candidates, keys, now)
      picked == (CHOOSE r \in candidates : r.rid = rid).stops
  IN /\ pc = "idle" /\ loads < MaxLoads /\ loads' = loads + 1
     /\ scenario.byRid => known # <<>>
     /\ load' = [calls |-> calls, rid |-> IF rid = NoRun THEN NoRid ELSE rid, since |-> now,
                 ordered |-> IF rid = NoRun THEN <<>>
                             ELSE withCrs(orderRunStops(picked)),
                 trust |-> <<>>,
                 darwin |-> [calls |-> calls, rid |-> NoRid,
                             progress |-> [NotTracking EXCEPT !.positionState = "awaiting-report"]]]
     /\ pc' = IF rid = NoRun THEN "describer" ELSE "history"
     /\ UNCHANGED <<world, page>>

LoadHistory ==
  /\ pc = "history" /\ pc' = "position"
  /\ load' = [load EXCEPT !.trust = trustProgressForRid(load.rid, history, load.ordered, now)]
  /\ UNCHANGED <<world, page, loads>>

LoadPosition ==
  LET routeCrs == {c.crs : c \in ToSet(load.calls)} \ {""}
      nr == nrPositionForRid(load.rid, headcodeOf(load.rid), routeCrs, positions, now)
  IN /\ pc = "position" /\ pc' = "describer"
     /\ load' = [load EXCEPT !.darwin = enrichWithDarwinProgress(load.rid, load.calls, load.ordered,
                                                                load.trust, nr, load.since)]
     /\ UNCHANGED <<world, page, loads>>

LoadDescriber ==
  LET knownRid == IF scenario.byRid THEN Ours ELSE NoRid
      rid == IF load.darwin.rid # NoRid THEN load.darwin.rid ELSE knownRid
      nr == enrichWithNrProgress(load.darwin.calls, headcodeOf(rid), positions, now)
  IN /\ pc = "describer" /\ pc' = "idle"
     /\ page' = enrichLiveProgress(load.darwin, knownRid, nr)
     /\ load' = Nothing
     /\ UNCHANGED <<world, loads>>

-----------------------------------------------------------------------------
Init ==
  /\ scenario \in Scenarios
  /\ now = bookedAt(1) /\ passed = <<>> /\ acted = {}
  /\ positions = {} /\ history = <<>> /\ strays = {} /\ ended = FALSE /\ oddities = 0
  /\ pc = "idle" /\ load = Nothing /\ page = Nothing /\ loads = 0

Next ==
  \/ Move \/ Held \/ Deactivate
  \/ \E crs \in StrayAt \cap {p.crs : p \in ToSet(route)}, headcode \in {Headcode, "2B02"} : Stray(crs, headcode)
  \/ LoadRuns \/ LoadHistory \/ LoadPosition \/ LoadDescriber

Spec == Init /\ [][Next]_vars

-----------------------------------------------------------------------------
(* Properties.                                                             *)

circular == \E i, j \in DOMAIN route : i # j /\ route[i].crs = route[j].crs

\* Where on its route a page of this run says that the train is, and how far
\* it says it has come.
placeOf(c) == CHOOSE i \in DOMAIN route : route[i].crs = c.crs /\ route[i].time = c.scheduled
pageAt == LET front == frontIndex(page.calls)
          IN IF front = NoIndex THEN NoIndex ELSE placeOf(page.calls[front])
reached(calls) ==
  Max({NoIndex} \cup {placeOf(c) : c \in {d \in ToSet(calls) : d.progress \in {"departed", "current"}}})

\* The map and the boards are functions of the world alone, which moves on as
\* it does without the page; they are looked at before the page is first loaded.
unloaded == loads = 0

\* Our run on the live map, and on the board of each station for the first
\* time that it is there.
Corridors == {<<route[i].crs, route[i + 1].crs>> : i \in 1..(Len(route) - 1)}
onMap == {t \in getLiveTrains(positions, runs, {p.crs : p \in ToSet(route)}, Corridors, now) : t.rid = Ours}
boardRow(time) == [scheduled |-> time, live |-> NoTime, status |-> "scheduled", rid |-> NoRid]
boardAt(i) == enrichBoardWithDarwin(<<boardRow(bookedAt(i)), boardRow(bookedAt(i) + Pause - 1)>>,
                                    stationForecasts(route[i].crs, runs, now))
boardPlaces(i) ==
  LET forecasts == stationForecasts(route[i].crs, runs, now)
  IN {p.crs : p \in rowPlaces(boardAt(i)[1], headcodeOf(Ours), runs, forecasts, positions, now)} \ {""}
departsAt == {i \in DOMAIN route : route[i].calls /\ i < Len(route)}
hasPassed(crs) == \E i \in 1..at : route[i].crs = crs

\* No view says that the train is where it has not been yet: the page, by the
\* first of its markers, while it is of this run, the map's list of a line
\* without a loop, and the boards where no other day's run is known; unless
\* another train was reported at that station, which the describer's rows alone
\* cannot tell from this one.  (Where the run ends short of the page's service
\* the call beyond its end is marked as well, as where the train will be next.
\* Of a train that is at no station of its schedule the map marks the stop that
\* Darwin expects next.)
NeverAhead ==
  /\ page.rid \in {Ours, NoRid} /\ pageAt > at => route[pageAt].crs \in strays
  /\ page.rid = Ours /\ page.progress.arrived => placeOf(Last(page.calls)) <= at
  /\ unloaded /\ ~circular => \A t \in onMap : t.path # <<>> =>
       \A k \in DOMAIN t.path :
         \/ t.path[k] = "upcoming" \/ known[k] <= at
         \/ t.path[k] = "current" /\ ~\E j \in ToSet(known) : route[j].crs = t.crs
  /\ unloaded /\ scenario.rivals = {} => \A i \in departsAt : \A crs \in boardPlaces(i) : hasPassed(crs) \/ crs \in strays

\* The markers of a page run from departed through current to upcoming.
rank(progress) == CASE progress = "departed" -> 1 [] progress = "current" -> 2
                    [] progress = "upcoming" -> 3 [] OTHER -> 0
MarkersRunOn ==
  \A i, j \in DOMAIN page.calls :
    LET before == rank(page.calls[i].progress)
        behind == rank(page.calls[j].progress)
    IN i < j /\ before # 0 /\ behind # 0 => before <= behind

\* The banner speaks of the stop that is marked, and not of one as the next
\* that the markers have the train past.
LastStopIsMarked ==
  LET front == frontIndex(page.calls)
  IN front # NoIndex => page.calls[front].name = page.progress.lastStop
NextStopIsAhead ==
  \A j \in DOMAIN page.calls : page.calls[j].name = page.progress.nextStop =>
    \E k \in DOMAIN page.calls :
      page.calls[k].name = page.progress.nextStop /\ page.calls[k].progress # "departed"

\* The markers and the banner of a page agree, each with itself and with the
\* other.
MarkersAgree == MarkersRunOn /\ LastStopIsMarked /\ NextStopIsAhead

\* The last station of its schedule that the train was reported at.
lastKnownPlace ==
  LET told == SelectSeq(history, LAMBDA r : \E i \in ToSet(known) : route[i].crs = r.crs)
  IN IF told = <<>> THEN "" ELSE Last(told).crs

\* From one answer of the page to the next the train does not go back, while
\* its last report at a station of its schedule is fresh and Darwin has not
\* deactivated its run.  This is of a train that both feeds know by its run, on
\* a line without a loop.
NeverRetreats ==
  [][/\ page' # page /\ page.rid = Ours /\ page'.rid = Ours
     /\ scenario.linked /\ scenario.tdLinked /\ ~circular /\ strays = {} /\ ~ended
     /\ \E r \in ToSet(history) : isFresh(r, now) /\ r.crs = lastKnownPlace
     => reached(page'.calls) >= reached(page.calls)]_vars

\* A page is of this run and no other day's, as long as Darwin has enough of
\* its schedule and has not deactivated it.
OursIsFound ==
  (page # Nothing /\ ~ended /\ Cardinality({i \in ToSet(known) : route[i].calls}) >= MinMatched)
    => page.rid = Ours

\* The map has the train once, at the place of the newest report of either
\* feed that carries the run, and its list of calls, which one stop alone does
\* not make, marks that place.
MapFollowsNewest ==
  LET own == {r \in positions : r.rid = Ours /\ r.at >= now - FreshMinutes}
      isOf(t, r) == r.at = t.at /\ r.crs = t.crs
      marked(t) == {route[known[k]].crs : k \in {j \in DOMAIN t.path : t.path[j] = "current"}}
  IN unloaded =>
       /\ Cardinality(onMap) = (IF own = {} THEN 0 ELSE 1)
       /\ \A t \in onMap :
            /\ (\E r \in own : isOf(t, r)) /\ \A r \in own : r.at <= t.at
            /\ Len(known) > 1 /\ (\E k \in ToSet(known) : route[k].crs = t.crs) => marked(t) = {t.crs}

\* What is to be assumed of a timetable for a bare time of it to say when it
\* is: no day passes between two points, none is booked in the hour that the
\* clocks leave out, a page loaded on the way is loaded less than half a day
\* from the first call, and noon of the starting day, by which Darwin's times
\* are dated, is that near to the points it knows of that day.
DatedFrom(anchor, t) ==
  \/ Gap(t, anchor) < 690
  \/ /\ Gap(t, anchor) < 720
     /\ anchor <= t => t < SummerFrom \/ t >= SummerFrom + 1500
     /\ t < anchor => t >= SummerFrom \/ t < SummerFrom - 1500
Timetabled(s) ==
  LET r == s.route
      clock(i) == bookedDay(r, i) * DayMinutes + r[i].time
      ofTheDay == {i \in DOMAIN r : r[i].known /\ r[i].time >= r[1].time}
  IN /\ \A i, j \in DOMAIN r : i < j => clock(i) <= clock(j)
     /\ \A i \in DOMAIN r : ~(SummerFrom <= clock(i) /\ clock(i) < SummerFrom + 60)
     /\ bookedOn(r, Len(r)) - bookedOn(r, 1) + MaxOddities * Pause < 690
     /\ \A i \in ofTheDay : DatedFrom(serviceDateAnchor(Ssd), bookedOn(r, i))
     /\ s.byRid => \E i \in ofTheDay : r[i].calls

\* What is to be assumed of it for the run to be found by what it calls at: the
\* clocks do not go forward on the day it starts on, Darwin has three fifths of
\* its calls, and the days of a run, its own and another's, can be told from
\* the first point that Darwin knows of it.
ToldApart(s) ==
  LET r == s.route
      calls == {i \in DOMAIN r : r[i].calls}
      told == {i \in DOMAIN r : r[i].known}
      first == CHOOSE i \in told : \A j \in told : i <= j
      clock(day, i) == (bookedDay(r, i) + day) * DayMinutes + r[i].time
  IN /\ SummerFrom <= Ssd * DayMinutes - 60 \/ SummerFrom >= (Ssd + 1) * DayMinutes
     /\ s.byRid \/ 10 * Cardinality(calls \cap told) >= 6 * Cardinality(calls)
     /\ s.rivals # {} => r[first].time >= r[1].time
     /\ \A day \in s.rivals :
          /\ \A i \in told : ~(SummerFrom <= clock(day, i) /\ clock(day, i) < SummerFrom + 60)
          /\ DatedFrom(serviceDateAnchor(Ssd + day), londonWallToInstant(Ssd + day, r[first].time))

\* The calls of a page are dated for when the train is booked there, and so
\* are those of a leg that begins on the day the train starts on, which are
\* all that Darwin knows of it.
PageIsDated == \A c \in ToSet(page.calls) : c.scheduledIso = bookedAt(placeOf(c))
LegsAreDated ==
  unloaded /\ ~circular => \A i, j \in ToSet(known) :
    i < j /\ route[i].time >= route[1].time =>
      LET leg == stopForecastLegView(ourRun, route[i].crs, route[j].crs)
      IN /\ Len(leg) = Cardinality({k \in ToSet(known) : i <= k /\ k <= j})
         /\ \A c \in ToSet(leg) : c.scheduledIso = bookedAt(placeOf(c))

\* What else a page says of a call, on a line without a loop: that the train was
\* there at a time is said only when it was, and when it is expected as it is
\* forecast or, where it is not any more, booked.
forecastAt(i) == orElse(expectedAt(i), bookedAt(i))
PageIsTimed ==
  ~circular /\ page.rid \in {Ours, NoRid} => \A c \in ToSet(page.calls) :
    LET i == placeOf(c)
    IN /\ c.actualIso # NoTime => i <= at /\ c.actualIso = passed[i]
       /\ c.actual = ukHhmm(c.actualIso)
       /\ c.expectedIso \in {NoTime, expectedAt(i)}
       /\ \/ c.estimatedArrivalIso \in {NoTime, forecastAt(i)}
          \/ c.estimatedArrivalIso = bookedAt(i) /\ i \in acted

\* A leg of the run departs and arrives when the train was there, or else when
\* it is expected there.
LegsAreTimed ==
  unloaded /\ ~circular => \A i, j \in ToSet(known) :
    i < j /\ route[i].time >= route[1].time =>
      \A c \in ToSet(stopForecastLegView(ourRun, route[i].crs, route[j].crs)) :
        LET k == placeOf(c)
        IN legTime(c) = IF k \in acted THEN passed[k] ELSE forecastAt(k)

\* And of the trains of a portion and a board: a portion goes on behind the
\* point where it leaves, by the clock of the route and within half a day; the
\* other train of the board leaves at another minute; and no train is late in
\* the hour that the clocks go through twice.
Divided(s) ==
  LET r == s.route
      day(t) == Ssd + (IF t < r[1].time THEN 1 ELSE 0)
      clock(t) == day(t) * DayMinutes + t
      booked(t) == londonWallToInstant(day(t), t)
      here == booked(callsOn(r)[s.boarding].time)
  IN \A p \in ToSet(s.portions) : \A k \in DOMAIN p :
       LET t == p[k].st
       IN /\ t \in 0..(DayMinutes - 1)
          /\ ~(SummerFrom <= clock(t) /\ clock(t) < SummerFrom + 60)
          /\ here < booked(t) /\ booked(t) < here + DayMinutes \div 2
          /\ k = 1 => booked(t) - bookedOn(r, 1) < 690
          /\ \A j \in DOMAIN p : j < k => clock(p[j].st) <= clock(t)
ToldOnce(s) ==
  /\ 1 < Pause /\ Pause < DayMinutes \div 2
  /\ \A i \in DOMAIN s.route :
       LET expected == bookedOn(s.route, i) + s.route[i].expected
       IN s.route[i].expected # NoTime =>
            /\ Gap(s.route[i].expected, 0) < 690
            /\ ~(SummerTo - 60 <= expected /\ expected < SummerTo)
  /\ \A i \in DOMAIN s.route : s.route[i].calls =>
       \/ bookedOn(s.route, i) + MaxOddities * Pause < SummerTo - 60
       \/ bookedOn(s.route, i) >= SummerTo

\* A portion is dated behind the point where it leaves.
PortionsAreDated ==
  LET portions == parseCallingPattern(boardService).portions
      here == bookedAt(placeOf([crs |-> boardService.this.crs, scheduled |-> boardService.this.st]))
  IN unloaded => \A p \in ToSet(portions), i \in 1..2 :
       i \in DOMAIN p.calls => here < p.calls[i].scheduledIso /\ p.calls[i].scheduledIso < here + DayMinutes \div 2

\* A board that has one train only at its minute shows it for when it left or,
\* before that, is expected to, and behind the other one if that is booked
\* before then.
aloneAt(i) == {f.rid : f \in atMinute(stationForecasts(route[i].crs, runs, now), route[i].time)} = {Ours}
toldAt(i) == i \in acted /\ aloneAt(i)
leavesAt(i) == IF toldAt(i) THEN passed[i] ELSE IF aloneAt(i) THEN forecastAt(i) ELSE bookedAt(i)
shownAt(i) == CHOOSE k \in 1..2 : orderByExpectedDeparture(boardAt(i))[k].scheduled = bookedAt(i)
BoardsAreTimed ==
  unloaded => \A i \in departsAt :
    LET board == orderByExpectedDeparture(boardAt(i))
        ours == shownAt(i)
    IN /\ toldAt(i) \/ (aloneAt(i) /\ expectedAt(i) # NoTime) => board[ours].live = leavesAt(i)
       /\ ours = 1 <=> leavesAt(i) <= board[3 - ours].scheduled

\* A time is shown for the instant it means, over midnight and the change of
\* the clocks: a call of the page, or of a leg that begins on the day the train
\* starts on, for when the train is booked there, was there or is expected
\* there, a portion behind the point where it leaves, and on a board, that has
\* one train only at the minute, when the train has left or is expected to;
\* there one that leaves late comes after the train that is booked before then.
TimesAreBooked ==
  PageIsDated /\ PageIsTimed /\ LegsAreDated /\ LegsAreTimed /\ PortionsAreDated /\ BoardsAreTimed
=============================================================================
