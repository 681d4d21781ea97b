----------------------------- MODULE LiveTrains -----------------------------
(***************************************************************************)
(* apps/web/lib/live-trains.ts: the trains of the live map.  Where a train *)
(* is drawn is [at, leg, fraction]: at the station at, or that share (of   *)
(* Whole) along the corridor of the leg from it.  Coordinates themselves   *)
(* are left out; corridors are the pairs of stations that have one.        *)
(***************************************************************************)
EXTENDS ServiceMatch

FreshMinutes == 20
Whole == 100

\* Mutant: the describer's row stands, whichever is newer.
dedupeByPhysicalTrainTd(trains) ==
  {a \in trains : \A b \in trains : b.rid = a.rid => a.td \/ ~b.td}

\* Of one train heard of under two keys the newer row stands, and the
\* describer's of two as new.
dedupeByPhysicalTrain(trains) ==
  LET same(a, b) == IF a.rid = "" THEN a.id = b.id ELSE a.rid = b.rid
      stands(a) == \A b \in trains : same(a, b) =>
                     a.at > b.at \/ (a.at = b.at /\ (a.td \/ ~b.td))
  IN {a \in trains : stands(a)}

\* The calls with coordinates, and Darwin's front among them: the first call
\* of the run without an actual time, or the first of all.
orderedStops(stops) ==
  LET points == withCrs(stops)
  IN Sorted(points, {ij \in (DOMAIN points) \X (DOMAIN points) :
                       LET a == points[ij[1]]
                           b == points[ij[2]]
                       IN a.seq < b.seq \/ (a.seq = b.seq /\ ij[1] < ij[2])})
pathOf(stops, placed) ==
  LET points == orderedStops(stops)
      path == Selected(points, {i \in DOMAIN points : points[i].crs \in placed})
  IN IF Len(path) > 1 THEN path ELSE <<>>
darwinFrontIdx(stops, path) ==
  LET points == orderedStops(stops)
      waiting == Selected(points, {i \in DOMAIN points : points[i].actual = NoTime})
      isCurrent == {i \in DOMAIN path : waiting # <<>> /\ path[i].seq = Head(waiting).seq}
  IN Max({1} \cup isCurrent)

\* Of the visits to the station the row names, the one nearest Darwin's front.
findCurrentPathIndex(path, lastCrs, front) ==
  LET visits == {i \in DOMAIN path : path[i].crs = lastCrs}
  IN IF visits = {} THEN NoIndex
     ELSE CHOOSE i \in visits : \A j \in visits :
            Gap(i, front) < Gap(j, front) \/ (Gap(i, front) = Gap(j, front) /\ i <= j)

\* Departures and arrivals are dated as two sequences, of the actual times where
\* they are known, else the estimates, else the booked ones.
resolveLegTimes(path, now) ==
  LET best(s, estimate, booked) == orElse(s.actual, orElse(estimate, booked))
      departs == [i \in DOMAIN path |-> best(path[i], path[i].estDep, path[i].schedDep)]
      arrives == [i \in DOMAIN path |-> best(path[i], path[i].estArr, path[i].schedArr)]
  IN [depart |-> resolvePatternTimes(departs, now), arrive |-> resolvePatternTimes(arrives, now)]

\* How much of the leg the time since the departure is; half where unknown.
timeFractionAlongLeg(depart, arrive, now) ==
  IF depart = NoTime \/ arrive = NoTime \/ arrive <= depart THEN Whole \div 2
  ELSE Max({0, Min({Whole, (Whole * (now - depart)) \div (arrive - depart)})})

\* A row as a train of the map: a departed train is moved along its leg where
\* the leg has a corridor, any other is drawn at the station it was last at.
toTrain(r, path, front, corridors, now) ==
  LET atIdx == IF r.crs = "" THEN NoIndex ELSE findCurrentPathIndex(path, r.crs, front)
      effectiveIdx == IF path = <<>> \/ atIdx # NoIndex THEN atIdx ELSE front
      times == resolveLegTimes(path, now)
      moving == /\ r.event = "DEPARTURE" /\ atIdx # NoIndex /\ atIdx < Len(path)
                /\ <<path[atIdx].crs, path[atIdx + 1].crs>> \in corridors
      status(i) == IF i < effectiveIdx THEN "departed"
                   ELSE IF i = effectiveIdx THEN "current" ELSE "upcoming"
  IN [id |-> r.trainId, td |-> r.td, rid |-> r.rid, at |-> r.at, crs |-> r.crs,
      index |-> effectiveIdx,
      toward |-> IF effectiveIdx # NoIndex /\ effectiveIdx < Len(path)
                 THEN path[effectiveIdx + 1].crs ELSE "",
      fraction |-> IF moving THEN timeFractionAlongLeg(times.depart[atIdx], times.arrive[atIdx + 1], now)
                   ELSE 0,
      path |-> [i \in DOMAIN path |-> status(i)]]

\* Every train heard of in the last twenty minutes at a place that can be drawn.
getLiveTrains(positions, runs, placed, corridors, now) ==
  LET rows == {r \in positions : r.at >= now - FreshMinutes /\ r.crs \in placed}
      stopsOf(rid) == LET own == {q \in runs : q.rid = rid}
                      IN IF own = {} THEN <<>> ELSE (CHOOSE q \in own : TRUE).stops
      path(r) == pathOf(stopsOf(r.rid), placed)
      train(r) == toTrain(r, path(r), darwinFrontIdx(stopsOf(r.rid), path(r)), corridors, now)
  IN dedupeByPhysicalTrain({train(r) : r \in rows})
=============================================================================
