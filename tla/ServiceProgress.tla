-------------------------- MODULE ServiceProgress ---------------------------
(***************************************************************************)
(* apps/web/lib/service-progress.ts: where the train of a service page is, *)
(* from what Darwin, TRUST and the train describer have written of it.     *)
(*                                                                         *)
(* A row of nr_train_position is [trainId, td, headcode, rid, crs, event,  *)
(* at, lateness]; one of its history [rid, crs, at, lateness, td]; td says *)
(* that it came from the describer ("TD:" before its key).  Stops are      *)
(* counted from 1, and NoIndex is -1 of the code.                          *)
(***************************************************************************)
EXTENDS ServiceMatch

StaleAfter == 10
NoRid == ""
NoRow == [crs |-> "", event |-> "", at |-> NoTime, lateness |-> NoTime]

isFresh(r, now) == r.at > now - StaleAfter

\* The newest row that carries the run, or else the row of its headcode, if
\* that was last heard of at a station of the page.  (Of two as new the
\* database may give either; TrainViews has them at one place.)
nrPositionForRid(rid, headcode, routeCrs, positions, now) ==
  LET own == {r \in positions : r.rid = rid /\ isFresh(r, now)}
      td == {r \in positions : r.td /\ r.headcode = headcode /\ isFresh(r, now)}
      toNrPosition(r) == [crs |-> r.crs, event |-> r.event, at |-> r.at, lateness |-> r.lateness]
  IN IF own # {}
     THEN toNrPosition(CHOOSE r \in own : \A q \in own : q.at < r.at \/ (q.at = r.at /\ (r.td \/ ~q.td)))
     ELSE IF headcode # "" /\ td # {} /\ (CHOOSE r \in td : TRUE).crs \in routeCrs
     THEN toNrPosition(CHOOSE r \in td : TRUE)
     ELSE NoRow

\* The run's reports on its stops, as they were made.  A report is taken to be
\* of the visit nearest to the front, the earlier of two as near, and one that
\* is behind the front is passed over.
trustProgressForRid(rid, history, ordered, now) ==
  LET rows == Selected(history, {i \in DOMAIN history : history[i].rid = rid /\ isFresh(history[i], now)})
      visits(crs) == {i \in DOMAIN ordered : ordered[i].crs = crs}
      visit(crs, front) ==
        LET gap(i) == Gap(i, Max({front, 1}))
        IN CHOOSE i \in visits(crs) : \A j \in visits(crs) :
             gap(i) < gap(j) \/ (gap(i) = gap(j) /\ i <= j)
      walk(stops, r) ==
        LET front == IF stops = <<>> THEN NoIndex ELSE Last(stops).runIdx
        IN IF r.crs = "" \/ visits(r.crs) = {} \/ visit(r.crs, front) < front THEN stops
           ELSE Append(stops, [runIdx |-> visit(r.crs, front), reportedAt |-> r.at,
                             lateness |-> IF r.td THEN NoTime ELSE r.lateness])
      out[n \in 0..Len(rows)] == IF n = 0 THEN <<>> ELSE walk(out[n - 1], rows[n])
  IN out[Len(rows)]

\* The runs of today and yesterday that call at one of the stations.
candidateServiceDays(now) == {londonDateKey(now - DayMinutes), londonDateKey(now)}
loadCandidateRuns(crsList, runs, now) ==
  {r \in runs : /\ r.ssd \in candidateServiceDays(now) /\ ~r.deactivated
                /\ \E s \in ToSet(r.stops) : s.crs \in crsList}

NotTracking == [tracking |-> FALSE, positionState |-> "not-tracked", arrived |-> FALSE,
                networkRail |-> FALSE, lastStop |-> "", nextStop |-> "", delay |-> NoTime]

\* Mutants: the front is the first of the reports that are fresh, or the last
\* of the visits to the newest row's station.
lastPassedIdxFirst(ordered, trustStops) ==
  IF trustStops # <<>> THEN Head(trustStops).runIdx
  ELSE Max({NoIndex} \cup {i \in DOMAIN ordered : ordered[i].actual # NoTime})
effectiveLastPassedIdxLast(ordered, trustStops, nr) ==
  Max({i \in DOMAIN ordered : ordered[i].crs = nr.crs} \cup
      (IF trustStops # <<>> THEN {Last(trustStops).runIdx} ELSE {NoIndex}))

\* The front: the last report of TRUST or the describer, without any the last
\* stop for which Darwin has an actual time, and ahead of those the station of
\* the newest row.
lastPassedIdx(ordered, trustStops) ==
  IF trustStops # <<>> THEN Last(trustStops).runIdx
  ELSE Max({NoIndex} \cup {i \in DOMAIN ordered : ordered[i].actual # NoTime})
effectiveLastPassedIdx(ordered, trustStops, nr) ==
  LET seen == {i \in DOMAIN ordered : ordered[i].crs = nr.crs}
  IN IF nr.crs = "" \/ seen = {} THEN lastPassedIdx(ordered, trustStops)
     ELSE Max({Min(seen), lastPassedIdx(ordered, trustStops)})

\* At the last stop of all, and that is where the page's service ends.
hasArrived(calls, ordered, trustStops) ==
  LET known == withCrs(calls)
      final == ordered[Len(ordered)]
  IN /\ ordered # <<>> /\ known # <<>>
     /\ final.crs = Last(known).crs
     /\ IF trustStops # <<>> THEN Last(trustStops).runIdx = Len(ordered)
        ELSE final.actual # NoTime

\* One marker a call.  A call that the run does not have is behind the train
\* if the last one that it has is; the first one beyond a run that has ended
\* short of the page's service is marked as where the train is, too.
markers(calls, ordered, front, ranOff) ==
  LET alignment == alignCallsToRun(calls, ordered)
      lastKnownIdx(i) == Max({NoIndex} \cup {alignment[j] : j \in 1..i})
      beyond == {i \in DOMAIN calls : /\ alignment[i] = NoIndex /\ ranOff
                                      /\ calls[i].crs # "" /\ lastKnownIdx(i) = Len(ordered)}
      progress(i) ==
        IF alignment[i] = NoIndex
        THEN IF beyond # {} /\ i = Min(beyond) THEN "current"
             ELSE IF lastKnownIdx(i) # NoIndex /\ lastKnownIdx(i) < front THEN "departed"
             ELSE calls[i].progress
        ELSE IF alignment[i] = front THEN "current"
        ELSE IF alignment[i] < front THEN "departed" ELSE "upcoming"
  IN [i \in DOMAIN calls |-> progress(i)]

\* The times of a call that the run has: when the train was there, by the last
\* report of TRUST or the describer of that stop, else by Darwin, else as the
\* call had it; and when it is expected, by Darwin's forecast or its schedule.
withTimes(calls, ordered, trustStops, now) ==
  LET alignment == alignCallsToRun(calls, ordered)
      reportedAt(k) == LET own == {n \in DOMAIN trustStops : trustStops[n].runIdx = k}
                       IN IF own = {} THEN NoTime ELSE trustStops[Max(own)].reportedAt
      booked(d) == orElse(d.schedArr, orElse(d.schedDep, d.schedPass))
      estimate(d) == orElse(d.estArr, orElse(d.estDep, booked(d)))
      timed(c, d, report) ==
        LET anchor == orElse(c.scheduledIso, now)
        IN [c EXCEPT !.actual = orElse(ukHhmm(report), orElse(d.actual, @)),
                     !.actualIso = orElse(report, orElse(hhmmToIso(d.actual, anchor), @)),
                     !.estimatedArrivalIso = hhmmToIso(estimate(d), anchor)]
  IN [i \in DOMAIN calls |->
        IF alignment[i] = NoIndex THEN calls[i]
        ELSE timed(calls[i], ordered[alignment[i]], reportedAt(alignment[i]))]

withProgress(calls, marks) == [i \in DOMAIN calls |-> [calls[i] EXCEPT !.progress = marks[i]]]

nameOf(calls, crs) ==
  LET at == {i \in DOMAIN calls : calls[i].crs = crs}
  IN IF at = {} THEN crs ELSE calls[Min(at)].name

\* TRUST's own lateness where it gave one, else Darwin's time against the
\* booked one, and no more than a minute is not told.
delayMinutes(ordered, trustStops, front, now) ==
  LET told == SelectSeq(trustStops, LAMBDA t : t.lateness # NoTime)
      here == ordered[front]
      late == IF told # <<>> THEN Last(told).lateness
              ELSE IF front = NoIndex THEN NoTime
              ELSE minutesLate(hhmmToIso(firstTime(here), now), hhmmToIso(here.actual, now))
  IN IF late > 1 THEN late ELSE NoTime

\* What the page is told of a run it has been matched to.
enrichWithDarwinProgress(rid, calls, ordered, trustStops, nr, now) ==
  LET front == effectiveLastPassedIdx(ordered, trustStops, nr)
      arrived == hasArrived(calls, ordered, trustStops)
      ranOff == ~arrived /\ ordered # <<>> /\ front = Len(ordered)
      stopName(i) == IF i \in DOMAIN ordered THEN nameOf(calls, ordered[i].crs) ELSE ""
  IN [calls |-> withProgress(withTimes(calls, ordered, trustStops, now),
                              markers(calls, ordered, front, ranOff)),
      rid |-> rid,
      progress |-> [tracking |-> TRUE,
                    positionState |-> IF front # NoIndex \/ nr # NoRow
                                      THEN "tracked" ELSE "awaiting-report",
                    arrived |-> arrived, networkRail |-> nr # NoRow,
                    lastStop |-> stopName(front), nextStop |-> stopName(front + 1),
                    delay |-> delayMinutes(ordered, trustStops, front, now)]]

\* The describer's view without Darwin: of its rows at the stops between the
\* ends, those of the run's headcode where that is known.  NoMatch where there
\* is no train, or more than one, that it could be.
NoMatch == [calls |-> <<>>, progress |-> NotTracking]
enrichWithNrProgress(calls, headcode, positions, now) ==
  LET routeStops == {[index |-> i, crs |-> calls[i].crs, scheduledMs |-> calls[i].scheduledIso] :
                       i \in {j \in DOMAIN calls : calls[j].crs # "" /\ 1 < j /\ j < Len(calls)}}
      rows == {r \in positions : /\ r.td /\ isFresh(r, now)
                                 /\ r.crs \in {s.crs : s \in routeStops}
                                 /\ headcode # "" => r.headcode = headcode}
      match == plausibleTdMatch(rows, routeStops)
      mark(i) == IF i < match THEN "departed" ELSE IF i = match THEN "current" ELSE "upcoming"
  IN IF match = NoIndex THEN NoMatch
     ELSE [calls |-> withProgress(calls, [i \in DOMAIN calls |-> mark(i)]),
           progress |-> [tracking |-> TRUE, positionState |-> "tracked",
                         arrived |-> match = Len(calls), networkRail |-> TRUE,
                         lastStop |-> calls[match].name,
                         nextStop |-> IF match < Len(calls) THEN calls[match + 1].name ELSE "",
                         delay |-> NoTime]]

frontIndex(calls) ==
  LET at == {i \in DOMAIN calls : calls[i].progress = "current"}
  IN IF at = {} THEN NoIndex ELSE Min(at)
=============================================================================
