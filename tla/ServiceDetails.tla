--------------------------- MODULE ServiceDetails ---------------------------
(***************************************************************************)
(* apps/web/lib/service-details.ts: the calls of a service page, by the    *)
(* service of a board or by a run of Darwin, and how the two views of the  *)
(* train's progress are put together.                                      *)
(*                                                                         *)
(* What the board's service gives is [generatedAt, this, previous,         *)
(* subsequent]: a stop, and lists of lists of stops, each [crs, name, st,  *)
(* at, et].                                                                *)
(***************************************************************************)
EXTENDS ServiceProgress

toCall(cp) == [crs |-> cp.crs, name |-> cp.name, scheduled |-> cp.st, actual |-> cp.at,
               expected |-> cp.et, scheduledIso |-> NoTime, expectedIso |-> NoTime,
               actualIso |-> NoTime, estimatedArrivalIso |-> NoTime, progress |-> ""]

\* The times of a pattern are dated one after the other, never each by itself;
\* the live times of a call then by its booked one.
datePattern(calls, anchor) ==
  LET iso == resolvePatternTimes([i \in DOMAIN calls |-> calls[i].scheduled], anchor)
      dated(c, scheduledIso) ==
        LET base == orElse(scheduledIso, anchor)
        IN [c EXCEPT !.scheduledIso = scheduledIso,
                     !.expectedIso = hhmmToIso(c.expected, base),
                     !.actualIso = hhmmToIso(c.actual, base)]
  IN [i \in DOMAIN calls |-> dated(calls[i], iso[i])]

\* The route of the portion travelled on is of the first list each way; the
\* further ones are the portions of a service that divides or joins.
parseCallingPattern(d) ==
  LET first(lists) == IF lists = <<>> THEN <<>> ELSE lists[1]
      others(lists) == IF lists = <<>> THEN <<>> ELSE Tail(lists)
      dated(points) == datePattern([i \in DOMAIN points |-> toCall(points[i])], d.generatedAt)
      toPortion(kind, points) ==
        [kind |-> kind, calls |-> dated(points),
         terminusName |-> IF points = <<>> THEN ""
                          ELSE IF kind = "divides" THEN Last(points).name ELSE Head(points).name]
      joins == [i \in DOMAIN others(d.previous) |-> toPortion("joins", others(d.previous)[i])]
      divides == [i \in DOMAIN others(d.subsequent) |-> toPortion("divides", others(d.subsequent)[i])]
      all == joins \o divides
  IN [calls |-> dated(first(d.previous) \o <<d.this>> \o first(d.subsequent)),
      portions |-> Selected(all, {i \in DOMAIN all : all[i].calls # <<>>})]

\* The calls by a run: its public stops, unless those are fewer than two, dated
\* from noon of the day it starts on.
serviceDateAnchor(ssd) == ssd * DayMinutes + DayMinutes \div 2
stopCalls(stops, ssd) ==
  datePattern([i \in DOMAIN stops |->
                 toCall([crs |-> stops[i].crs, name |-> stops[i].crs, st |-> firstTime(stops[i]),
                         at |-> stops[i].actual, et |-> orElse(stops[i].estDep, stops[i].estArr)])],
              serviceDateAnchor(ssd))
fetchCallsByRid(run) ==
  LET stops == withCrs(run.stops)
      public == Selected(stops, {i \in DOMAIN stops :
                                   {stops[i].schedArr, stops[i].schedDep, stops[i].estArr,
                                    stops[i].estDep, stops[i].actual} # {NoTime}})
  IN stopCalls(IF Len(public) >= 2 THEN public ELSE stops, run.ssd)

\* A leg of a run between two stations, from the first call at the one to the
\* next at the other; no calls where it has no such leg.
stopForecastLegView(run, fromCrs, toCrs) ==
  LET stops == withCrs(run.stops)
      starts == {i \in DOMAIN stops : stops[i].crs = fromCrs}
      ends == {i \in DOMAIN stops : stops[i].crs = toCrs /\ starts # {} /\ i > Min(starts)}
  IN IF ends = {} THEN <<>> ELSE stopCalls(SubSeq(stops, Min(starts), Min(ends)), run.ssd)

\* When a leg departs and arrives is told by its first and its last call.
legTime(c) == orElse(c.actualIso, orElse(c.expectedIso, c.scheduledIso))

\* Darwin's view, and the describer's where it is further on or the only one.
enrichLiveProgress(darwin, knownRid, nr) ==
  LET rid == IF darwin.rid # NoRid THEN darwin.rid ELSE knownRid
      progress == IF darwin.rid = NoRid /\ knownRid # NoRid
                  THEN [darwin.progress EXCEPT !.tracking = TRUE, !.positionState = "awaiting-report"]
                  ELSE darwin.progress
  IN IF nr # NoMatch /\ frontIndex(nr.calls) > frontIndex(darwin.calls)
     THEN [calls |-> nr.calls, rid |-> rid,
           progress |-> [nr.progress EXCEPT
                           !.arrived = IF progress.tracking THEN progress.arrived ELSE @,
                           !.delay = progress.delay]]
     ELSE IF nr # NoMatch /\ ~progress.tracking
     THEN [calls |-> nr.calls, rid |-> rid,
           progress |-> [nr.progress EXCEPT !.delay = progress.delay]]
     ELSE [calls |-> darwin.calls, rid |-> rid, progress |-> progress]
=============================================================================
