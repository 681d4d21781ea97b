---------------------------- MODULE ServiceMatch ----------------------------
(***************************************************************************)
(* packages/shared/src/service-match.ts: which of the runs Darwin knows is *)
(* the train of a board, which train a describer report is of, and which   *)
(* of a run's stops are the calls of a page.                               *)
(*                                                                         *)
(* A call is [crs, name, scheduled, scheduledIso] and what is known of its *)
(* live times; a stop of a run is [crs, seq, schedArr, schedDep, schedPass,*)
(* estArr, estDep, actual], of crs "" where there is none.  A share is     *)
(* compared by its numerator and denominator.                              *)
(***************************************************************************)
EXTENDS UkTime, Lists, SequencesExt

NoIndex == 0
NoRun == "no run"

stopTimes(s) == {s.schedDep, s.schedArr, s.schedPass} \ {NoTime}
firstTime(s) == IF s.schedDep # NoTime THEN s.schedDep
                ELSE IF s.schedArr # NoTime THEN s.schedArr ELSE s.schedPass

\* An untimed stop goes before a timed one of its place, as "" does; two that
\* compare as equal stay as they were.
orderRunStops(stops) ==
  LET less(a, b) == a.seq < b.seq \/ (a.seq = b.seq /\ firstTime(a) < firstTime(b))
  IN Sorted(stops, {ij \in (DOMAIN stops) \X (DOMAIN stops) :
                      LET a == stops[ij[1]]
                          b == stops[ij[2]]
                      IN less(a, b) \/ (~less(b, a) /\ ij[1] < ij[2])})

callKeys(calls) ==
  {<<c.crs, c.scheduled>> : c \in {d \in ToSet(calls) : d.crs # "" /\ d.scheduled # NoTime}}

scoreRun(stops, keys) ==
  LET hit(s) == s.crs # "" /\ \E t \in stopTimes(s) : <<s.crs, t>> \in keys
      overlap == Min({Cardinality(keys), Len(withCrs(stops))})
  IN [matched |-> Cardinality({k \in DOMAIN stops : hit(stops[k])}), outOf |-> Max({overlap, 1})]

MinMatched == 3
isAcceptable(score, patternSize) ==
  /\ score.matched >= Min({MinMatched, patternSize})
  /\ 10 * score.matched >= 6 * score.outOf

\* Mutant: the anchor is the midnight its date begins with.
runWindowFromMidnight(stops, ssd) ==
  LET ordered == orderRunStops(stops)
      booked == resolvePatternTimes([i \in DOMAIN ordered |-> firstTime(ordered[i])], ssd * DayMinutes)
      dated == ToSet(booked) \ {NoTime}
  IN IF dated = {} THEN <<>> ELSE <<Min(dated), Max(dated)>>

\* When the run is booked to be running; the anchor is noon of its own date.
runWindow(stops, ssd) ==
  LET ordered == orderRunStops(stops)
      noon == ssd * DayMinutes + DayMinutes \div 2
      booked == resolvePatternTimes([i \in DOMAIN ordered |-> firstTime(ordered[i])], noon)
      known == ToSet(booked) \ {NoTime}
  IN IF known = {} THEN <<>> ELSE <<Min(known), Max(known)>>

WindowLead == 15
WindowTrail == 90
Infinity == 1000 * DayMinutes

windowDistance(window, now) ==
  IF window = <<>> THEN Infinity
  ELSE IF window[1] - WindowLead <= now /\ now <= window[2] + WindowTrail THEN 0
  ELSE Min({Gap(now, window[1]), Gap(now, window[2])})

\* The best of the acceptable runs: by calls matched, then by how near it is
\* to being due, then by its share.  Two that equal each other there are not
\* told apart, and none is given.
pickBestRun(runs, keys, now) ==
  LET scored == {[run |-> r, score |-> scoreRun(r.stops, keys),
                  distance |-> windowDistance(runWindow(r.stops, r.ssd), now)] : r \in runs}
      fit == {c \in scored : isAcceptable(c.score, Cardinality(keys))}
      better(a, b) ==
        \/ a.score.matched > b.score.matched
        \/ /\ a.score.matched = b.score.matched
           /\ \/ a.distance < b.distance
              \/ /\ a.distance = b.distance
                 /\ a.score.outOf < b.score.outOf
      top == {a \in fit : \A b \in fit : ~better(b, a)}
  IN IF Cardinality(top) = 1 THEN (CHOOSE a \in top : TRUE).run.rid ELSE NoRun

\* A describer's report is of this service if it is the one train near one of
\* its stops about when it is booked there; the stop is the furthest it gave.
Tolerance == 90
plausibleTdMatch(reports, routeStops) ==
  LET here(r) == {s \in routeStops : s.crs = r.crs /\ s.scheduledMs # NoTime}
      gap(r, s) == Gap(r.at, s.scheduledMs)
      visit(r) == CHOOSE s \in here(r) : \A u \in here(r) :
                    gap(r, s) < gap(r, u) \/ (gap(r, s) = gap(r, u) /\ s.index <= u.index)
      plausible == {r \in reports : /\ r.headcode # "" /\ r.crs # "" /\ here(r) # {}
                                    /\ gap(r, visit(r)) <= Tolerance}
  IN IF Cardinality({r.headcode : r \in plausible}) # 1 THEN NoIndex
     ELSE Max({visit(r).index : r \in plausible})

\* Mutant: each call takes the first stop at its station.
alignCallsToRunAnew(calls, stops) ==
  [i \in DOMAIN calls |->
     Min({Len(stops) + 1} \cup {k \in DOMAIN stops : stops[k].crs = calls[i].crs}) % (Len(stops) + 1)]

\* The calls and the stops are walked together: a call takes the first stop at
\* its station behind the one taken last, which is the cursor.
cursorsOf(calls, stops) ==
  LET cursor[n \in 0..Len(calls)] ==
        IF n = 0 THEN NoIndex
        ELSE LET last == cursor[n - 1]
                 found == {k \in DOMAIN stops : k > last /\ stops[k].crs = calls[n].crs}
             IN IF calls[n].crs = "" \/ found = {} THEN last ELSE Min(found)
  IN cursor
alignCallsToRun(calls, stops) ==
  LET cursor == cursorsOf(calls, stops)
  IN [i \in DOMAIN calls |-> IF cursor[i] = cursor[i - 1] THEN NoIndex ELSE cursor[i]]
=============================================================================
