------------------------------- MODULE Boards -------------------------------
(***************************************************************************)
(* apps/web/lib: a station's departure board.  darwin-forecasts.ts reads   *)
(* what Darwin has of the station, darwin-board.ts puts it over the rows   *)
(* of the timetable, board-position.ts adds where each train is, and       *)
(* board-order.ts sorts them by when they will leave.                      *)
(*                                                                         *)
(* A row is [scheduled, live, status, rid, position]; NoPlace is a row's   *)
(* position where none is shown.                                           *)
(***************************************************************************)
EXTENDS ServiceProgress

DropAfter == 45
NoPlace == [crs |-> "", stale |-> FALSE, at |-> NoTime]

\* Every stop at the station of a run of today or yesterday.
stationForecasts(crs, runs, now) ==
  UNION {{[rid |-> r.rid, schedDep |-> s.schedDep, estDep |-> s.estDep, actDep |-> s.actual] :
            s \in {t \in ToSet(r.stops) : t.crs = crs}} :
         r \in {q \in runs : q.ssd \in candidateServiceDays(now) /\ ~q.deactivated}}

atMinute(forecasts, minute) ==
  {f \in forecasts : f.schedDep # NoTime /\ f.schedDep = minute}

\* A row takes the forecast of its minute, if there is one only: when the train
\* left, or when it is expected to.  (The rows of the timetable have no platform
\* to tell two of them apart; cancellations are left out.)
enrichBoardWithDarwin(rows, forecasts) ==
  LET overlay(row) ==
        LET own == atMinute(forecasts, ukHhmm(row.scheduled))
            f == CHOOSE g \in own : TRUE
            liveIso == hhmmToIso(orElse(f.actDep, f.estDep), row.scheduled)
            late == minutesLate(row.scheduled, liveIso)
        IN IF Cardinality(own) # 1 THEN row
           ELSE [row EXCEPT !.rid = f.rid, !.live = liveIso,
                            !.status = IF late > 1 THEN "delayed"
                                       ELSE IF liveIso # NoTime THEN "on-time" ELSE "scheduled"]
  IN [i \in DOMAIN rows |-> overlay(rows[i])]

\* A minute that two trains share names neither of them.
ridForMinute(forecasts, minute) ==
  LET own == {f.rid : f \in atMinute(forecasts, minute)}
  IN IF Cardinality(own) = 1 THEN CHOOSE rid \in own : TRUE ELSE NoRid

\* A row that carries the run, of two the one the database gives last; without
\* one the row of its headcode, if that was last heard of at a station of the
\* run's route, and otherwise NoRow.
boardPositions(rid, headcode, stops, positions, now) ==
  LET recent == {r \in positions : r.at > now - DropAfter}
      own == {r \in recent : r.rid = rid}
      td == {r \in recent : headcode # "" /\ r.headcode = headcode}
      onRoute(r) == r.crs # "" /\ r.crs \in {s.crs : s \in ToSet(stops)}
  IN IF own # {} THEN own
     ELSE IF td # {} THEN {IF onRoute(r) THEN r ELSE NoRow : r \in td} ELSE {NoRow}

\* Where each row's train may be said to be.
rowPlaces(row, headcode, runs, forecasts, positions, now) ==
  LET rid == IF row.rid # NoRid THEN row.rid ELSE ridForMinute(forecasts, ukHhmm(row.scheduled))
      stops == (CHOOSE q \in runs : q.rid = rid).stops
      place(r) == [crs |-> r.crs, at |-> r.at, stale |-> now - r.at > StaleAfter]
  IN IF rid = NoRid THEN {NoPlace}
     ELSE {IF r = NoRow THEN NoPlace ELSE place(r) :
             r \in boardPositions(rid, headcode, stops, positions, now)}

\* By when they are expected to leave, rows of one time as they came.
expectedDeparture(row) ==
  IF row.status = "cancelled" \/ row.live = NoTime THEN row.scheduled ELSE row.live
orderByExpectedDeparture(rows) ==
  LET at(i) == expectedDeparture(rows[i])
  IN Sorted(rows, {ij \in (DOMAIN rows) \X (DOMAIN rows) :
                     at(ij[1]) < at(ij[2]) \/ (at(ij[1]) = at(ij[2]) /\ ij[1] < ij[2])})
=============================================================================
