--------------------------- MODULE CommuteResolve ---------------------------
(***************************************************************************)
(* What a commute means on a date: packages/shared/src/commute.ts.  The    *)
(* weekly grid is the template, a date's override is folded onto it, and   *)
(* the clock picks the direction.  Times are numbers on one day's clock,   *)
(* None is the code's null; names of stations are values.                  *)
(***************************************************************************)
EXTENDS Integers, Sequences, SequencesExt, FiniteSets

CONSTANT None

Directions == {"am", "pm"}
Bounds == {"start", "end"}

\* a ?? b
Or(a, b) == IF a = None THEN b ELSE a

isDateInHolidayRange(ymd, ranges) == \E h \in ranges : h.startDate <= ymd /\ ymd <= h.endDate

dayOfWeekForDate(ymd) == ymd % 7

windowFor(leg, dir) ==
  IF \E b \in Bounds : leg.window[dir][b] = None THEN None ELSE leg.window[dir]

(* Mutant: a moved window keeps the pinned trains.                         *)
applyDayOverrideKeepPins(leg, o) ==
  [leg EXCEPT !.work = Or(o.work, @),
              !.window = [dir \in Directions |-> [b \in Bounds |-> Or(o.window[dir][b], @[dir][b])]]]

(* Field by field; a direction whose window is moved loses its pins.       *)
applyDayOverride(leg, o) ==
  [leg EXCEPT !.work = Or(o.work, @),
              !.window = [dir \in Directions |-> [b \in Bounds |-> Or(o.window[dir][b], @[dir][b])]],
              !.pins = SelectSeq(@, LAMBDA p : \A b \in Bounds : o.window[p.direction][b] = None)]

pinsFor(leg, dir) ==
  SortSeq(SelectSeq(leg.pins, LAMBDA p : p.direction = dir), LAMBDA p, q : p.sequence < q.sequence)

ActiveLeg(commute, leg, dir, nowHm) ==
  LET home == commute.home
      out == dir = "am"
  IN [legId |-> leg.id, direction |-> dir,
      origin |-> Or(leg.origin[dir], IF out THEN home ELSE leg.work),
      dest |-> Or(leg.dest[dir], IF out THEN leg.work ELSE home),
      window |-> leg.window[dir],
      upcoming |-> nowHm < leg.window[dir]["start"],
      pinnedLegs |-> pinsFor(leg, dir)]

resolveActiveLegForCommute(commute, legs, holidays, today, nowHm, override) ==
  LET day == {l \in legs : l.dayOfWeek = dayOfWeekForDate(today)}
      base == CHOOSE l \in day : TRUE
      leg == IF override = None THEN base ELSE applyDayOverride(base, override)
      open(dir) == windowFor(leg, dir) # None /\ nowHm <= leg.window[dir]["end"]
      skipped == override # None /\ override.skipped
  IN CASE isDateInHolidayRange(today, holidays) \/ skipped \/ day = {} \/ commute.home = None -> None
       [] OTHER -> IF open("am") THEN ActiveLeg(commute, leg, "am", nowHm)
                   ELSE IF open("pm") THEN ActiveLeg(commute, leg, "pm", nowHm)
                   ELSE None

byPriorityThenAge(a, b) ==
  a.priority > b.priority \/ (a.priority = b.priority /\ a.createdAt <= b.createdAt)

First(commutes) == CHOOSE c \in commutes : \A d \in commutes : byPriorityThenAge(c, d)

(* The commute the dashboard opens on.  Overrides are not looked at.       *)
pickDefaultCommute(commutes, holidays, today, nowHm) ==
  LET withActiveLeg == {c \in commutes :
        resolveActiveLegForCommute(c, c.legs, holidays, today, nowHm, None) # None}
      withLegToday == {c \in commutes : \E l \in c.legs : l.dayOfWeek = dayOfWeekForDate(today)}
  IN CASE commutes = {} -> None
       [] withActiveLeg # {} -> First(withActiveLeg)
       [] withActiveLeg = {} /\ withLegToday # {} -> First(withLegToday)
       [] OTHER -> First(commutes)
=============================================================================
