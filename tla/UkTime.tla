------------------------------- MODULE UkTime -------------------------------
(***************************************************************************)
(* packages/shared/src/uk-time.ts: a bare "HH:MM" of a British timetable   *)
(* and the instant it means.  An instant is a number of minutes UTC, a     *)
(* wall-clock time the minutes since midnight in London; what does not     *)
(* parse is NoTime.  A date is its number of days.                         *)
(***************************************************************************)
EXTENDS Integers, Sequences, FiniteSets

CONSTANTS
  SummerFrom, SummerTo  \* the instants at which London's clocks go on and back

NoTime == -9999  \* no minute of a day, no instant and no lateness that occurs
DayMinutes == 1440

\* The first of two that is known ("??").
orElse(a, b) == IF a # NoTime THEN a ELSE b

londonOffsetMinutes(t) == IF SummerFrom <= t /\ t < SummerTo THEN 60 ELSE 0

londonDateKey(t) == (t + londonOffsetMinutes(t)) \div DayMinutes
ukHhmm(t) == IF t = NoTime THEN NoTime
             ELSE (t + londonOffsetMinutes(t)) % DayMinutes

\* The offset is read a second time, at the instant the first reading gave.
londonWallToInstant(day, hhmm) ==
  LET naive == day * DayMinutes + hhmm
      firstGuess == naive - londonOffsetMinutes(naive)
  IN naive - londonOffsetMinutes(firstGuess)

shiftedLondonDate(anchor, dayShift) ==
  londonDateKey(londonDateKey(anchor) * DayMinutes + DayMinutes \div 2
                + dayShift * DayMinutes)

Gap(a, b) == IF a < b THEN b - a ELSE a - b

\* Of yesterday, today and tomorrow the one that is nearest; the earlier of two.
hhmmToIso(hhmm, anchor) ==
  LET instants == {londonWallToInstant(shiftedLondonDate(anchor, s), hhmm) : s \in -1..1}
      distance(t) == Gap(t, anchor)
  IN IF hhmm = NoTime THEN NoTime
     ELSE CHOOSE t \in instants : \A u \in instants :
            distance(t) < distance(u) \/ (distance(t) = distance(u) /\ t <= u)

\* Mutant: every time is of the day of the first.
resolvePatternTimesSameDay(times, anchor) ==
  [i \in DOMAIN times |->
     IF times[i] = NoTime THEN NoTime
     ELSE londonWallToInstant(londonDateKey(hhmmToIso(times[1], anchor)), times[i])]

\* The first known time is dated by the anchor, the others follow it: a day
\* on, each time the clock is behind that of the known stop before.  (The walk
\* back from the first known stop never finds one: nothing before it is known.)
resolvePatternTimes(times, anchor) ==
  LET known == {i \in DOMAIN times : times[i] # NoTime}
      before(i, j) == i < j /\ \A k \in known : ~(i < k /\ k < j)
      midnights(i) == {j \in known : j <= i /\ \E k \in known : before(k, j) /\ times[j] < times[k]}
      first == CHOOSE i \in known : \A j \in known : i <= j
      firstIso == hhmmToIso(times[first], anchor)
  IN [i \in DOMAIN times |->
        IF i \notin known THEN NoTime
        ELSE londonWallToInstant(shiftedLondonDate(firstIso, Cardinality(midnights(i))), times[i])]

minutesLate(scheduled, live) ==
  IF scheduled = NoTime \/ live = NoTime THEN NoTime ELSE live - scheduled
=============================================================================
