-------------------------- MODULE TrainTimesProofs --------------------------
(***************************************************************************)
(* Proofs about the times that the views of one train show, and about the  *)
(* choice of its run among those of other days, which goes by them.        *)
(***************************************************************************)
EXTENDS TrainViewsProofs

-----------------------------------------------------------------------------
(* When the calls of a page are booked.                                    *)

(* A call is booked for the day the train starts on or for the day after,  *)
(* by its time of day.                                                     *)
BookedFor(time) == londonWallToInstant(Ssd + (IF time < route[1].time THEN 1 ELSE 0), time)
IsBooked(calls) == \A i \in 1..Len(calls) : calls[i].scheduledIso = BookedFor(calls[i].scheduled)

(* Points of the route, in their order.                                    *)
IsTrip(f, n) ==
    /\ n \in Nat /\ n > 0 /\ f \in [1..n -> 1..Len(route)]
    /\ \A i, j \in 1..n : i < j => f[i] < f[j]

LEMMA TripPattern ==
    ASSUME ClockInv, Timetabled(scenario), NEW n, NEW f, IsTrip(f, n),
           NEW times, times = [i \in 1..n |-> route[f[i]].time],
           NEW a \in Int, DatedFrom(a, bookedAt(f[1]))
    PROVE  \A i \in 1..n : resolvePatternTimes(times, a)[i] = bookedAt(f[i])
<1>1. n \in Nat /\ n > 0 /\ f \in [1..n -> 1..Len(route)] /\ \A i, j \in 1..n : i < j => f[i] < f[j]
  BY DEF IsTrip
<1>2. QED
  BY <1>1, RoutePattern

LEMMA DatedIso ==
    ASSUME NEW calls \in Seq(Call), NEW a \in Int, NEW i \in 1..Len(calls)
    PROVE  datePattern(calls, a)[i].scheduledIso =
             resolvePatternTimes([k \in 1..Len(calls) |-> calls[k].scheduled], a)[i]
<1>1. DOMAIN calls = 1..Len(calls)
  BY SeqFacts
<1>2. PICK iso : iso = resolvePatternTimes([k \in 1..Len(calls) |-> calls[k].scheduled], a)
  OBVIOUS
<1> DEFINE expected(k) == hhmmToIso(calls[k].expected, orElse(iso[k], a))
           actual(k) == hhmmToIso(calls[k].actual, orElse(iso[k], a))
<1>3. datePattern(calls, a) = [k \in 1..Len(calls) |-> [calls[k] EXCEPT !.scheduledIso = iso[k],
                                                                       !.expectedIso = expected(k),
                                                                       !.actualIso = actual(k)]]
  BY <1>1, <1>2 DEF datePattern
<1> HIDE DEF expected, actual
<1>4. datePattern(calls, a)[i] = [calls[i] EXCEPT !.scheduledIso = iso[i], !.expectedIso = expected(i),
                                                  !.actualIso = actual(i)]
  BY <1>3
<1>5. calls[i] \in Call
  OBVIOUS
<1>6. datePattern(calls, a)[i].scheduledIso = iso[i]
  BY <1>4, <1>5 DEF Call
<1>7. QED
  BY <1>2, <1>6

(* A trip that begins near its anchor is dated for when the train is       *)
(* booked, call after call.                                                *)
IsPointsOf(pts, f, n) ==
    /\ pts \in Seq(PagePoint) /\ Len(pts) = n
    /\ \A k \in 1..n : pts[k].st = route[f[k]].time

LEMMA TripIsBooked ==
    ASSUME ClockInv, Timetabled(scenario), NEW n, NEW f, IsTrip(f, n),
           NEW pts, IsPointsOf(pts, f, n), NEW a \in Int, DatedFrom(a, bookedAt(f[1]))
    PROVE  LET calls == datePattern([i \in DOMAIN pts |-> toCall(pts[i])], a)
           IN IsCalls(calls) /\ IsBooked(calls) /\ Len(calls) = n
<1>1. pts \in Seq(PagePoint) /\ Len(pts) = n /\ n \in Nat /\ \A k \in 1..n : pts[k].st = route[f[k]].time
  BY DEF IsPointsOf, IsTrip
<1>2. DOMAIN pts = 1..n
  BY <1>1, SeqFacts
<1>3. PICK raw : raw = [i \in 1..n |-> toCall(pts[i])]
  OBVIOUS
<1>4. PICK calls : calls = datePattern(raw, a)
  OBVIOUS
<1>5. \A i \in 1..n : raw[i] \in Call /\ raw[i].scheduled = pts[i].st
  <2> SUFFICES ASSUME NEW i \in 1..n PROVE raw[i] \in Call /\ raw[i].scheduled = pts[i].st
    OBVIOUS
  <2>1. pts[i] \in PagePoint
    BY <1>1
  <2>2. raw[i] = toCall(pts[i])
    BY <1>3
  <2>3. toCall(pts[i]).scheduled = pts[i].st
    BY DEF toCall
  <2>4. QED
    BY <2>1, <2>2, <2>3, ToCallIs
<1>6. raw \in Seq(Call) /\ Len(raw) = n
  <2>1. \A i \in 1..n : raw[i] \in Call
    BY <1>5
  <2>2. QED
    BY <1>1, <1>3, <2>1
<1>7. [k \in 1..Len(raw) |-> raw[k].scheduled] = [k \in 1..n |-> route[f[k]].time]
  BY <1>1, <1>5, <1>6
<1>8. PICK times : times = [k \in 1..n |-> route[f[k]].time]
  OBVIOUS
<1>9. \A i \in 1..n : resolvePatternTimes(times, a)[i] = bookedAt(f[i])
  BY <1>8, TripPattern
<1>10. \A i \in 1..n : calls[i].scheduledIso = bookedAt(f[i])
  <2> SUFFICES ASSUME NEW i \in 1..n PROVE calls[i].scheduledIso = bookedAt(f[i])
    OBVIOUS
  <2>1. i \in 1..Len(raw)
    BY <1>6
  <2>2. calls[i].scheduledIso = resolvePatternTimes([k \in 1..Len(raw) |-> raw[k].scheduled], a)[i]
    BY <1>4, <1>6, <2>1, DatedIso
  <2>3. QED
    BY <1>7, <1>8, <1>9, <2>2
<1>11. SameCalls(calls, raw)
  BY <1>4, <1>6, DatedCalls
<1>12. Len(calls) = n /\ \A i \in 1..n : calls[i].scheduled = route[f[i]].time
  BY <1>1, <1>5, <1>6, <1>11 DEF SameCalls
<1>13. \A i \in 1..n : bookedAt(f[i]) = BookedFor(route[f[i]].time)
  BY DEF bookedAt, bookedOn, bookedDay, BookedFor
<1>14. IsBooked(calls)
  BY <1>10, <1>12, <1>13 DEF IsBooked
<1>15. calls = datePattern([i \in DOMAIN pts |-> toCall(pts[i])], a)
  BY <1>2, <1>3, <1>4
<1>16. IsCalls(calls)
  BY <1>1, <1>15, PointCalls
<1>17. QED
  BY <1>12, <1>14, <1>15, <1>16

(* Marking the calls leaves their times as they were.                      *)
LEMMA MarkedIsBooked ==
    ASSUME NEW calls \in Seq(Call), IsBooked(calls), NEW marks
    PROVE  IsBooked(withProgress(calls, marks))
<1>1. Len(calls) \in Nat /\ DOMAIN calls = 1..Len(calls)
  BY SeqFacts
<1>2. PICK new : new = [i \in 1..Len(calls) |-> [calls[i] EXCEPT !.progress = marks[i]]]
  OBVIOUS
<1>3. withProgress(calls, marks) = new
  BY <1>1, <1>2 DEF withProgress
<1>4. \A i \in 1..Len(calls) : new[i].scheduled = calls[i].scheduled /\ new[i].scheduledIso = calls[i].scheduledIso
  <2> SUFFICES ASSUME NEW i \in 1..Len(calls)
               PROVE  new[i].scheduled = calls[i].scheduled /\ new[i].scheduledIso = calls[i].scheduledIso
    OBVIOUS
  <2>1. new[i] = [calls[i] EXCEPT !.progress = marks[i]]
    BY <1>2
  <2>2. calls[i] \in Call
    OBVIOUS
  <2>3. QED
    BY <2>1, <2>2 DEF Call
<1>5. Len(new) = Len(calls)
  BY <1>1, <1>2
<1>6. \A i \in 1..Len(new) : new[i].scheduledIso = BookedFor(new[i].scheduled)
  BY <1>4, <1>5 DEF IsBooked
<1>7. QED
  BY <1>3, <1>6 DEF IsBooked

LEMMA TimedIsBooked ==
    ASSUME ClockInv, NEW old \in Seq(Call), IsBooked(old), NEW ordered, IsRunStops(ordered),
           NEW trust, HeardOn(trust, ordered), NEW when \in Int,
           NEW timed, timed = withTimes(old, ordered, trust, when)
    PROVE  timed \in Seq(Call) /\ IsBooked(timed)
<1>1. SameCalls(timed, old) /\ \A i \in 1..Len(old) : timed[i].scheduledIso = old[i].scheduledIso
  BY TimedCalls
<1>2. QED
  BY <1>1 DEF SameCalls, IsBooked

(* The time of day, and what it leaves of the bound on how late it is.     *)
stoodAt == IF at = 0 THEN 1 ELSE at
LatenessInv ==
    /\ oddities \in 0..MaxOddities
    /\ bookedAt(stoodAt) <= now /\ now <= bookedAt(stoodAt) + oddities * Pause

LEMMA MorePauses ==
    ASSUME NEW k \in Nat, NEW n \in Nat, NEW p \in Nat
    PROVE  /\ (k + n) * p \in Nat /\ k * p \in Nat /\ k * p <= (k + n) * p
           /\ (k + 1) * p = k * p + p
<1>1. (k + n) * p = k * p + n * p
  OBVIOUS
<1>2. n * p \in Nat /\ k * p \in Nat
  OBVIOUS
<1>3. (k + 1) * p = k * p + p
  OBVIOUS
<1>4. QED
  BY <1>1, <1>2, <1>3

LEMMA StoodAtIs ==
    ASSUME ClockInv
    PROVE  stoodAt \in 1..Len(route)
<1>1. at \in Nat /\ Len(route) \in Nat /\ Len(route) > 1
  BY RouteFacts
<1>2. at <= Len(route)
  BY DEF ClockInv
<1>3. QED
  BY <1>1, <1>2 DEF stoodAt

(* The next point is booked no earlier than the one the train stands at,   *)
(* and it is as late there as it was, or as it becomes.                    *)
LEMMA MoveLateness ==
    ASSUME ClockInv, ClockInv', Timetabled(scenario), LatenessInv, Move
    PROVE  LatenessInv'
<1>1. PICK k \in Nat : k = oddities
  BY DEF LatenessInv
<1>2. PICK lost : /\ oddities' = oddities + Cardinality(lost) /\ Spare(Cardinality(lost))
                  /\ IsFiniteSet(lost)
  <2> DEFINE feeds == {"trust", "td"} \cup (IF route[at + 1].calls /\ route[at + 1].known THEN {"darwin"} ELSE {})
  <2>1. \E lost \in SUBSET feeds : oddities' = oddities + Cardinality(lost) /\ Spare(Cardinality(lost))
    BY DEF Move
  <2>2. feeds \subseteq {"trust", "td", "darwin"}
    OBVIOUS
  <2>3. IsFiniteSet({"trust", "td", "darwin"})
    <3>1. IsFiniteSet({"trust"})
      BY FS_Singleton
    <3>2. IsFiniteSet({"trust"} \cup {"td"})
      BY <3>1, FS_AddElement
    <3>3. IsFiniteSet(({"trust"} \cup {"td"}) \cup {"darwin"})
      BY <3>2, FS_AddElement
    <3>4. ({"trust"} \cup {"td"}) \cup {"darwin"} = {"trust", "td", "darwin"}
      OBVIOUS
    <3>5. QED
      BY <3>3, <3>4
  <2> HIDE DEF feeds
  <2>4. PICK lost \in SUBSET feeds : oddities' = oddities + Cardinality(lost) /\ Spare(Cardinality(lost))
    BY <2>1
  <2>5. lost \subseteq {"trust", "td", "darwin"}
    BY <2>2, <2>4
  <2>6. IsFiniteSet(lost)
    BY <2>3, <2>5, FS_Subset
  <2>7. QED
    BY <2>4, <2>6
<1>3. PICK n \in Nat : n = Cardinality(lost)
  BY <1>2, FS_CardinalityType
<1>4. oddities' = k + n /\ k + n <= MaxOddities
  BY <1>1, <1>2, <1>3 DEF Spare
<1>5. PICK p \in Nat : p = Pause
  BY TrainViewsAssumption
<1>6. PICK x \in Nat, y \in Nat : x = k * p /\ y = (k + n) * p /\ x <= y
  BY MorePauses
<1>7. route' = route /\ passed' = Append(passed, now') /\ at < Len(route)
  BY DEF Move, route
<1>8. at \in Nat /\ Len(route) \in Nat
  BY RouteFacts
<1>9. at' = at + 1
  <2>1. passed \in Seq(Int) /\ now' \in Int
    BY DEF ClockInv
  <2>2. QED
    BY <1>7, <2>1 DEF at
<1>10. stoodAt' = at + 1 /\ at + 1 \in 1..Len(route)
  BY <1>7, <1>8, <1>9 DEF stoodAt
<1>11. stoodAt \in 1..Len(route) /\ stoodAt <= at + 1
  <2>1. stoodAt \in 1..Len(route)
    BY StoodAtIs
  <2>2. QED
    BY <1>8, <2>1 DEF stoodAt
<1>12. PICK t \in Int, u \in Int : t = bookedAt(stoodAt) /\ u = bookedAt(at + 1)
  BY <1>10, <1>11, BookedIsInt
<1>13. t <= u
  BY <1>10, <1>11, <1>12, BookedOrder
<1>14. now' = now + (u - t)
  <2>1. CASE at = 0
    <3>1. now' = now + 0
      BY <2>1 DEF Move
    <3>2. t = u
      BY <1>12, <2>1 DEF stoodAt
    <3>3. now \in Int
      BY DEF ClockInv
    <3>4. QED
      BY <3>1, <3>2, <3>3
  <2>2. CASE at # 0
    BY <1>12, <2>2 DEF Move, stoodAt
  <2>3. QED
    BY <2>1, <2>2
<1>15. now \in Int /\ t <= now /\ now <= t + x
  <2>1. k * p = oddities * Pause
    BY <1>1, <1>5
  <2>2. QED
    BY <1>6, <1>12, <2>1 DEF LatenessInv, ClockInv
<1>16. PICK now2 \in Int : now2 = now' /\ u <= now2 /\ now2 <= u + y
  BY <1>6, <1>14, <1>15
<1>17. bookedAt(stoodAt)' = u
  <2>1. bookedAt(stoodAt)' = bookedOn(route', stoodAt')
    BY DEF bookedAt
  <2>2. QED
    BY <1>7, <1>10, <1>12, <2>1 DEF bookedAt
<1>18. oddities' \in 0..MaxOddities /\ oddities' * Pause = y
  BY <1>4, <1>5, <1>6, TrainViewsAssumption
<1>19. QED
  BY <1>16, <1>17, <1>18 DEF LatenessInv

LEMMA HeldLateness ==
    ASSUME ClockInv, LatenessInv, Held
    PROVE  LatenessInv'
<1>1. PICK k \in Nat, p \in Nat : k = oddities /\ p = Pause
  BY TrainViewsAssumption DEF LatenessInv
<1>2. PICK x \in Nat, y \in Nat : x = k * p /\ y = (k + 1) * p /\ y = x + p
  BY MorePauses
<1>3. PICK t \in Int : t = bookedAt(stoodAt)
  BY StoodAtIs, BookedIsInt
<1>4. bookedAt(stoodAt)' = t
  <2>1. route' = route /\ stoodAt' = stoodAt
    BY DEF Held, route, stoodAt, at
  <2>2. bookedAt(stoodAt)' = bookedOn(route', stoodAt')
    BY DEF bookedAt
  <2>3. QED
    BY <1>3, <2>1, <2>2 DEF bookedAt
<1>5. now' = now + p /\ oddities' = k + 1 /\ k + 1 <= MaxOddities
  BY <1>1 DEF Held, Spare
<1>6. now \in Int /\ t <= now /\ now <= t + x
  <2>1. k * p = oddities * Pause
    BY <1>1
  <2>2. QED
    BY <1>2, <1>3, <2>1 DEF LatenessInv, ClockInv
<1>7. t <= now' /\ now' <= t + y
  BY <1>2, <1>5, <1>6
<1>8. oddities' \in 0..MaxOddities /\ oddities' * Pause = y
  BY <1>1, <1>2, <1>5, TrainViewsAssumption
<1>9. QED
  BY <1>4, <1>7, <1>8 DEF LatenessInv

LEMMA OtherLateness ==
    ASSUME ClockInv, LatenessInv, scenario' = scenario, passed' = passed, now' = now,
           oddities' = oddities \/ (oddities' = oddities + 1 /\ Spare(1))
    PROVE  LatenessInv'
<1>1. PICK k \in Nat, p \in Nat : k = oddities /\ p = Pause
  BY TrainViewsAssumption DEF LatenessInv
<1>2. PICK x \in Nat, y \in Nat : x = k * p /\ y = (k + 1) * p /\ y = x + p
  BY MorePauses
<1>3. PICK t \in Int : t = bookedAt(stoodAt)
  BY StoodAtIs, BookedIsInt
<1>4. bookedAt(stoodAt)' = t
  <2>1. route' = route /\ stoodAt' = stoodAt
    BY DEF route, stoodAt, at
  <2>2. bookedAt(stoodAt)' = bookedOn(route', stoodAt')
    BY DEF bookedAt
  <2>3. QED
    BY <1>3, <2>1, <2>2 DEF bookedAt
<1>5. now \in Int /\ t <= now /\ now <= t + x
  <2>1. k * p = oddities * Pause
    BY <1>1
  <2>2. QED
    BY <1>2, <1>3, <2>1 DEF LatenessInv, ClockInv
<1>6. CASE oddities' = oddities
  BY <1>3, <1>4, <1>6 DEF LatenessInv
<1>7. CASE oddities' = oddities + 1 /\ Spare(1)
  <2>1. oddities' \in 0..MaxOddities /\ oddities' * Pause = y
    BY <1>1, <1>2, <1>7, TrainViewsAssumption DEF Spare
  <2>2. t <= now' /\ now' <= t + y
    BY <1>2, <1>5
  <2>3. QED
    BY <1>4, <2>1, <2>2 DEF LatenessInv
<1>8. QED
  BY <1>6, <1>7

(* So the page never looks at the train from half a day away.              *)
LEMMA CallsAreNear ==
    ASSUME ClockInv, Timetabled(scenario), LatenessInv, NEW i \in 1..Len(route)
    PROVE  DatedFrom(now, bookedAt(i))
<1>1. PICK N \in Nat : N = Len(route) /\ N > 1
  BY RouteFacts
<1>2. stoodAt \in 1..N
  BY <1>1, StoodAtIs
<1>3. PICK b \in Int, t \in Int, u \in Int, e \in Int :
        b = bookedAt(1) /\ t = bookedAt(stoodAt) /\ u = bookedAt(i) /\ e = bookedAt(N)
  <2>1. 1 \in 1..Len(route) /\ N \in 1..Len(route) /\ stoodAt \in 1..Len(route)
    BY <1>1, <1>2
  <2>2. QED
    BY <2>1, BookedIsInt
<1>4. b <= t /\ t <= e /\ b <= u /\ u <= e
  <2>1. 1 \in 1..Len(route) /\ N \in 1..Len(route) /\ stoodAt \in 1..Len(route)
    BY <1>1, <1>2
  <2>2. 1 <= stoodAt /\ stoodAt <= N /\ 1 <= i /\ i <= N
    BY <1>1, <1>2
  <2>3. QED
    BY <1>3, <2>1, <2>2, BookedOrder
<1>5. PICK k \in Nat, m \in Nat, p \in Nat : k = oddities /\ m = MaxOddities /\ p = Pause /\ k <= m
  BY TrainViewsAssumption DEF LatenessInv
<1>6. PICK x \in Nat, y \in Nat : x = k * p /\ y = m * p /\ x <= y
  <2>1. PICK n \in Nat : m = k + n
    <3>1. m - k \in Nat /\ m = k + (m - k)
      BY <1>5
    <3>2. QED
      BY <3>1
  <2>2. k * p \in Nat /\ (k + n) * p \in Nat /\ k * p <= (k + n) * p
    BY MorePauses
  <2>3. QED
    BY <2>1, <2>2
<1>7. e - b + y < 690
  <2>1. bookedOn(route, Len(route)) - bookedOn(route, 1) + MaxOddities * Pause < 690
    BY DEF Timetabled, route
  <2>2. QED
    BY <1>1, <1>3, <1>5, <1>6, <2>1 DEF bookedAt
<1>8. now \in Int /\ t <= now /\ now <= t + x
  <2>1. k * p = oddities * Pause
    BY <1>5
  <2>2. QED
    BY <1>3, <1>6, <2>1 DEF LatenessInv, ClockInv
<1>9. Gap(u, now) < 690
  <2>1. u - now < 690 /\ now - u < 690
    BY <1>4, <1>6, <1>7, <1>8
  <2>2. QED
    BY <2>1 DEF Gap
<1>10. QED
  BY <1>3, <1>9 DEF DatedFrom

(* The calls of a board's service: all those of the route.                 *)
LEMMA BoardIsBooked ==
    ASSUME ClockInv, Timetabled(scenario), LatenessInv
    PROVE  IsBooked(parseCallingPattern(boardService).calls)
<1>1. PICK all : IsBoardList(all)
  BY BoardListIs
<1>2. PICK n : n = Len(boardCalls)
  OBVIOUS
<1>3. PICK f : IsTrip(f, n) /\ \A k \in 1..n : boardCalls[k] = route[f[k]]
  <2> DEFINE I == {i \in DOMAIN route : route[i].calls}
  <2>1. route \in Seq(Point)
    BY RouteFacts
  <2>2. boardCalls = Selected(route, I)
    BY DEF boardCalls, callsOn
  <2> HIDE DEF I
  <2>3. boardCalls \in Seq(Point)
    BY <2>1, <2>2, SelectedIndices
  <2>4. PICK f : IsSelection(f, boardCalls, route, I, Len(route))
    BY <2>1, <2>2, SelectedIndices
  <2>5. n \in Nat
    BY <1>2, <2>3, SeqFacts
  <2>6. n > 0
    <3>1. scenario.boarding \in Nat \ {0} /\ scenario.boarding <= Len(callsOn(scenario.route))
      BY TrainViewsAssumption DEF ClockInv
    <3>2. n = Len(callsOn(scenario.route))
      BY <1>2 DEF boardCalls, route
    <3>3. QED
      BY <2>5, <3>1, <3>2
  <2>7. f \in [1..n -> 1..Len(route)] /\ (\A i, j \in 1..n : i < j => f[i] < f[j])
        /\ \A k \in 1..n : boardCalls[k] = route[f[k]]
    BY <1>2, <2>4 DEF IsSelection
  <2>8. IsTrip(f, n)
    BY <2>5, <2>6, <2>7 DEF IsTrip
  <2>9. QED
    BY <2>7, <2>8
<1>4. IsPointsOf(all, f, n)
  BY <1>1, <1>2, <1>3 DEF IsBoardList, IsPointsOf
<1>5. DatedFrom(now, bookedAt(f[1]))
  <2>1. f[1] \in 1..Len(route)
    BY <1>3 DEF IsTrip
  <2>2. QED
    BY <2>1, CallsAreNear
<1>6. now \in Int
  BY DEF ClockInv
<1>7. IsBooked(datePattern([i \in DOMAIN all |-> toCall(all[i])], now))
  BY <1>3, <1>4, <1>5, <1>6, TripIsBooked
<1>8. QED
  BY <1>1, <1>7 DEF IsBoardList

(* The stops of a run are dated from noon, if the first of them is booked  *)
(* on the day the train starts on.                                         *)
IsStopsOf(s, f, n) ==
    /\ \E X : s \in Seq(X)
    /\ Len(s) = n
    /\ \A k \in 1..n : /\ s[k].crs = route[f[k]].crs /\ firstTime(s[k]) = route[f[k]].time
                       /\ IsToldStop(s[k], f[k])

IsOfPoint(c, i, s) ==
    LET base == orElse(c.scheduledIso, serviceDateAnchor(Ssd))
    IN /\ c.crs = route[i].crs /\ c.scheduled = route[i].time
       /\ c.expectedIso = hhmmToIso(orElse(s.estDep, s.estArr), base)
       /\ c.actualIso = hhmmToIso(s.actual, base)

LEMMA StopsAreBooked ==
    ASSUME ClockInv, Timetabled(scenario), NEW n, NEW f, IsTrip(f, n), NEW s, IsStopsOf(s, f, n),
           DatedFrom(serviceDateAnchor(Ssd), bookedAt(f[1]))
    PROVE  /\ IsCalls(stopCalls(s, Ssd)) /\ IsBooked(stopCalls(s, Ssd)) /\ Len(stopCalls(s, Ssd)) = n
           /\ \A k \in 1..n : IsOfPoint(stopCalls(s, Ssd)[k], f[k], s[k])
<1>1. PICK X : s \in Seq(X)
  BY DEF IsStopsOf
<1>2. /\ Len(s) = n /\ n \in Nat /\ f \in [1..n -> 1..Len(route)]
      /\ \A k \in 1..n : /\ s[k].crs = route[f[k]].crs /\ firstTime(s[k]) = route[f[k]].time
                         /\ IsToldStop(s[k], f[k])
  BY DEF IsStopsOf, IsTrip
<1>3. \A k \in 1..Len(s) : \E i \in 1..Len(route) :
        s[k].crs = route[i].crs /\ firstTime(s[k]) = route[i].time /\ IsToldStop(s[k], i)
  <2>1. \A k \in 1..n : f[k] \in 1..Len(route)
    BY <1>2
  <2>2. QED
    BY <1>2, <2>1
<1>4. Ssd \in Int
  BY TrainViewsAssumption
<1>5. PICK pts : /\ IsPointsOfStops(pts, s) /\ serviceDateAnchor(Ssd) \in Int
                 /\ stopCalls(s, Ssd) = datePattern([k \in DOMAIN pts |-> toCall(pts[k])],
                                                    serviceDateAnchor(Ssd))
  BY <1>1, <1>3, <1>4, StopPoints
<1>6. IsPointsOf(pts, f, n)
  BY <1>2, <1>5 DEF IsPointsOfStops, IsPointsOf
<1>7. PICK calls, a : calls = stopCalls(s, Ssd) /\ a = serviceDateAnchor(Ssd)
  OBVIOUS
<1>8. IsCalls(calls) /\ IsBooked(calls) /\ Len(calls) = n
  BY <1>5, <1>6, <1>7, TripIsBooked
<1>9. \A k \in 1..n :
        LET base == orElse(calls[k].scheduledIso, a)
        IN /\ calls[k].crs = pts[k].crs /\ calls[k].scheduled = pts[k].st
           /\ calls[k].expectedIso = hhmmToIso(pts[k].et, base)
           /\ calls[k].actualIso = hhmmToIso(pts[k].at, base)
  <2>1. pts \in Seq(PagePoint) /\ Len(pts) = n /\ a \in Int
    BY <1>2, <1>5, <1>7 DEF IsPointsOfStops
  <2>2. calls = datePattern([k \in DOMAIN pts |-> toCall(pts[k])], a)
    BY <1>5, <1>7
  <2>3. ClockInv
    OBVIOUS
  <2>4. \A k \in 1..Len(pts) :
          LET base == orElse(calls[k].scheduledIso, a)
          IN /\ calls[k].crs = pts[k].crs /\ calls[k].scheduled = pts[k].st
             /\ calls[k].expectedIso = hhmmToIso(pts[k].et, base)
             /\ calls[k].actualIso = hhmmToIso(pts[k].at, base)
    BY ONLY <2>1, <2>2, <2>3, PointCalls
  <2>5. QED
    BY <2>1, <2>4
<1>10. \A k \in 1..n : /\ pts[k].crs = route[f[k]].crs /\ pts[k].st = route[f[k]].time
                       /\ pts[k].at = s[k].actual /\ pts[k].et = orElse(s[k].estDep, s[k].estArr)
  BY <1>2, <1>5 DEF IsPointsOfStops
<1>11. \A k \in 1..n : IsOfPoint(calls[k], f[k], s[k])
  BY <1>7, <1>9, <1>10 DEF IsOfPoint
<1>12. QED
  BY <1>7, <1>8, <1>11

(* A point before one that is booked on that day is booked on it, too.     *)
ofTheDay(i) == route[i].known /\ route[i].time >= route[1].time
LEMMA DayBegins ==
    ASSUME ClockInv, Timetabled(scenario), NEW i \in 1..Len(route), NEW j \in 1..Len(route),
           i <= j, route[j].time >= route[1].time
    PROVE  route[i].time >= route[1].time
<1>1. CASE i = j
  BY <1>1
<1>2. CASE i # j
  <2>1. i < j
    <3>1. i \in Int /\ j \in Int
      OBVIOUS
    <3>2. QED
      BY <1>2, <3>1
  <2>2. PICK first \in Int, x \in Int, y \in Int :
          /\ first = route[1].time /\ x = route[i].time /\ y = route[j].time
          /\ 0 <= x /\ y < 1440
    <3>1. 1 \in 1..Len(route)
      <4>1. Len(route) \in Nat /\ Len(route) > 1
        BY RouteFacts
      <4>2. QED
        BY ONLY <4>1
    <3>2. /\ route[1].time \in Int /\ route[i].time \in Int /\ 0 <= route[i].time
          /\ route[j].time \in Int /\ route[j].time < 1440
      BY <3>1, TimesOfDay
    <3>3. QED
      BY ONLY <3>2
  <2>3. clockOf(i) <= clockOf(j)
    BY <2>1, ClockOrder
  <2>4. PICK s \in Nat : s = Ssd
    BY TrainViewsAssumption
  <2>5. SUFFICES ASSUME x < first PROVE FALSE
    BY <2>2
  <2>6. clockOf(i) = (s + 1) * 1440 + x
    BY <2>2, <2>4, <2>5 DEF clockOf, bookedDay
  <2>7. clockOf(j) = s * 1440 + y
    <3>1. ~(y < first)
      BY <2>2
    <3>2. QED
      BY <2>2, <2>4, <3>1 DEF clockOf, bookedDay
  <2>8. (s + 1) * 1440 = s * 1440 + 1440
    OBVIOUS
  <2>9. PICK d \in Nat : d = s * 1440
    OBVIOUS
  <2>10. d + 1440 + x <= d + y
    BY <2>3, <2>6, <2>7, <2>8, <2>9
  <2>11. QED
    BY <2>2, <2>10
<1>3. QED
  BY <1>1, <1>2

(* The calls by a run.                                                     *)
LEMMA RidIsBooked ==
    ASSUME ClockInv, Timetabled(scenario), scenario.byRid
    PROVE  IsBooked(fetchCallsByRid(ourRun))
<1>1. PICK s : s = ourRun.stops
  OBVIOUS
<1>2. IsRunStops(s)
  BY <1>1, RunStops
<1>3. PICK X : s \in Seq(X)
  BY <1>2 DEF IsRunStops
<1>4. withCrs(s) = s
  BY <1>2, RunStopsInOrder
<1>5. PICK I : I = {i \in DOMAIN s : {s[i].schedArr, s[i].schedDep, s[i].estArr,
                                      s[i].estDep, s[i].actual} # {NoTime}}
  OBVIOUS
<1>6. PICK public : public = Selected(s, I)
  OBVIOUS
<1>7. public \in Seq(X)
  BY <1>3, <1>6, SelectedIndices
<1>8. PICK g : IsSelection(g, public, s, I, Len(s))
  BY <1>3, <1>6, SelectedIndices
<1>9. fetchCallsByRid(ourRun) = stopCalls(IF Len(public) >= 2 THEN public ELSE s, Ssd)
  <2>1. ourRun.ssd = Ssd
    BY DEF ourRun
  <2>2. QED
    BY <1>1, <1>4, <1>5, <1>6, <2>1 DEF fetchCallsByRid
<1>10. PICK m \in Nat : m = Len(known) /\ m = Len(s) /\ DOMAIN s = 1..m
  BY <1>2, <1>3, KnownFacts, SeqFacts DEF IsRunStops
<1>11. /\ \A k \in 1..m : known[k] \in 1..Len(route) /\ route[known[k]].known
       /\ \A j, k \in 1..m : j < k => known[j] < known[k]
       /\ \A k \in 1..m : /\ s[k].crs = route[known[k]].crs /\ firstTime(s[k]) = route[known[k]].time
                          /\ IsToldStop(s[k], known[k])
  <2>1. \A k \in 1..m : s[k].crs = route[known[k]].crs /\ firstTime(s[k]) = route[known[k]].time
    BY <1>2, <1>10 DEF IsRunStops
  <2>2. \A k \in 1..m : IsToldStop(s[k], known[k])
    BY <1>1, <1>10, OurStopsAreTold
  <2>3. QED
    BY <1>10, <2>1, <2>2, KnownFacts
<1>12. PICK k0 \in 1..m : route[known[k0]].calls /\ route[known[k0]].time >= route[1].time
  <2>1. PICK i0 \in DOMAIN route : route[i0].known /\ route[i0].time >= route[1].time /\ route[i0].calls
    BY DEF Timetabled, route
  <2>2. i0 \in 1..Len(route)
    <3>1. route \in Seq(Point)
      BY RouteFacts
    <3>2. DOMAIN route = 1..Len(route)
      BY <3>1, SeqFacts
    <3>3. QED
      BY <3>2
  <2>3. PICK k \in 1..Len(known) : known[k] = i0
    BY <2>1, <2>2, KnownFacts
  <2>4. QED
    BY <1>10, <2>1, <2>3
<1>13. k0 \in I
  <2>1. PICK actual, estimate : s[k0] = stopRow(known[k0], actual, estimate)
    BY <1>1, <1>10, StopIsRow
  <2>2. PICK i \in 1..Len(route) : i = known[k0]
    BY <1>11
  <2>3. s[k0].schedArr # NoTime \/ s[k0].schedDep # NoTime
    <3>1. PICK N \in Nat : N = Len(route) /\ N > 1
      BY RouteFacts
    <3>2. route[i].time # NoTime /\ route[i].calls
      BY <1>12, <2>2, RouteFacts
    <3>3. i < N \/ i > 1
      BY <3>1
    <3>4. QED
      BY <2>1, <2>2, <3>1, <3>2, <3>3 DEF stopRow
  <2>4. QED
    BY <1>5, <1>10, <2>3
<1>14. \A i \in 1..Len(route) : i <= known[k0] /\ route[i].known =>
          DatedFrom(serviceDateAnchor(Ssd), bookedAt(i))
  <2> SUFFICES ASSUME NEW i \in 1..Len(route), i <= known[k0], route[i].known
               PROVE  DatedFrom(serviceDateAnchor(Ssd), bookedAt(i))
    OBVIOUS
  <2>1. route[i].time >= route[1].time
    BY <1>11, <1>12, DayBegins
  <2>2. i \in DOMAIN route
    <3>1. route \in Seq(Point)
      BY RouteFacts
    <3>2. DOMAIN route = 1..Len(route)
      BY <3>1, SeqFacts
    <3>3. QED
      BY <3>2
  <2>3. QED
    BY <2>1, <2>2 DEF Timetabled, route, bookedAt
<1>15. CASE Len(public) >= 2
  <2>1. PICK n \in Nat : n = Len(public) /\ n >= 2
    BY <1>7, <1>15, SeqFacts
  <2>2. /\ g \in [1..n -> 1..m] /\ (\A j, k \in 1..n : j < k => g[j] < g[k])
        /\ (\E k \in 1..n : g[k] = k0) /\ \A k \in 1..n : public[k] = s[g[k]]
    BY <1>8, <1>10, <1>13, <2>1 DEF IsSelection
  <2>3. PICK f : f = [k \in 1..n |-> known[g[k]]]
    OBVIOUS
  <2>4. \A k \in 1..n : f[k] \in 1..Len(route) /\ route[f[k]].known /\ f[k] = known[g[k]]
    BY <1>11, <2>2, <2>3
  <2>5. \A j, k \in 1..n : j < k => f[j] < f[k]
    <3> SUFFICES ASSUME NEW j \in 1..n, NEW k \in 1..n, j < k PROVE f[j] < f[k]
      OBVIOUS
    <3>1. g[j] \in 1..m /\ g[k] \in 1..m /\ g[j] < g[k]
      BY <2>2
    <3>2. known[g[j]] < known[g[k]]
      BY <1>11, <3>1
    <3>3. QED
      BY <2>4, <3>2
  <2>6. f \in [1..n -> 1..Len(route)]
    BY <2>3, <2>4
  <2>7. IsTrip(f, n)
    BY <2>1, <2>5, <2>6 DEF IsTrip
  <2>8. IsStopsOf(public, f, n)
    <3>1. \A k \in 1..n : /\ public[k].crs = route[f[k]].crs /\ firstTime(public[k]) = route[f[k]].time
                          /\ IsToldStop(public[k], f[k])
      <4> SUFFICES ASSUME NEW k \in 1..n
                   PROVE  /\ public[k].crs = route[f[k]].crs /\ firstTime(public[k]) = route[f[k]].time
                          /\ IsToldStop(public[k], f[k])
        OBVIOUS
      <4>1. g[k] \in 1..m /\ public[k] = s[g[k]] /\ f[k] = known[g[k]]
        BY <2>2, <2>4
      <4>2. /\ s[g[k]].crs = route[known[g[k]]].crs /\ firstTime(s[g[k]]) = route[known[g[k]]].time
            /\ IsToldStop(s[g[k]], known[g[k]])
        BY <1>11, <4>1
      <4>3. QED
        BY <4>1, <4>2
    <3>2. QED
      BY <1>7, <2>1, <3>1 DEF IsStopsOf
  <2>9. f[1] <= known[k0]
    <3>1. PICK k \in 1..n : g[k] = k0
      BY <2>2
    <3>2. 1 \in 1..n /\ (k = 1 \/ 1 < k)
      BY <2>1
    <3>3. PICK x \in Int, y \in Int : x = f[1] /\ y = f[k]
      BY <2>4, <3>2
    <3>4. x <= y
      BY <2>5, <3>2, <3>3
    <3>5. f[k] = known[k0]
      BY <2>4, <3>1
    <3>6. QED
      BY <3>3, <3>4, <3>5
  <2>10. DatedFrom(serviceDateAnchor(Ssd), bookedAt(f[1]))
    <3>1. 1 \in 1..n
      BY <2>1
    <3>2. QED
      BY <1>14, <2>4, <2>9, <3>1
  <2>11. QED
    BY <1>9, <1>15, <2>7, <2>8, <2>10, StopsAreBooked
<1>16. CASE ~(Len(public) >= 2)
  <2>1. m > 0
    BY <1>10, <1>12
  <2>2. known \in [1..m -> 1..Len(route)]
    <3>1. known \in Seq(1..Len(route))
      BY KnownFacts
    <3>2. known \in [1..Len(known) -> 1..Len(route)]
      BY <3>1
    <3>3. QED
      BY <1>10, <3>2
  <2>3. IsTrip(known, m)
    BY <1>11, <2>1, <2>2 DEF IsTrip
  <2>4. IsStopsOf(s, known, m)
    BY <1>3, <1>10, <1>11 DEF IsStopsOf
  <2>5. known[1] <= known[k0] /\ known[1] \in 1..Len(route) /\ route[known[1]].known
    <3>1. 1 \in 1..m /\ (k0 = 1 \/ 1 < k0)
      BY <2>1
    <3>2. PICK x \in Int, y \in Int : x = known[1] /\ y = known[k0]
      BY <1>11, <3>1
    <3>3. x <= y
      BY <1>11, <3>1, <3>2
    <3>4. QED
      BY <1>11, <3>1, <3>2, <3>3
  <2>6. DatedFrom(serviceDateAnchor(Ssd), bookedAt(known[1]))
    BY <1>14, <2>5
  <2>7. QED
    BY <1>9, <1>16, <2>3, <2>4, <2>6, StopsAreBooked
<1>17. QED
  BY <1>15, <1>16

(* A call is of the point that the page finds it at.                       *)
LEMMA CallIsBookedAt ==
    ASSUME ClockInv, NEW calls, IsCalls(calls), IsBooked(calls), NEW c \in ToSet(calls)
    PROVE  c.scheduledIso = bookedAt(placeOf(c))
<1>1. PICK k \in 1..Len(calls) : c = calls[k]
  <2>1. calls \in Seq(Call)
    BY DEF IsCalls
  <2>2. DOMAIN calls = 1..Len(calls)
    BY <2>1, SeqFacts
  <2>3. QED
    BY <2>2 DEF ToSet
<1>2. PICK i \in 1..Len(route) : c.crs = route[i].crs /\ c.scheduled = route[i].time
  BY <1>1 DEF IsCalls, IsOurCall
<1>3. c.scheduledIso = BookedFor(c.scheduled)
  BY <1>1 DEF IsBooked
<1>4. DOMAIN route = 1..Len(route)
  <2>1. route \in Seq(Point)
    BY RouteFacts
  <2>2. QED
    BY <2>1, SeqFacts
<1>5. PICK j \in DOMAIN route : j = placeOf(c) /\ route[j].crs = c.crs /\ route[j].time = c.scheduled
  <2>1. \E j \in DOMAIN route : route[j].crs = c.crs /\ route[j].time = c.scheduled
    BY <1>2, <1>4
  <2>2. QED
    BY <2>1 DEF placeOf
<1>6. bookedAt(j) = BookedFor(route[j].time)
  BY DEF bookedAt, bookedOn, bookedDay, BookedFor
<1>7. QED
  BY <1>3, <1>5, <1>6

(* A leg has all the points that Darwin knows between its ends, and no     *)
(* other, each dated for when the train is booked there.                   *)
IsOfStop(c, x) == IsOfPoint(c, known[x], ourRun.stops[x])
LEMMA LegIsBooked ==
    ASSUME ClockInv, Timetabled(scenario), ~circular,
           NEW i \in ToSet(known), NEW j \in ToSet(known), i < j, route[i].time >= route[1].time,
           NEW leg, leg = stopForecastLegView(ourRun, route[i].crs, route[j].crs)
    PROVE  /\ IsCalls(leg) /\ IsBooked(leg)
           /\ Len(leg) = Cardinality({k \in ToSet(known) : i <= k /\ k <= j})
           /\ \A k \in 1..Len(leg) : \E x \in 1..Len(known) : IsOfStop(leg[k], x)
<1>1. PICK s : s = ourRun.stops
  OBVIOUS
<1>2. IsRunStops(s) /\ withCrs(s) = s
  BY <1>1, RunStops, RunStopsInOrder
<1>3. PICK X : s \in Seq(X)
  BY <1>2 DEF IsRunStops
<1>4. PICK m \in Nat : m = Len(known) /\ m = Len(s) /\ DOMAIN s = 1..m /\ DOMAIN known = 1..m
  <2>1. known \in Seq(1..Len(route)) /\ Len(known) \in Nat
    BY KnownFacts
  <2>2. QED
    BY <1>2, <1>3, <2>1, SeqFacts DEF IsRunStops
<1>5. /\ \A k \in 1..m : known[k] \in 1..Len(route) /\ route[known[k]].known
      /\ \A a, b \in 1..m : a < b => known[a] < known[b]
      /\ \A k \in 1..m : /\ s[k].crs = route[known[k]].crs /\ firstTime(s[k]) = route[known[k]].time
                         /\ IsToldStop(s[k], known[k])
  <2>1. \A k \in 1..m : s[k].crs = route[known[k]].crs /\ firstTime(s[k]) = route[known[k]].time
    BY <1>2, <1>4 DEF IsRunStops
  <2>2. \A k \in 1..m : IsToldStop(s[k], known[k])
    BY <1>1, <1>4, OurStopsAreTold
  <2>3. QED
    BY <1>4, <2>1, <2>2, KnownFacts
<1>6. PICK p \in 1..m, q \in 1..m : known[p] = i /\ known[q] = j
  BY <1>4 DEF ToSet
<1>7. \A a, b \in 1..m : known[a] <= known[b] => a <= b
  <2> SUFFICES ASSUME NEW a \in 1..m, NEW b \in 1..m, known[a] <= known[b] PROVE a <= b
    OBVIOUS
  <2>1. known[a] \in Int /\ known[b] \in Int /\ a \in Int /\ b \in Int
    BY <1>5
  <2>2. b < a => known[b] < known[a]
    BY <1>5
  <2>3. QED
    BY <2>1, <2>2
<1>8. i \in 1..Len(route) /\ j \in 1..Len(route) /\ p < q
  <2>1. i \in 1..Len(route) /\ j \in 1..Len(route)
    BY <1>5, <1>6
  <2>2. ~(known[q] <= known[p])
    BY <1>6, <2>1
  <2>3. q < p \/ q = p => FALSE
    BY <1>5, <1>6, <2>1, <2>2
  <2>4. QED
    BY <2>1, <2>3
<1>9. \A k \in 1..m : /\ s[k].crs = route[i].crs => k = p
                      /\ s[k].crs = route[j].crs => k = q
  <2> SUFFICES ASSUME NEW k \in 1..m
               PROVE  (s[k].crs = route[i].crs => k = p) /\ (s[k].crs = route[j].crs => k = q)
    OBVIOUS
  <2>1. s[k].crs = route[known[k]].crs /\ known[k] \in 1..Len(route)
    BY <1>5
  <2>2. DOMAIN route = 1..Len(route)
    <3>1. route \in Seq(Point)
      BY RouteFacts
    <3>2. QED
      BY <3>1, SeqFacts
  <2>3. \A a, b \in 1..Len(route) : route[a].crs = route[b].crs => a = b
    BY <2>2 DEF circular
  <2>4. (s[k].crs = route[i].crs => known[k] = known[p]) /\ (s[k].crs = route[j].crs => known[k] = known[q])
    BY <1>6, <1>8, <2>1, <2>3
  <2>5. \A a \in 1..m : known[k] = known[a] => k = a
    <3> SUFFICES ASSUME NEW a \in 1..m, known[k] = known[a] PROVE k = a
      OBVIOUS
    <3>1. known[k] \in Int /\ known[a] \in Int
      BY <1>5
    <3>2. k <= a /\ a <= k
      BY <1>7, <3>1
    <3>3. QED
      BY <3>2
  <2>6. QED
    BY <2>4, <2>5
<1>10. PICK starts : starts = {k \in DOMAIN s : s[k].crs = route[i].crs}
  OBVIOUS
<1>11. starts = {p}
  <2>1. s[p].crs = route[i].crs
    BY <1>5, <1>6
  <2>2. QED
    BY <1>4, <1>9, <1>10, <2>1
<1>12. Min(starts) = p
  <2>1. starts \in SUBSET Nat /\ starts # {}
    BY <1>11
  <2>2. Min(starts) \in starts
    BY <2>1, MinIsSmallest
  <2>3. QED
    BY <1>11, <2>2
<1>13. PICK ends : ends = {k \in DOMAIN s : s[k].crs = route[j].crs /\ starts # {} /\ k > Min(starts)}
  OBVIOUS
<1>14. ends = {q}
  <2>1. s[q].crs = route[j].crs /\ starts # {} /\ q > p
    BY <1>5, <1>6, <1>8, <1>11
  <2>2. QED
    BY <1>4, <1>9, <1>12, <1>13, <2>1
<1>15. Min(ends) = q /\ ends # {}
  <2>1. ends \in SUBSET Nat /\ ends # {}
    BY <1>14
  <2>2. Min(ends) \in ends
    BY <2>1, MinIsSmallest
  <2>3. QED
    BY <1>14, <2>1, <2>2
<1>16. leg = stopCalls(SubSeq(s, p, q), Ssd)
  <2>1. ourRun.ssd = Ssd
    BY DEF ourRun
  <2>2. leg = IF ends = {} THEN <<>> ELSE stopCalls(SubSeq(s, Min(starts), Min(ends)), Ssd)
    BY <1>1, <1>2, <1>10, <1>13, <2>1 DEF stopForecastLegView
  <2>3. QED
    BY <1>12, <1>15, <2>2
<1>17. PICK n \in Nat : n = q - p + 1 /\ n > 0
  BY <1>8
<1>18. PICK part : part = SubSeq(s, p, q)
  OBVIOUS
<1>19. part \in Seq(X) /\ Len(part) = n /\ \A k \in 1..n : part[k] = s[p + k - 1] /\ p + k - 1 \in 1..m
  BY <1>3, <1>4, <1>8, <1>17, <1>18
<1>20. PICK f : f = [k \in 1..n |-> known[p + k - 1]]
  OBVIOUS
<1>21. \A k \in 1..n : f[k] = known[p + k - 1] /\ p + k - 1 \in 1..m /\ f[k] \in 1..Len(route) /\ route[f[k]].known
  BY <1>5, <1>19, <1>20
<1>22. \A a, b \in 1..n : a < b => f[a] < f[b]
  <2> SUFFICES ASSUME NEW a \in 1..n, NEW b \in 1..n, a < b PROVE f[a] < f[b]
    OBVIOUS
  <2>1. p + a - 1 \in 1..m /\ p + b - 1 \in 1..m /\ p + a - 1 < p + b - 1
    BY <1>19
  <2>2. known[p + a - 1] < known[p + b - 1]
    BY <1>5, <2>1
  <2>3. QED
    BY <1>21, <2>2
<1>23. IsTrip(f, n)
  <2>1. f \in [1..n -> 1..Len(route)]
    BY <1>20, <1>21
  <2>2. QED
    BY <1>17, <1>22, <2>1 DEF IsTrip
<1>24. IsStopsOf(part, f, n)
  <2>1. \A k \in 1..n : /\ part[k].crs = route[f[k]].crs /\ firstTime(part[k]) = route[f[k]].time
                        /\ IsToldStop(part[k], f[k])
    <3> SUFFICES ASSUME NEW k \in 1..n
                 PROVE  /\ part[k].crs = route[f[k]].crs /\ firstTime(part[k]) = route[f[k]].time
                        /\ IsToldStop(part[k], f[k])
      OBVIOUS
    <3>1. p + k - 1 \in 1..m /\ part[k] = s[p + k - 1] /\ f[k] = known[p + k - 1]
      BY <1>19, <1>21
    <3>2. QED
      BY <1>5, <3>1
  <2>2. QED
    BY <1>19, <2>1 DEF IsStopsOf
<1>25. f[1] = i
  <2>1. 1 \in 1..n /\ p + 1 - 1 = p
    BY <1>17
  <2>2. f[1] = known[p + 1 - 1]
    BY <1>21, <2>1
  <2>3. QED
    BY <1>6, <2>1, <2>2
<1>26. DatedFrom(serviceDateAnchor(Ssd), bookedAt(i))
  <2>1. i \in DOMAIN route
    <3>1. route \in Seq(Point)
      BY RouteFacts
    <3>2. DOMAIN route = 1..Len(route)
      BY <3>1, SeqFacts
    <3>3. QED
      BY <1>8, <3>2
  <2>2. route[i].known
    BY <1>5, <1>6
  <2>3. QED
    BY <2>1, <2>2 DEF Timetabled, route, bookedAt
<1>27. /\ IsCalls(leg) /\ IsBooked(leg) /\ Len(leg) = n
       /\ \A k \in 1..n : IsOfPoint(leg[k], f[k], part[k])
  BY <1>16, <1>18, <1>23, <1>24, <1>25, <1>26, StopsAreBooked
<1>34. \A k \in 1..n : IsOfStop(leg[k], p + k - 1) /\ p + k - 1 \in 1..Len(known)
  <2> SUFFICES ASSUME NEW k \in 1..n
               PROVE  IsOfStop(leg[k], p + k - 1) /\ p + k - 1 \in 1..Len(known)
    OBVIOUS
  <2>1. PICK x : x = p + k - 1 /\ x \in 1..m /\ part[k] = ourRun.stops[x] /\ f[k] = known[x]
    BY <1>1, <1>19, <1>21
  <2>2. IsOfStop(leg[k], x)
    BY <1>27, <2>1 DEF IsOfStop
  <2>3. QED
    BY <1>4, <2>1, <2>2
<1>28. PICK between : between = {k \in ToSet(known) : i <= k /\ k <= j}
  OBVIOUS
<1>29. \A k \in 1..n : f[k] \in between
  <2> SUFFICES ASSUME NEW k \in 1..n PROVE f[k] \in between
    OBVIOUS
  <2>1. p + k - 1 \in 1..m /\ f[k] = known[p + k - 1] /\ f[k] \in Int
    BY <1>21
  <2>2. f[k] \in ToSet(known)
    BY <1>4, <2>1 DEF ToSet
  <2>3. (p + k - 1 = p \/ p < p + k - 1) /\ (p + k - 1 = q \/ p + k - 1 < q)
    BY <1>17
  <2>4. i <= f[k]
    <3>1. p + k - 1 = p => f[k] = i
      BY <1>6, <2>1
    <3>2. p < p + k - 1 => i < f[k]
      BY <1>5, <1>6, <2>1
    <3>3. QED
      BY <1>8, <2>1, <2>3, <3>1, <3>2
  <2>5. f[k] <= j
    <3>1. p + k - 1 = q => f[k] = j
      BY <1>6, <2>1
    <3>2. p + k - 1 < q => f[k] < j
      BY <1>5, <1>6, <2>1
    <3>3. QED
      BY <1>8, <2>1, <2>3, <3>1, <3>2
  <2>6. QED
    BY <1>28, <2>2, <2>4, <2>5
<1>30. \A x \in between : \E k \in 1..n : f[k] = x
  <2> SUFFICES ASSUME NEW x \in between PROVE \E k \in 1..n : f[k] = x
    OBVIOUS
  <2>1. PICK r \in 1..m : known[r] = x
    BY <1>4, <1>28 DEF ToSet
  <2>2. known[p] <= known[r] /\ known[r] <= known[q]
    BY <1>6, <1>28, <2>1
  <2>3. p <= r /\ r <= q
    BY <1>7, <2>2
  <2>4. PICK k \in 1..n : k = r - p + 1 /\ p + k - 1 = r
    BY <1>17, <2>3
  <2>5. f[k] = x
    BY <1>21, <2>1, <2>4
  <2>6. QED
    BY <2>5
<1>31. ExistsBijection(1..n, between)
  <2>1. f \in [1..n -> between]
    BY <1>20, <1>29
  <2>2. \A a, b \in 1..n : f[a] = f[b] => a = b
    <3> SUFFICES ASSUME NEW a \in 1..n, NEW b \in 1..n, f[a] = f[b] PROVE a = b
      OBVIOUS
    <3>1. f[a] \in Int /\ f[b] \in Int
      BY <1>21
    <3>2. ~(a < b) /\ ~(b < a)
      BY <1>22, <3>1
    <3>3. QED
      BY <3>2
  <2>3. f \in Injection(1..n, between)
    BY <2>1, <2>2 DEF Injection, IsInjective
  <2>4. f \in Surjection(1..n, between)
    BY <1>30, <2>1 DEF Surjection
  <2>5. QED
    BY <2>3, <2>4 DEF ExistsBijection, Bijection
<1>32. Cardinality(between) = n
  <2>1. IsFiniteSet(1..n) /\ Cardinality(1..n) = n
    BY <1>17, FS_Interval
  <2>2. QED
    BY <1>31, <2>1, FS_Bijection
<1>33. QED
  BY <1>27, <1>28, <1>32, <1>34

LEMMA LegsDated ==
    ASSUME ClockInv, Timetabled(scenario)
    PROVE  LegsAreDated
<1> SUFFICES ASSUME ~circular, NEW i \in ToSet(known), NEW j \in ToSet(known), i < j,
                    route[i].time >= route[1].time,
                    NEW leg, leg = stopForecastLegView(ourRun, route[i].crs, route[j].crs)
             PROVE  /\ Len(leg) = Cardinality({k \in ToSet(known) : i <= k /\ k <= j})
                    /\ \A c \in ToSet(leg) : c.scheduledIso = bookedAt(placeOf(c))
  BY DEF LegsAreDated
<1>1. IsCalls(leg) /\ IsBooked(leg) /\ Len(leg) = Cardinality({k \in ToSet(known) : i <= k /\ k <= j})
  BY LegIsBooked
<1>2. QED
  BY <1>1, CallIsBookedAt

(* What a load has read, and the page, is dated for when it is booked.     *)
LoadBooked(l) == IsBooked(l.calls) /\ IsBooked(l.darwin.calls)
DatesInv ==
    Timetabled(scenario) =>
      /\ LatenessInv
      /\ pc # "idle" => LoadBooked(load)
      /\ IsBooked(page.calls)

LEMMA BookedStays ==
    ASSUME route' = route
    PROVE  /\ \A calls : IsBooked(calls) => IsBooked(calls)'
           /\ \A l : LoadBooked(l) => LoadBooked(l)'
<1>1. \A time : BookedFor(time)' = BookedFor(time)
  BY DEF BookedFor
<1>2. \A calls : IsBooked(calls) => IsBooked(calls)'
  BY <1>1 DEF IsBooked
<1>3. QED
  BY <1>2 DEF LoadBooked

LEMMA SameScenario ==
    ASSUME [Next]_vars
    PROVE  scenario' = scenario
<1>1. CASE \E crs \in StrayAt \cap {p.crs : p \in ToSet(route)}, headcode \in {Headcode, "2B02"} :
             Stray(crs, headcode)
  <2>1. PICK crs, headcode : Stray(crs, headcode)
    BY <1>1
  <2>2. QED
    BY <2>1 DEF Stray
<1>2. CASE Move \/ Held \/ Deactivate
  BY <1>2 DEF Move, Held, Deactivate
<1>3. CASE LoadRuns \/ LoadHistory \/ LoadPosition \/ LoadDescriber \/ UNCHANGED vars
  BY <1>3 DEF LoadRuns, LoadHistory, LoadPosition, LoadDescriber, vars, world
<1>4. QED
  BY <1>1, <1>2, <1>3 DEF Next

LEMMA TimetabledStays ==
    ASSUME scenario' = scenario
    PROVE  Timetabled(scenario') <=> Timetabled(scenario)
OBVIOUS

LEMMA InitDates == ASSUME Init PROVE DatesInv
<1>1. ClockInv
  BY InitWorld DEF WorldInv
<1>2. at = 0 /\ stoodAt = 1
  BY DEF Init, at, stoodAt
<1>3. PICK p \in Nat, m \in Nat : p = Pause /\ m = MaxOddities /\ 0 * p = 0
  BY TrainViewsAssumption
<1>4. PICK t \in Int : t = bookedAt(stoodAt)
  BY <1>1, StoodAtIs, BookedIsInt
<1>5. now = t /\ oddities = 0
  BY <1>2, <1>4 DEF Init
<1>6. oddities * Pause = 0 /\ oddities \in 0..MaxOddities
  BY <1>3, <1>5
<1>7. LatenessInv
  BY <1>4, <1>5, <1>6 DEF LatenessInv
<1>8. pc = "idle" /\ page.calls = <<>>
  BY DEF Init, Nothing
<1>9. IsBooked(<<>>)
  BY DEF IsBooked
<1>10. QED
  BY <1>7, <1>8, <1>9 DEF DatesInv

(* A step of the train or of another, with the page as it was.             *)
LEMMA WorldDates ==
    ASSUME ViewsInv, DatesInv, [Next]_vars, pc' = pc, load' = load, page' = page,
           Timetabled(scenario) => LatenessInv'
    PROVE  DatesInv'
<1>1. route' = route /\ scenario' = scenario
  <2>1. route' = route
    BY PlacesStep DEF ViewsInv
  <2>2. scenario' = scenario
    BY SameScenario
  <2>3. QED
    BY <2>1, <2>2
<1>2. SUFFICES ASSUME Timetabled(scenario)
               PROVE  LatenessInv' /\ (pc' # "idle" => LoadBooked(load)') /\ IsBooked(page.calls)'
  BY <1>1, TimetabledStays DEF DatesInv
<1>3. (pc # "idle" => LoadBooked(load)) /\ IsBooked(page.calls)
  BY <1>2 DEF DatesInv
<1>4. /\ \A calls : IsBooked(calls) => IsBooked(calls)'
      /\ \A l : LoadBooked(l) => LoadBooked(l)'
  BY <1>1, BookedStays
<1>5. PICK l, calls : l = load /\ calls = page.calls /\ l = load' /\ calls = page'.calls
  OBVIOUS
<1>6. (pc' # "idle" => LoadBooked(l)') /\ IsBooked(calls)'
  BY <1>3, <1>4, <1>5
<1>7. QED
  BY <1>2, <1>5, <1>6

(* One of the page's queries, of what it has read and shows.               *)
LEMMA QueryDates ==
    ASSUME ViewsInv, DatesInv, [Next]_vars, world' = world,
           Timetabled(scenario) => (pc' # "idle" => LoadBooked(load')) /\ IsBooked(page'.calls)
    PROVE  DatesInv'
<1>1. scenario' = scenario /\ passed' = passed /\ now' = now /\ oddities' = oddities
  BY DEF world
<1>2. route' = route
  BY <1>1 DEF route
<1>3. ClockInv
  BY DEF ViewsInv, WorldInv
<1>4. SUFFICES ASSUME Timetabled(scenario)
               PROVE  LatenessInv' /\ (pc' # "idle" => LoadBooked(load)') /\ IsBooked(page.calls)'
  BY <1>1, TimetabledStays DEF DatesInv
<1>5. LatenessInv
  BY <1>4 DEF DatesInv
<1>6. LatenessInv'
  BY <1>1, <1>3, <1>5, OtherLateness
<1>7. /\ \A calls : IsBooked(calls) => IsBooked(calls)'
      /\ \A l : LoadBooked(l) => LoadBooked(l)'
  BY <1>2, BookedStays
<1>8. PICK l, calls : l = load' /\ calls = page'.calls
  OBVIOUS
<1>9. (pc' # "idle" => LoadBooked(l)) /\ IsBooked(calls)
  BY <1>4, <1>8
<1>10. (pc' # "idle" => LoadBooked(l)') /\ IsBooked(calls)'
  BY <1>7, <1>9
<1>11. QED
  BY <1>6, <1>8, <1>10

LEMMA LoadRunsDates == ASSUME ViewsInv, DatesInv, LoadRuns PROVE DatesInv'
<1> DEFINE calls == IF scenario.byRid THEN fetchCallsByRid(ourRun) ELSE parseCallingPattern(boardService).calls
           keys == callKeys(calls)
           candidates == loadCandidateRuns({k[1] : k \in keys}, runs, now)
           rid == pickBestRun(candidates, keys, now)
           picked == (CHOOSE r \in candidates : r.rid = rid).stops
           ordered == IF rid = NoRun THEN <<>> ELSE withCrs(orderRunStops(picked))
           darwin == [calls |-> calls, rid |-> NoRid,
                      progress |-> [NotTracking EXCEPT !.positionState = "awaiting-report"]]
           new == [calls |-> calls, rid |-> IF rid = NoRun THEN NoRid ELSE rid, since |-> now,
                   ordered |-> ordered, trust |-> <<>>, darwin |-> darwin]
<1>1. load' = new /\ page' = page /\ world' = world
  BY DEF LoadRuns
<1>2. ClockInv /\ [Next]_vars
  BY DEF ViewsInv, WorldInv, Next
<1>3. new.calls = calls /\ new.darwin.calls = calls
  OBVIOUS
<1>4. Timetabled(scenario) => IsBooked(calls) /\ IsBooked(page.calls)
  <2> SUFFICES ASSUME Timetabled(scenario) PROVE IsBooked(calls) /\ IsBooked(page.calls)
    OBVIOUS
  <2>1. LatenessInv /\ IsBooked(page.calls)
    BY DEF DatesInv
  <2>2. QED
    BY <1>2, <2>1, RidIsBooked, BoardIsBooked
<1> HIDE DEF calls, keys, candidates, rid, picked, ordered, darwin, new
<1>5. PICK l : l = new
  OBVIOUS
<1>6. Timetabled(scenario) => LoadBooked(l)
  BY <1>3, <1>4, <1>5 DEF LoadBooked
<1>7. load' = l
  BY <1>1, <1>5
<1>8. QED
  BY <1>1, <1>2, <1>4, <1>6, <1>7, QueryDates

LEMMA LoadHistoryDates == ASSUME ViewsInv, DatesInv, LoadHistory PROVE DatesInv'
<1>1. PageInv /\ [Next]_vars
  BY DEF ViewsInv, Next
<1>2. LoadInv(load) /\ pc # "idle" /\ page' = page /\ world' = world
  BY <1>1 DEF LoadHistory, PageInv
<1>3. PICK trust : trust = trustProgressForRid(load.rid, history, load.ordered, now)
  OBVIOUS
<1>4. PICK l : l = load
  OBVIOUS
<1>5. PICK m : m = [l EXCEPT !.trust = trust]
  OBVIOUS
<1>6. load' = m
  BY <1>3, <1>4, <1>5 DEF LoadHistory
<1>7. m.calls = l.calls /\ m.darwin = l.darwin
  <2>1. PICK calls, rid, since, ordered, before, darwin :
          l = [calls |-> calls, rid |-> rid, since |-> since, ordered |-> ordered,
               trust |-> before, darwin |-> darwin]
    BY <1>2, <1>4 DEF LoadInv, IsLoad
  <2>2. m = [calls |-> calls, rid |-> rid, since |-> since, ordered |-> ordered,
             trust |-> trust, darwin |-> darwin]
    BY <1>5, <2>1
  <2>3. QED
    BY <2>1, <2>2
<1>8. Timetabled(scenario) => LoadBooked(l) /\ IsBooked(page.calls)
  BY <1>2, <1>4 DEF DatesInv
<1>9. Timetabled(scenario) => LoadBooked(m)
  BY <1>7, <1>8 DEF LoadBooked
<1>10. QED
  BY <1>1, <1>2, <1>6, <1>8, <1>9, QueryDates

LEMMA LoadPositionDates == ASSUME ViewsInv, DatesInv, LoadPosition PROVE DatesInv'
<1>1. PageInv /\ ClockInv /\ [Next]_vars
  BY DEF ViewsInv, WorldInv, Next
<1>2. LoadInv(load) /\ pc = "position" /\ page' = page /\ world' = world
  BY <1>1 DEF LoadPosition, PageInv
<1>3. PICK nr : nr = nrPositionForRid(load.rid, headcodeOf(load.rid),
                                      {c.crs : c \in ToSet(load.calls)} \ {""}, positions, now)
  OBVIOUS
<1>4. PICK l : l = load
  OBVIOUS
<1>5. PICK d : d = enrichWithDarwinProgress(l.rid, l.calls, l.ordered, l.trust, nr, l.since)
  OBVIOUS
<1>7. PICK m : m = [l EXCEPT !.darwin = d]
  OBVIOUS
<1>8. load' = m
  BY <1>3, <1>4, <1>5, <1>7 DEF LoadPosition
<1>9. m.calls = l.calls /\ m.darwin = d
  <2>1. PICK calls, rid, since, ordered, trust, before :
          l = [calls |-> calls, rid |-> rid, since |-> since, ordered |-> ordered,
               trust |-> trust, darwin |-> before]
    BY <1>2, <1>4 DEF LoadInv, IsLoad
  <2>2. m = [calls |-> calls, rid |-> rid, since |-> since, ordered |-> ordered,
             trust |-> trust, darwin |-> d]
    BY <1>7, <2>1
  <2>3. QED
    BY <2>1, <2>2
<1>10. PICK timed : timed = withTimes(l.calls, l.ordered, l.trust, l.since)
  OBVIOUS
<1>11. PICK marks : d.calls = withProgress(timed, marks)
  BY <1>5, <1>10 DEF enrichWithDarwinProgress
<1>12. PICK calls \in Seq(Call) : calls = l.calls
  BY <1>2, <1>4 DEF LoadInv, IsCalls
<1>13. Timetabled(scenario) => IsBooked(calls) /\ IsBooked(page.calls)
  BY <1>2, <1>4, <1>12 DEF DatesInv, LoadBooked
<1>14. Timetabled(scenario) => IsBooked(withProgress(timed, marks))
  <2>1. IsRunStops(l.ordered) /\ HeardOn(l.trust, l.ordered) /\ l.since \in Int
    BY <1>1, <1>2, <1>4 DEF PageInv, MatchedInv, LoadInv
  <2>2. PICK ordered, trust, when : ordered = l.ordered /\ trust = l.trust /\ when = l.since
    OBVIOUS
  <2>3. Timetabled(scenario) => timed \in Seq(Call) /\ IsBooked(timed)
    BY <1>1, <1>10, <1>12, <1>13, <2>1, <2>2, TimedIsBooked
  <2>4. QED
    BY <2>3, MarkedIsBooked
<1>15. Timetabled(scenario) => LoadBooked(m)
  BY <1>9, <1>11, <1>12, <1>13, <1>14 DEF LoadBooked
<1>16. QED
  BY <1>1, <1>2, <1>8, <1>13, <1>15, QueryDates

LEMMA LoadDescriberDates == ASSUME ViewsInv, DatesInv, LoadDescriber PROVE DatesInv'
<1>1. PageInv /\ [Next]_vars
  BY DEF ViewsInv, Next
<1>2. LoadInv(load) /\ pc # "idle" /\ pc' = "idle" /\ world' = world
  BY <1>1 DEF LoadDescriber, PageInv
<1>3. PICK knownRid : knownRid = (IF scenario.byRid THEN Ours ELSE NoRid)
  OBVIOUS
<1>4. PICK rid : rid = (IF load.darwin.rid # NoRid THEN load.darwin.rid ELSE knownRid)
  OBVIOUS
<1>5. PICK d : d = load.darwin
  OBVIOUS
<1>6. PICK headcode : headcode = headcodeOf(rid)
  OBVIOUS
<1>7. PICK nr : nr = enrichWithNrProgress(d.calls, headcode, positions, now)
  OBVIOUS
<1>8. PICK p : p = enrichLiveProgress(d, knownRid, nr)
  OBVIOUS
<1>9. page' = p
  BY <1>3, <1>4, <1>5, <1>6, <1>7, <1>8 DEF LoadDescriber
<1>10. PICK calls \in Seq(Call) : calls = d.calls
  BY <1>2, <1>5 DEF LoadInv, DarwinInv, Agrees, IsCalls
<1>11. nr = NoMatch \/ \E marks : nr.calls = withProgress(calls, marks)
  BY <1>7, <1>10 DEF enrichWithNrProgress
<1>12. p.calls = calls \/ \E marks : p.calls = withProgress(calls, marks)
  <2>1. p.calls = d.calls \/ (nr # NoMatch /\ p.calls = nr.calls)
    BY <1>8 DEF enrichLiveProgress
  <2>2. QED
    BY <1>10, <1>11, <2>1
<1>13. Timetabled(scenario) => IsBooked(calls)
  BY <1>2, <1>5, <1>10 DEF DatesInv, LoadBooked
<1>14. Timetabled(scenario) => \A marks : IsBooked(withProgress(calls, marks))
  BY <1>13, MarkedIsBooked
<1>15. PICK shown : shown = p.calls
  OBVIOUS
<1>16. Timetabled(scenario) => IsBooked(shown)
  BY <1>12, <1>13, <1>14, <1>15
<1>17. QED
  BY <1>1, <1>2, <1>9, <1>15, <1>16, QueryDates

LEMMA StepDates == ASSUME ViewsInv, ViewsInv', DatesInv, [Next]_vars PROVE DatesInv'
<1>1. ClockInv /\ ClockInv'
  BY DEF ViewsInv, WorldInv
<1>2. Timetabled(scenario) => LatenessInv
  BY DEF DatesInv
<1>3. CASE Move
  <2>1. pc' = pc /\ load' = load /\ page' = page
    BY <1>3 DEF Move
  <2>2. Timetabled(scenario) => LatenessInv'
    BY <1>1, <1>2, <1>3, MoveLateness
  <2>3. QED
    BY <2>1, <2>2, WorldDates
<1>4. CASE Held
  <2>1. pc' = pc /\ load' = load /\ page' = page
    BY <1>4 DEF Held
  <2>2. Timetabled(scenario) => LatenessInv'
    BY <1>1, <1>2, <1>4, HeldLateness
  <2>3. QED
    BY <2>1, <2>2, WorldDates
<1>5. CASE Deactivate
  <2>1. /\ pc' = pc /\ load' = load /\ page' = page
        /\ scenario' = scenario /\ passed' = passed /\ now' = now /\ oddities' = oddities
    BY <1>5 DEF Deactivate
  <2>2. Timetabled(scenario) => LatenessInv'
    BY <1>1, <1>2, <2>1, OtherLateness
  <2>3. QED
    BY <2>1, <2>2, WorldDates
<1>6. CASE \E crs \in StrayAt \cap {p.crs : p \in ToSet(route)}, headcode \in {Headcode, "2B02"} :
             Stray(crs, headcode)
  <2>1. PICK crs, headcode : Stray(crs, headcode)
    BY <1>6
  <2>2. /\ pc' = pc /\ load' = load /\ page' = page
        /\ scenario' = scenario /\ passed' = passed /\ now' = now /\ oddities' = oddities + 1 /\ Spare(1)
    BY <2>1 DEF Stray
  <2>3. Timetabled(scenario) => LatenessInv'
    BY <1>1, <1>2, <2>2, OtherLateness
  <2>4. QED
    BY <2>2, <2>3, WorldDates
<1>7. CASE LoadRuns
  BY <1>7, LoadRunsDates
<1>8. CASE LoadHistory
  BY <1>8, LoadHistoryDates
<1>9. CASE LoadPosition
  BY <1>9, LoadPositionDates
<1>10. CASE LoadDescriber
  BY <1>10, LoadDescriberDates
<1>11. CASE UNCHANGED vars
  <2>1. /\ pc' = pc /\ load' = load /\ page' = page
        /\ scenario' = scenario /\ passed' = passed /\ now' = now /\ oddities' = oddities
    BY <1>11 DEF vars, world
  <2>2. Timetabled(scenario) => LatenessInv'
    BY <1>1, <1>2, <2>1, OtherLateness
  <2>3. QED
    BY <2>1, <2>2, WorldDates
<1>12. QED
  BY <1>3, <1>4, <1>5, <1>6, <1>7, <1>8, <1>9, <1>10, <1>11 DEF Next

(* On a timetable whose trains are on their way for less than half a day,  *)
(* however late, and are not booked in the hour that the clocks leave out, *)
(* every call of a page is dated for when the train is booked there, over  *)
(* midnight and the change of the clocks (parseCallingPattern and          *)
(* fetchCallsByRid of service-details.ts), and so is every point of a leg  *)
(* that Darwin knows (stopForecastLegView).                                *)
THEOREM TimesAreDated == Spec => [](Timetabled(scenario) => PageIsDated /\ LegsAreDated)
<1>1. Init => DatesInv
  BY InitDates
<1>2. ViewsInv /\ ViewsInv' /\ DatesInv /\ [Next]_vars => DatesInv'
  BY StepDates
<1>3. ViewsInv /\ DatesInv => (Timetabled(scenario) => PageIsDated /\ LegsAreDated)
  <2> SUFFICES ASSUME ViewsInv, DatesInv, Timetabled(scenario) PROVE PageIsDated /\ LegsAreDated
    OBVIOUS
  <2>1. ClockInv /\ ShownInv(page)
    BY DEF ViewsInv, WorldInv, PageInv
  <2>2. LegsAreDated
    BY <2>1, LegsDated
  <2>3. PICK calls : calls = page.calls
    OBVIOUS
  <2>4. IsCalls(calls) /\ IsBooked(calls)
    BY <2>1, <2>3 DEF DatesInv, ShownInv, Agrees
  <2>5. PageIsDated
    BY <2>1, <2>3, <2>4, CallIsBookedAt DEF PageIsDated
  <2>6. QED
    BY <2>2, <2>5
<1>4. QED
  BY <1>1, <1>2, <1>3, PageIsReported, PTL DEF Spec

-----------------------------------------------------------------------------
(* What a function takes from a finite set is no larger.                   *)
LEMMA ImageIsSmaller ==
    ASSUME NEW S, IsFiniteSet(S), NEW f, NEW T, T = {f[x] : x \in S}
    PROVE  /\ IsFiniteSet(T) /\ Cardinality(T) \in Nat /\ Cardinality(S) \in Nat
           /\ Cardinality(T) <= Cardinality(S)
<1>1. PICK g : g = [x \in S |-> f[x]]
  OBVIOUS
<1>2. g \in Surjection(S, T)
  BY <1>1 DEF Surjection
<1>3. IsFiniteSet(T) /\ Cardinality(T) <= Cardinality(S)
  BY <1>2, FS_Surjection
<1>4. QED
  BY <1>3, FS_CardinalityType

LEMMA PartIsSmaller ==
    ASSUME NEW S, IsFiniteSet(S), NEW T, T \subseteq S
    PROVE  /\ IsFiniteSet(T) /\ Cardinality(T) \in Nat /\ Cardinality(S) \in Nat
           /\ Cardinality(T) <= Cardinality(S)
<1>1. IsFiniteSet(T) /\ Cardinality(T) <= Cardinality(S)
  BY FS_Subset
<1>2. QED
  BY <1>1, FS_CardinalityType

-----------------------------------------------------------------------------
(* The keys that a run is looked for by: stations and times of the route,  *)
(* those of all its calls, by a board, or of points that Darwin knows, by  *)
(* the run, with all the calls among them.                                 *)
keyOf(i) == <<route[i].crs, route[i].time>>
knownCalls == {i \in ToSet(known) : route[i].calls}
IsKeys(keys, I) ==
    /\ I \subseteq 1..Len(route) /\ knownCalls \subseteq I
    /\ keys = {keyOf(i) : i \in I}
    /\ scenario.byRid => I \subseteq ToSet(known)
    /\ ~scenario.byRid => I = {i \in 1..Len(route) : route[i].calls}

LEMMA KnownSet ==
    ASSUME ClockInv
    PROVE  /\ \A i : i \in ToSet(known) <=> i \in 1..Len(route) /\ route[i].known
           /\ \A i : i \in ToSet(known) <=> \E k \in 1..Len(known) : known[k] = i
           /\ \A i : i \in knownCalls <=> i \in 1..Len(route) /\ route[i].known /\ route[i].calls
<1>1. known \in Seq(1..Len(route))
  BY KnownFacts
<1>2. DOMAIN known = 1..Len(known)
  BY <1>1, SeqFacts
<1>3. \A i : i \in ToSet(known) <=> \E k \in 1..Len(known) : known[k] = i
  BY <1>2 DEF ToSet
<1>4. \A i : i \in ToSet(known) <=> i \in 1..Len(route) /\ route[i].known
  <2>1. /\ \A k \in 1..Len(known) : known[k] \in 1..Len(route) /\ route[known[k]].known
        /\ \A i \in 1..Len(route) : route[i].known => \E k \in 1..Len(known) : known[k] = i
    BY KnownFacts
  <2>2. QED
    BY <1>3, <2>1
<1>5. QED
  BY <1>3, <1>4 DEF knownCalls

LEMMA CallKeysAre ==
    ASSUME ClockInv, NEW pts \in Seq(PagePoint), NEW a \in Int
    PROVE  callKeys(datePattern([i \in DOMAIN pts |-> toCall(pts[i])], a))
             = {<<pts[k].crs, pts[k].st>> : k \in 1..Len(pts)}
<1>1. Len(pts) \in Nat /\ DOMAIN pts = 1..Len(pts)
  BY SeqFacts
<1>2. PICK raw : raw = [i \in 1..Len(pts) |-> toCall(pts[i])]
  OBVIOUS
<1>3. PICK calls : calls = datePattern(raw, a)
  OBVIOUS
<1>4. \A i \in 1..Len(pts) : raw[i] \in Call /\ raw[i].crs = pts[i].crs /\ raw[i].scheduled = pts[i].st
  <2> SUFFICES ASSUME NEW i \in 1..Len(pts)
               PROVE  raw[i] \in Call /\ raw[i].crs = pts[i].crs /\ raw[i].scheduled = pts[i].st
    OBVIOUS
  <2>1. pts[i] \in PagePoint
    OBVIOUS
  <2>2. raw[i] = toCall(pts[i])
    BY <1>2
  <2>3. toCall(pts[i]).scheduled = pts[i].st /\ toCall(pts[i]).crs = pts[i].crs
    BY DEF toCall
  <2>4. QED
    BY <2>1, <2>2, <2>3, ToCallIs
<1>5. raw \in Seq(Call) /\ Len(raw) = Len(pts)
  <2>1. \A i \in 1..Len(pts) : raw[i] \in Call
    BY <1>4
  <2>2. QED
    BY <1>1, <1>2, <2>1
<1>6. SameCalls(calls, raw)
  BY <1>3, <1>5, DatedCalls
<1>7. /\ DOMAIN calls = 1..Len(pts)
      /\ \A k \in 1..Len(pts) : calls[k].crs = pts[k].crs /\ calls[k].scheduled = pts[k].st
  <2>1. calls \in Seq(Call) /\ Len(calls) = Len(pts)
    BY <1>5, <1>6 DEF SameCalls
  <2>2. DOMAIN calls = 1..Len(calls)
    BY <2>1, SeqFacts
  <2>3. QED
    BY <1>4, <1>5, <1>6, <2>1, <2>2 DEF SameCalls
<1>8. \A k \in 1..Len(pts) : pts[k].crs # "" /\ pts[k].st # NoTime
  <2> SUFFICES ASSUME NEW k \in 1..Len(pts) PROVE pts[k].crs # "" /\ pts[k].st # NoTime
    OBVIOUS
  <2>1. pts[k] \in PagePoint
    OBVIOUS
  <2>2. PICK i \in 1..Len(route) : pts[k].crs = route[i].crs /\ pts[k].st = route[i].time
    BY <2>1 DEF PagePoint, IsOurPoint
  <2>3. route[i].crs # "" /\ route[i].time # NoTime
    BY RouteFacts
  <2>4. QED
    BY <2>2, <2>3
<1>9. callKeys(calls) = {<<calls[k].crs, calls[k].scheduled>> : k \in 1..Len(pts)}
  <2>1. PICK kept : kept = {d \in ToSet(calls) : d.crs # "" /\ d.scheduled # NoTime}
    OBVIOUS
  <2>2. kept = {calls[k] : k \in 1..Len(pts)}
    BY <1>7, <1>8, <2>1 DEF ToSet
  <2>3. callKeys(calls) = {<<c.crs, c.scheduled>> : c \in kept}
    BY <2>1 DEF callKeys
  <2>4. QED
    BY <2>2, <2>3
<1>10. {<<calls[k].crs, calls[k].scheduled>> : k \in 1..Len(pts)} = {<<pts[k].crs, pts[k].st>> : k \in 1..Len(pts)}
  BY <1>7
<1>11. QED
  BY <1>1, <1>2, <1>3, <1>9, <1>10

LEMMA BoardKeys ==
    ASSUME ClockInv, ~scenario.byRid
    PROVE  \E I : IsKeys(callKeys(parseCallingPattern(boardService).calls), I)
<1>1. PICK all : IsBoardList(all)
  BY BoardListIs
<1>2. PICK n : n = Len(boardCalls)
  OBVIOUS
<1>3. PICK I : I = {i \in 1..Len(route) : route[i].calls}
  OBVIOUS
<1>4. PICK f : /\ f \in [1..n -> I] /\ (\A i \in I : \E k \in 1..n : f[k] = i)
               /\ \A k \in 1..n : boardCalls[k] = route[f[k]]
  <2>1. route \in Seq(Point) /\ DOMAIN route = 1..Len(route)
    BY RouteFacts, SeqFacts
  <2>2. boardCalls = Selected(route, I)
    BY <1>3, <2>1 DEF boardCalls, callsOn
  <2>3. PICK f : IsSelection(f, boardCalls, route, I, Len(route))
    BY <2>1, <2>2, SelectedIndices
  <2>4. (1..Len(route)) \cap I = I
    BY <1>3
  <2>5. QED
    BY <1>2, <2>3, <2>4 DEF IsSelection
<1>5. /\ all \in Seq(PagePoint) /\ Len(all) = n /\ now \in Int
      /\ \A k \in 1..n : all[k].st = route[f[k]].time /\ all[k].crs = route[f[k]].crs
      /\ parseCallingPattern(boardService).calls = datePattern([i \in DOMAIN all |-> toCall(all[i])], now)
  BY <1>1, <1>2, <1>4 DEF IsBoardList, ClockInv
<1>6. callKeys(parseCallingPattern(boardService).calls) = {<<all[k].crs, all[k].st>> : k \in 1..n}
  BY <1>5, CallKeysAre
<1>7. {<<all[k].crs, all[k].st>> : k \in 1..n} = {keyOf(i) : i \in I}
  <2>1. \A k \in 1..n : f[k] \in I /\ <<all[k].crs, all[k].st>> = keyOf(f[k])
    BY <1>4, <1>5 DEF keyOf
  <2>2. \A i \in I : \E k \in 1..n : keyOf(i) = <<all[k].crs, all[k].st>>
    BY <1>4, <2>1
  <2>3. QED
    BY <2>1, <2>2
<1>8. knownCalls \subseteq I
  BY <1>3, KnownSet
<1>9. QED
  BY <1>3, <1>6, <1>7, <1>8 DEF IsKeys

LEMMA RidKeys ==
    ASSUME ClockInv, scenario.byRid
    PROVE  \E I : IsKeys(callKeys(fetchCallsByRid(ourRun)), I)
<1>1. PICK s : s = ourRun.stops
  OBVIOUS
<1>2. IsRunStops(s)
  BY <1>1, RunStops
<1>3. PICK X : s \in Seq(X)
  BY <1>2 DEF IsRunStops
<1>4. withCrs(s) = s
  BY <1>2, RunStopsInOrder
<1>5. PICK J : J = {i \in DOMAIN s : {s[i].schedArr, s[i].schedDep, s[i].estArr,
                                      s[i].estDep, s[i].actual} # {NoTime}}
  OBVIOUS
<1>6. PICK public : public = Selected(s, J)
  OBVIOUS
<1>7. public \in Seq(X)
  BY <1>3, <1>6, SelectedIndices
<1>8. PICK g : IsSelection(g, public, s, J, Len(s))
  BY <1>3, <1>6, SelectedIndices
<1>9. fetchCallsByRid(ourRun) = stopCalls(IF Len(public) >= 2 THEN public ELSE s, Ssd)
  <2>1. ourRun.ssd = Ssd
    BY DEF ourRun
  <2>2. QED
    BY <1>1, <1>4, <1>5, <1>6, <2>1 DEF fetchCallsByRid
<1>10. PICK m \in Nat : m = Len(known) /\ m = Len(s) /\ DOMAIN s = 1..m
  BY <1>2, <1>3, KnownFacts, SeqFacts DEF IsRunStops
<1>11. /\ \A k \in 1..m : known[k] \in 1..Len(route)
       /\ \A k \in 1..m : /\ s[k].crs = route[known[k]].crs /\ firstTime(s[k]) = route[known[k]].time
                          /\ IsToldStop(s[k], known[k])
  <2>1. \A k \in 1..m : s[k].crs = route[known[k]].crs /\ firstTime(s[k]) = route[known[k]].time
    BY <1>2, <1>10 DEF IsRunStops
  <2>2. \A k \in 1..m : IsToldStop(s[k], known[k])
    BY <1>1, <1>10, OurStopsAreTold
  <2>3. QED
    BY <1>10, <2>1, <2>2, KnownFacts
<1>12. \A k \in 1..m : route[known[k]].calls => k \in J
  <2> SUFFICES ASSUME NEW k \in 1..m, route[known[k]].calls PROVE k \in J
    OBVIOUS
  <2>1. PICK actual, estimate : s[k] = stopRow(known[k], actual, estimate)
    BY <1>1, <1>10, StopIsRow
  <2>2. PICK i \in 1..Len(route) : i = known[k]
    BY <1>11
  <2>3. s[k].schedArr # NoTime \/ s[k].schedDep # NoTime
    <3>1. PICK N \in Nat : N = Len(route) /\ N > 1
      BY RouteFacts
    <3>2. route[i].time # NoTime /\ route[i].calls
      BY <2>2, RouteFacts
    <3>3. i < N \/ i > 1
      BY <3>1
    <3>4. QED
      BY <2>1, <2>2, <3>1, <3>2, <3>3 DEF stopRow
  <2>4. QED
    BY <1>5, <1>10, <2>3
<1>13. PICK shown, h : /\ stopCalls(IF Len(public) >= 2 THEN public ELSE s, Ssd) = stopCalls(shown, Ssd)
                       /\ shown \in Seq(X) /\ h \in [1..Len(shown) -> 1..m]
                       /\ \A k \in 1..Len(shown) : shown[k] = s[h[k]]
                       /\ \A k \in 1..m : route[known[k]].calls => \E j \in 1..Len(shown) : h[j] = k
  <2>1. CASE Len(public) >= 2
    <3>1. /\ g \in [1..Len(public) -> (1..m) \cap J]
          /\ \A k \in (1..m) \cap J : \E j \in 1..Len(public) : g[j] = k
          /\ \A k \in 1..Len(public) : public[k] = s[g[k]]
      BY <1>8, <1>10 DEF IsSelection
    <3>2. g \in [1..Len(public) -> 1..m]
      BY <3>1
    <3>3. \A k \in 1..m : route[known[k]].calls => \E j \in 1..Len(public) : g[j] = k
      BY <1>12, <3>1
    <3>4. stopCalls(IF Len(public) >= 2 THEN public ELSE s, Ssd) = stopCalls(public, Ssd)
      BY <2>1
    <3>5. QED
      BY <1>7, <3>1, <3>2, <3>3, <3>4
  <2>2. CASE ~(Len(public) >= 2)
    <3>1. PICK id : id = [k \in 1..m |-> k]
      OBVIOUS
    <3>2. id \in [1..Len(s) -> 1..m] /\ \A k \in 1..m : id[k] = k
      BY <1>10, <3>1
    <3>3. stopCalls(IF Len(public) >= 2 THEN public ELSE s, Ssd) = stopCalls(s, Ssd)
      BY <2>2
    <3>4. QED
      BY <1>3, <1>10, <3>2, <3>3
  <2>3. QED
    BY <2>1, <2>2
<1>14. PICK n \in Nat : n = Len(shown) /\ DOMAIN shown = 1..n
  BY <1>13, SeqFacts
<1>16. \A k \in 1..n : /\ h[k] \in 1..m /\ known[h[k]] \in 1..Len(route)
                       /\ shown[k].crs = route[known[h[k]]].crs
                       /\ firstTime(shown[k]) = route[known[h[k]]].time
                       /\ IsToldStop(shown[k], known[h[k]])
  BY <1>11, <1>13, <1>14
<1>18. \A k \in 1..Len(shown) : \E i \in 1..Len(route) :
         shown[k].crs = route[i].crs /\ firstTime(shown[k]) = route[i].time /\ IsToldStop(shown[k], i)
  BY <1>14, <1>16
<1>19. Ssd \in Int
  BY TrainViewsAssumption
<1>20. PICK pts : /\ IsPointsOfStops(pts, shown) /\ serviceDateAnchor(Ssd) \in Int
                  /\ stopCalls(shown, Ssd) = datePattern([k \in DOMAIN pts |-> toCall(pts[k])],
                                                         serviceDateAnchor(Ssd))
  <2>1. PICK Y : shown \in Seq(Y)
    BY <1>13
  <2>2. QED
    BY <1>18, <1>19, <2>1, StopPoints
<1>15. pts \in Seq(PagePoint) /\ Len(pts) = n
  BY <1>14, <1>20 DEF IsPointsOfStops
<1>17. \A k \in 1..n : <<pts[k].crs, pts[k].st>> = keyOf(known[h[k]])
  BY <1>14, <1>16, <1>20 DEF IsPointsOfStops, keyOf
<1>21. callKeys(stopCalls(shown, Ssd)) = {<<pts[k].crs, pts[k].st>> : k \in 1..n}
  BY <1>15, <1>20, CallKeysAre
<1>22. PICK I : I = {known[h[k]] : k \in 1..n}
  OBVIOUS
<1>23. {<<pts[k].crs, pts[k].st>> : k \in 1..n} = {keyOf(i) : i \in I}
  <2>1. \A k \in 1..n : known[h[k]] \in I /\ <<pts[k].crs, pts[k].st>> = keyOf(known[h[k]])
    BY <1>17, <1>22
  <2>2. \A i \in I : \E k \in 1..n : keyOf(i) = <<pts[k].crs, pts[k].st>>
    BY <1>22, <2>1
  <2>3. QED
    BY <2>1, <2>2
<1>24. I \subseteq ToSet(known) /\ I \subseteq 1..Len(route)
  <2>1. \A i \in I : \E k \in 1..m : known[k] = i
    BY <1>16, <1>22
  <2>2. QED
    BY <1>10, <1>11, <2>1, KnownSet
<1>25. knownCalls \subseteq I
  <2> SUFFICES ASSUME NEW i \in knownCalls PROVE i \in I
    OBVIOUS
  <2>1. PICK k \in 1..m : known[k] = i
    BY <1>10, KnownSet DEF knownCalls
  <2>2. route[known[k]].calls
    BY <2>1 DEF knownCalls
  <2>3. PICK j \in 1..n : h[j] = k
    BY <1>13, <1>14, <2>2
  <2>4. QED
    BY <1>22, <2>1, <2>3
<1>26. callKeys(fetchCallsByRid(ourRun)) = {keyOf(i) : i \in I}
  BY <1>9, <1>13, <1>21, <1>23
<1>27. QED
  BY <1>24, <1>25, <1>26 DEF IsKeys

(* Every run of the timetable has the same of them: the points Darwin      *)
(* knows whose key is one of those.                                        *)
hitsOf(keys) == {k \in 1..Len(known) : keyOf(known[k]) \in keys}

LEMMA StopTimesAre ==
    ASSUME ClockInv, NEW i \in 1..Len(route), NEW actual, NEW estimate
    PROVE  stopTimes(stopRow(i, actual, estimate)) = {route[i].time}
<1>1. PICK N \in Nat : N = Len(route) /\ N > 1
  BY RouteFacts
<1>2. route[i].time # NoTime /\ route[i].calls \in BOOLEAN
  BY RouteFacts
<1>3. i < N \/ i > 1
  BY <1>1
<1>4. PICK t : t = route[i].time /\ t # NoTime
  BY <1>2
<1>5. PICK r : r = stopRow(i, actual, estimate)
  OBVIOUS
<1>6. /\ r.schedDep \in {t, NoTime} /\ r.schedArr \in {t, NoTime} /\ r.schedPass \in {t, NoTime}
      /\ r.schedDep = t \/ r.schedArr = t \/ r.schedPass = t
  BY <1>1, <1>2, <1>3, <1>4, <1>5 DEF stopRow
<1>7. QED
  BY <1>4, <1>5, <1>6 DEF stopTimes

LEMMA RunTimes ==
    ASSUME ClockInv, NEW r \in runs
    PROVE  /\ DOMAIN r.stops = 1..Len(known) /\ Len(r.stops) = Len(known)
           /\ \A k \in 1..Len(known) : /\ r.stops[k].crs = route[known[k]].crs /\ r.stops[k].crs # ""
                                       /\ stopTimes(r.stops[k]) = {route[known[k]].time}
<1>1. PICK s : s = r.stops
  OBVIOUS
<1>2. IsRunStops(s)
  BY <1>1, RunStops
<1>3. PICK X : s \in Seq(X)
  BY <1>2 DEF IsRunStops
<1>4. DOMAIN s = 1..Len(known) /\ Len(s) = Len(known)
  BY <1>2, <1>3, SeqFacts DEF IsRunStops
<1>5. \A k \in 1..Len(known) : \E actual, estimate : s[k] = stopRow(known[k], actual, estimate)
  BY <1>1, StopIsRow
<1>6. \A k \in 1..Len(known) : known[k] \in 1..Len(route)
  BY KnownFacts
<1>7. \A k \in 1..Len(known) : stopTimes(s[k]) = {route[known[k]].time}
  BY <1>5, <1>6, StopTimesAre
<1>8. QED
  BY <1>1, <1>2, <1>4, <1>7 DEF IsRunStops

LEMMA RunScore ==
    ASSUME ClockInv, NEW r \in runs, NEW keys
    PROVE  scoreRun(r.stops, keys) =
             [matched |-> Cardinality(hitsOf(keys)),
              outOf |-> Max({Min({Cardinality(keys), Len(known)}), 1})]
<1>1. PICK s : s = r.stops
  OBVIOUS
<1>2. /\ DOMAIN s = 1..Len(known) /\ Len(s) = Len(known)
      /\ \A k \in 1..Len(known) : /\ s[k].crs = route[known[k]].crs /\ s[k].crs # ""
                                  /\ stopTimes(s[k]) = {route[known[k]].time}
  BY <1>1, RunTimes
<1>3. withCrs(s) = s
  <2>1. IsRunStops(s)
    BY <1>1, RunStops
  <2>2. QED
    BY <2>1, RunStopsInOrder
<1> DEFINE hit(x) == x.crs # "" /\ \E t \in stopTimes(x) : <<x.crs, t>> \in keys
<1>4. \A k \in 1..Len(known) : hit(s[k]) <=> keyOf(known[k]) \in keys
  BY <1>2 DEF keyOf
<1>5. scoreRun(s, keys) = [matched |-> Cardinality({k \in DOMAIN s : hit(s[k])}),
                           outOf |-> Max({Min({Cardinality(keys), Len(withCrs(s))}), 1})]
  BY DEF scoreRun
<1> HIDE DEF hit
<1>6. {k \in DOMAIN s : hit(s[k])} = hitsOf(keys)
  BY <1>2, <1>4 DEF hitsOf
<1>7. QED
  BY <1>1, <1>2, <1>3, <1>5, <1>6

(* So every run that has enough of the calls is as good as another.        *)
LEMMA LesserOf ==
    ASSUME NEW a \in Nat, NEW b \in Nat
    PROVE  /\ Min({a, b}) \in Nat /\ Min({a, b}) <= a /\ Min({a, b}) <= b
           /\ Max({a, b}) \in Nat /\ Max({a, b}) \in {a, b}
<1>1. Min({a, b}) \in {a, b} /\ \A y \in {a, b} : Min({a, b}) <= y
  <2>1. {a, b} \in SUBSET Nat /\ {a, b} # {}
    OBVIOUS
  <2>2. QED
    BY <2>1, MinIsSmallest
<1>2. Max({a, b}) \in {a, b}
  <2>1. {a, b} \in SUBSET 0..(a + b) /\ {a, b} # {} /\ a + b \in Nat
    OBVIOUS
  <2>2. QED
    BY <2>1, MaxIsLargest
<1>3. QED
  BY <1>1, <1>2

routeCalls == {i \in 1..Len(route) : route[i].calls}

LEMMA HitsAreEnough ==
    ASSUME ClockInv, NEW keys, NEW I, IsKeys(keys, I)
    PROVE  /\ Cardinality(hitsOf(keys)) \in Nat /\ Cardinality(keys) \in Nat
           /\ Cardinality(knownCalls) \in Nat /\ Cardinality(knownCalls) <= Cardinality(hitsOf(keys))
           /\ scenario.byRid => Cardinality(keys) <= Cardinality(hitsOf(keys))
           /\ ~scenario.byRid => /\ Cardinality(routeCalls) \in Nat
                                 /\ Cardinality(keys) <= Cardinality(routeCalls)
<1>1. PICK H : H = hitsOf(keys)
  OBVIOUS
<1>2. PICK m \in Nat : m = Len(known) /\ H \subseteq 1..m
  BY <1>1, KnownFacts DEF hitsOf
<1>3. IsFiniteSet(H)
  <2>1. IsFiniteSet(1..m)
    BY <1>2, FS_Interval
  <2>2. QED
    BY <1>2, <2>1, FS_Subset
<1>4. PICK N \in Nat : N = Len(route)
  BY RouteFacts
<1>5. IsFiniteSet(I)
  <2>1. IsFiniteSet(1..N) /\ I \subseteq 1..N
    BY <1>4, FS_Interval DEF IsKeys
  <2>2. QED
    BY <2>1, FS_Subset
<1>6. keys = {keyOf(i) : i \in I} /\ knownCalls \subseteq I
  BY DEF IsKeys
<1>7. PICK key : key = [i \in I |-> keyOf(i)]
  OBVIOUS
<1>8. keys = {key[i] : i \in I}
  BY <1>6, <1>7
<1>9. IsFiniteSet(keys) /\ Cardinality(keys) \in Nat /\ Cardinality(keys) <= Cardinality(I) /\ Cardinality(I) \in Nat
  BY <1>5, <1>8, ImageIsSmaller
<1>10. PICK point : point = [k \in H |-> known[k]]
  OBVIOUS
<1>11. PICK P : P = {point[k] : k \in H}
  OBVIOUS
<1>12. IsFiniteSet(P) /\ Cardinality(P) \in Nat /\ Cardinality(H) \in Nat /\ Cardinality(P) <= Cardinality(H)
  BY <1>3, <1>11, ImageIsSmaller
<1>13. \A i \in I : i \in ToSet(known) => i \in P
  <2> SUFFICES ASSUME NEW i \in I, i \in ToSet(known) PROVE i \in P
    OBVIOUS
  <2>1. PICK k \in 1..m : known[k] = i
    BY <1>2, KnownSet
  <2>2. keyOf(known[k]) \in keys
    BY <1>6, <2>1
  <2>3. k \in H
    BY <1>1, <1>2, <2>2 DEF hitsOf
  <2>4. QED
    BY <1>10, <1>11, <2>1, <2>3
<1>14. Cardinality(knownCalls) \in Nat /\ Cardinality(knownCalls) <= Cardinality(P)
  <2>1. knownCalls \subseteq P
    BY <1>6, <1>13 DEF knownCalls
  <2>2. QED
    BY <1>12, <2>1, PartIsSmaller
<1>15. scenario.byRid => Cardinality(keys) <= Cardinality(H)
  <2> SUFFICES ASSUME scenario.byRid PROVE Cardinality(keys) <= Cardinality(H)
    OBVIOUS
  <2>1. I \subseteq P
    BY <1>13 DEF IsKeys
  <2>2. Cardinality(I) <= Cardinality(P)
    BY <1>12, <2>1, PartIsSmaller
  <2>3. QED
    BY <1>9, <1>12, <2>2
<1>16. ~scenario.byRid => I = routeCalls
  BY DEF IsKeys, routeCalls
<1>17. QED
  BY <1>1, <1>9, <1>12, <1>14, <1>15, <1>16

LEMMA RunIsAcceptable ==
    ASSUME ClockInv, ToldApart(scenario), Cardinality(knownCalls) >= MinMatched,
           NEW keys, NEW I, IsKeys(keys, I)
    PROVE  LET score == [matched |-> Cardinality(hitsOf(keys)),
                         outOf |-> Max({Min({Cardinality(keys), Len(known)}), 1})]
           IN /\ isAcceptable(score, Cardinality(keys))
              /\ score.matched \in Nat /\ score.outOf \in Nat
<1>1. PICK h \in Nat, c \in Nat, s \in Nat, m \in Nat :
        /\ h = Cardinality(hitsOf(keys)) /\ c = Cardinality(keys)
        /\ s = Cardinality(knownCalls) /\ m = Len(known) /\ s <= h /\ s >= 3
        /\ scenario.byRid => c <= h
  <2>1. /\ Cardinality(hitsOf(keys)) \in Nat /\ Cardinality(keys) \in Nat
        /\ Cardinality(knownCalls) \in Nat /\ Cardinality(knownCalls) <= Cardinality(hitsOf(keys))
        /\ scenario.byRid => Cardinality(keys) <= Cardinality(hitsOf(keys))
    BY HitsAreEnough
  <2>2. Len(known) \in Nat
    BY KnownFacts
  <2>3. Cardinality(knownCalls) >= 3
    BY DEF MinMatched
  <2>4. QED
    BY <2>1, <2>2, <2>3
<1>2. 10 * h >= 6 * c
  <2>1. CASE scenario.byRid
    BY <1>1, <2>1
  <2>2. CASE ~scenario.byRid
    <3>1. PICK calls : calls = routeCalls /\ calls = {i \in 1..Len(route) : route[i].calls}
      BY DEF routeCalls
    <3>2. PICK n \in Nat : n = Cardinality(calls) /\ c <= n
      BY <1>1, <2>2, <3>1, HitsAreEnough
    <3>3. DOMAIN route = 1..Len(route)
      BY RouteFacts, SeqFacts
    <3>4. 10 * Cardinality(calls \cap {i \in 1..Len(route) : route[i].known}) >= 6 * Cardinality(calls)
      BY <2>2, <3>1, <3>3 DEF ToldApart, route
    <3>5. calls \cap {i \in 1..Len(route) : route[i].known} = knownCalls
      BY <3>1, KnownSet
    <3>6. 10 * s >= 6 * n
      BY <1>1, <3>2, <3>4, <3>5
    <3>7. QED
      BY <1>1, <3>2, <3>6
  <2>3. QED
    BY <2>1, <2>2
<1>3. PICK x \in Nat : x = Min({c, m}) /\ x <= c
  BY LesserOf
<1>4. PICK o \in Nat : o = Max({x, 1}) /\ o \in {x, 1}
  BY LesserOf
<1>5. 10 * h >= 6 * o
  BY <1>1, <1>2, <1>3, <1>4
<1>6. PICK least \in Nat : least = Min({3, c}) /\ least <= 3
  BY LesserOf
<1>7. h >= least
  BY <1>1, <1>6
<1>8. o = Max({Min({Cardinality(keys), Len(known)}), 1}) /\ h = Cardinality(hitsOf(keys))
      /\ least = Min({MinMatched, Cardinality(keys)})
  BY <1>1, <1>3, <1>4, <1>6 DEF MinMatched
<1>9. QED
  BY <1>5, <1>7, <1>8 DEF isAcceptable

-----------------------------------------------------------------------------
(* The run is among the candidates: it is of the day that it is, or of the *)
(* day before.                                                             *)
LEMMA NowIsNear ==
    ASSUME ClockInv, Timetabled(scenario), LatenessInv, NEW i \in 1..Len(route)
    PROVE  /\ bookedAt(1) \in Int /\ bookedAt(i) \in Int /\ now \in Int
           /\ bookedAt(1) <= bookedAt(i) /\ bookedAt(i) < bookedAt(1) + 690
           /\ bookedAt(1) <= now /\ now < bookedAt(1) + 690
<1>1. PICK N \in Nat : N = Len(route) /\ N > 1
  BY RouteFacts
<1>2. stoodAt \in 1..N
  BY <1>1, StoodAtIs
<1>3. PICK b \in Int, t \in Int, u \in Int, e \in Int :
        b = bookedAt(1) /\ t = bookedAt(stoodAt) /\ u = bookedAt(i) /\ e = bookedAt(N)
  <2>1. 1 \in 1..Len(route) /\ N \in 1..Len(route) /\ stoodAt \in 1..Len(route)
    BY <1>1, <1>2
  <2>2. QED
    BY <2>1, BookedIsInt
<1>4. b <= t /\ t <= e /\ b <= u /\ u <= e
  <2>1. 1 \in 1..Len(route) /\ N \in 1..Len(route) /\ stoodAt \in 1..Len(route)
    BY <1>1, <1>2
  <2>2. 1 <= stoodAt /\ stoodAt <= N /\ 1 <= i /\ i <= N
    BY <1>1, <1>2
  <2>3. QED
    BY <1>3, <2>1, <2>2, BookedOrder
<1>5. PICK k \in Nat, m \in Nat, p \in Nat : k = oddities /\ m = MaxOddities /\ p = Pause /\ k <= m
  BY TrainViewsAssumption DEF LatenessInv
<1>6. PICK x \in Nat, y \in Nat : x = k * p /\ y = m * p /\ x <= y
  <2>1. PICK n \in Nat : m = k + n
    <3>1. m - k \in Nat /\ m = k + (m - k)
      BY <1>5
    <3>2. QED
      BY <3>1
  <2>2. k * p \in Nat /\ (k + n) * p \in Nat /\ k * p <= (k + n) * p
    BY MorePauses
  <2>3. QED
    BY <2>1, <2>2
<1>7. e - b + y < 690
  <2>1. bookedOn(route, Len(route)) - bookedOn(route, 1) + MaxOddities * Pause < 690
    BY DEF Timetabled, route
  <2>2. QED
    BY <1>1, <1>3, <1>5, <1>6, <2>1 DEF bookedAt
<1>8. now \in Int /\ t <= now /\ now <= t + x
  <2>1. k * p = oddities * Pause
    BY <1>5
  <2>2. QED
    BY <1>3, <1>6, <2>1 DEF LatenessInv, ClockInv
<1>9. b <= now /\ now < b + 690 /\ u < b + 690
  BY <1>4, <1>6, <1>7, <1>8
<1>10. QED
  BY <1>3, <1>4, <1>8, <1>9

LEMMA DayIsNear ==
    ASSUME TrainViewsAssumption, NEW d \in Int, NEW b \in Int, NEW t \in Int, b # NoTime, t # NoTime,
           t - 1440 # NoTime, ~ShownTwice(b), londonDateKey(b) = d, b <= t, t < b + 690,
           SummerFrom <= d * 1440 - 60 \/ SummerFrom >= (d + 1) * 1440
    PROVE  d \in {londonDateKey(t - 1440), londonDateKey(t)}
<1>1. SummerFrom \in Int /\ SummerTo \in Int
  BY DEF TrainViewsAssumption
<1>2. PICK D \in Int : D = d * 1440 /\ (d + 1) * 1440 = D + 1440
  OBVIOUS
<1>3. PICK u \in Int : /\ u = londonOffsetMinutes(b)
                  /\ u = IF SummerFrom <= b /\ b < SummerTo THEN 60 ELSE 0
  BY DEF londonOffsetMinutes
<1>4. PICK v \in Int : /\ v = londonOffsetMinutes(t)
                  /\ v = IF SummerFrom <= t /\ t < SummerTo THEN 60 ELSE 0
  BY DEF londonOffsetMinutes
<1>5. PICK s \in Int : s = t - 1440 /\ s # NoTime
  OBVIOUS
<1>6. PICK w \in Int : /\ w = londonOffsetMinutes(s)
                  /\ w = IF SummerFrom <= s /\ s < SummerTo THEN 60 ELSE 0
  BY DEF londonOffsetMinutes
<1>7. PICK x \in Int : b + u = D + x /\ 0 <= x /\ x <= 1439
  <2>1. ukHhmm(b) \in 0..1439 /\ OnTheClock(b) = londonDateKey(b) * 1440 + ukHhmm(b)
    BY ClockIs
  <2>2. b + u = D + ukHhmm(b)
    BY <1>2, <1>3, <2>1 DEF OnTheClock
  <2>3. ukHhmm(b) \in Int /\ 0 <= ukHhmm(b) /\ ukHhmm(b) <= 1439
    <3>1. ukHhmm(b) \in 0..1439
      BY ONLY <2>1
    <3>2. QED
      BY ONLY <3>1
  <2>4. QED
    BY <2>1, <2>2, <2>3
<1>8. PICK c \in Int, y \in Int : c = londonDateKey(t) /\ t + v = c * 1440 + y /\ 0 <= y /\ y <= 1439
  <2>1. /\ londonDateKey(t) \in Int /\ ukHhmm(t) \in 0..1439
        /\ OnTheClock(t) = londonDateKey(t) * 1440 + ukHhmm(t)
    BY ClockIs
  <2>2. t + v = londonDateKey(t) * 1440 + ukHhmm(t)
    BY <1>4, <2>1 DEF OnTheClock
  <2>3. ukHhmm(t) \in Int /\ 0 <= ukHhmm(t) /\ ukHhmm(t) <= 1439
    <3>1. ukHhmm(t) \in 0..1439
      BY ONLY <2>1
    <3>2. QED
      BY ONLY <3>1
  <2>4. QED
    BY <2>1, <2>2, <2>3
<1>9. PICK e \in Int, z \in Int : e = londonDateKey(s) /\ s + w = e * 1440 + z /\ 0 <= z /\ z <= 1439
  <2>1. /\ londonDateKey(s) \in Int /\ ukHhmm(s) \in 0..1439
        /\ OnTheClock(s) = londonDateKey(s) * 1440 + ukHhmm(s)
    BY <1>5, ClockIs
  <2>2. s + w = londonDateKey(s) * 1440 + ukHhmm(s)
    BY <1>6, <2>1 DEF OnTheClock
  <2>3. ukHhmm(s) \in Int /\ 0 <= ukHhmm(s) /\ ukHhmm(s) <= 1439
    <3>1. ukHhmm(s) \in 0..1439
      BY ONLY <2>1
    <3>2. QED
      BY ONLY <3>1
  <2>4. QED
    BY <2>1, <2>2, <2>3
<1>10. SummerFrom <= D - 60 \/ SummerFrom >= D + 1440
  BY <1>2
<1>11. ~(SummerTo - 60 <= b /\ b < SummerTo)
  BY DEF ShownTwice
<1>12. u \in {0, 60} /\ v \in {0, 60} /\ w \in {0, 60}
  BY <1>3, <1>4, <1>6
<1>13. D <= t + v /\ t + v < D + 2880
  BY ONLY <1>1, <1>3, <1>4, <1>7, <1>10, <1>11, b \in Int, t \in Int, D \in Int, b <= t, t < b + 690
<1>14. t + v >= D + 1440 => D <= s + w /\ s + w < D + 1440
  <2> SUFFICES ASSUME t + v >= D + 1440 PROVE D <= s + w /\ s + w < D + 1440
    OBVIOUS
  <2>1. t < D + 2130
    BY <1>7, <1>12
  <2>2. CASE v = 60 /\ w = 0
    <3>1. SummerFrom <= t /\ t < SummerTo /\ ~(SummerFrom <= s)
      BY <1>1, <1>4, <1>5, <1>6, <2>2
    <3>2. QED
      BY <1>1, <1>5, <1>10, <2>1, <2>2, <3>1
  <2>3. CASE ~(v = 60 /\ w = 0)
    BY <1>5, <1>12, <2>1, <2>3
  <2>4. QED
    BY <2>2, <2>3
<1>15. CASE t + v < D + 1440
  <2>1. d * 1440 <= c * 1440 + y /\ c * 1440 + y < d * 1440 + 1440
    BY <1>2, <1>8, <1>13, <1>15
  <2>2. c = d
    BY <1>8, <2>1
  <2>3. QED
    BY <1>8, <2>2
<1>16. CASE ~(t + v < D + 1440)
  <2>1. t + v >= D + 1440
    BY <1>12, <1>16
  <2>2. d * 1440 <= e * 1440 + z /\ e * 1440 + z < d * 1440 + 1440
    BY <1>2, <1>9, <1>14, <2>1
  <2>3. e = d
    <3>1. 0 <= z /\ z <= 1439 /\ e \in Int /\ z \in Int /\ d \in Int
      BY <1>9
    <3>2. QED
      BY ONLY <2>2, <3>1
  <2>4. QED
    BY <1>5, <1>9, <2>3
<1>17. QED
  BY <1>15, <1>16

-----------------------------------------------------------------------------
(* When a run is booked to be running.                                     *)

LEMMA BoundedInts ==
    ASSUME NEW n \in Nat, NEW f \in [1..n -> Int]
    PROVE  \E B \in Nat : \A i \in 1..n : 0 - B <= f[i] /\ f[i] <= B
<1> DEFINE S == {k \in 0..n : \E B \in Nat : \A i \in 1..k : 0 - B <= f[i] /\ f[i] <= B}
<1>1. 0 \in S
  <2>1. \A i \in 1..0 : 0 - 0 <= f[i] /\ f[i] <= 0
    OBVIOUS
  <2>2. 0 \in Nat /\ 0 \in 0..n
    OBVIOUS
  <2>3. QED
    BY <2>1, <2>2
<1>2. \A k \in 1..n : k - 1 \in S => k \in S
  <2> SUFFICES ASSUME NEW k \in 1..n, k - 1 \in S PROVE k \in S
    OBVIOUS
  <2>1. PICK B \in Nat : \A i \in 1..(k - 1) : 0 - B <= f[i] /\ f[i] <= B
    OBVIOUS
  <2>2. PICK x \in Int : x = f[k]
    OBVIOUS
  <2>3. PICK C \in Nat : B <= C /\ 0 - C <= x /\ x <= C
    <3>1. CASE x >= 0
      <4>1. B + x \in Nat /\ B <= B + x /\ 0 - (B + x) <= x /\ x <= B + x
        BY <3>1
      <4>2. QED
        BY <4>1
    <3>2. CASE x < 0
      <4>1. B - x \in Nat /\ B <= B - x /\ 0 - (B - x) <= x /\ x <= B - x
        BY <3>2
      <4>2. QED
        BY <4>1
    <3>3. QED
      BY <3>1, <3>2
  <2>4. \A i \in 1..k : 0 - C <= f[i] /\ f[i] <= C
    <3> SUFFICES ASSUME NEW i \in 1..k PROVE 0 - C <= f[i] /\ f[i] <= C
      OBVIOUS
    <3>1. CASE i = k
      BY <2>2, <2>3, <3>1
    <3>2. CASE i # k
      <4>1. i \in 1..(k - 1) /\ f[i] \in Int
        BY <3>2
      <4>2. 0 - B <= f[i] /\ f[i] <= B
        BY <2>1, <4>1
      <4>3. QED
        BY <2>3, <4>1, <4>2
    <3>3. QED
      BY <3>1, <3>2
  <2>5. k \in 0..n
    OBVIOUS
  <2>6. QED
    BY <2>4, <2>5
<1> HIDE DEF S
<1>3. \A k \in 0..n : k \in S
  BY <1>1, <1>2, PrefixInduction
<1>4. n \in S
  BY <1>3
<1>5. QED
  BY <1>4 DEF S

LEMMA EndsAreInts ==
    ASSUME NEW n \in Nat, NEW f \in [1..n -> Int], NEW S, S \subseteq {f[i] : i \in 1..n}, S # {}
    PROVE  /\ Min(S) \in S /\ Max(S) \in S
           /\ \A x \in S : x \in Int /\ Min(S) <= x /\ x <= Max(S)
<1>1. PICK B \in Nat : \A i \in 1..n : 0 - B <= f[i] /\ f[i] <= B
  BY BoundedInts
<1>2. \A x \in S : x \in Int /\ 0 - B <= x /\ x <= B
  BY <1>1
<1>3. \E x \in S : \A y \in S : x <= y
  <2> DEFINE U == {x + B : x \in S}
  <2>1. U \in SUBSET Nat /\ U # {}
    BY <1>2
  <2>2. PICK u \in U : \A v \in U : u <= v
    BY <2>1, NatHasSmallest
  <2>3. PICK x \in S : u = x + B
    BY <2>2
  <2>4. \A y \in S : x + B <= y + B
    BY <2>2, <2>3
  <2>5. \A y \in S : x <= y
    BY <1>2, <2>4
  <2>6. QED
    BY <2>5
<1>4. \E x \in S : \A y \in S : x >= y
  <2> DEFINE U == {B - x : x \in S}
  <2>1. U \in SUBSET Nat /\ U # {}
    BY <1>2
  <2>2. PICK u \in U : \A v \in U : u <= v
    BY <2>1, NatHasSmallest
  <2>3. PICK x \in S : u = B - x
    BY <2>2
  <2>4. \A y \in S : B - x <= B - y
    BY <2>2, <2>3
  <2>5. \A y \in S : x >= y
    BY <1>2, <2>4
  <2>6. QED
    BY <2>5
<1>5. Min(S) \in S /\ \A y \in S : Min(S) <= y
  BY <1>3 DEF Min
<1>6. Max(S) \in S /\ \A y \in S : Max(S) >= y
  BY <1>4 DEF Max
<1>7. QED
  BY <1>2, <1>5, <1>6

knownTimes == [k \in 1..Len(known) |-> route[known[k]].time]
datesIn(b) == {b[k] : k \in 1..Len(known)} \ {NoTime}

LEMMA WindowIs ==
    ASSUME ClockInv, NEW r \in runs, NEW ssd \in Int, NEW b,
           b = resolvePatternTimes(knownTimes, serviceDateAnchor(ssd))
    PROVE  /\ b \in [1..Len(known) -> Int]
           /\ runWindow(r.stops, ssd) = IF datesIn(b) = {} THEN <<>> ELSE <<Min(datesIn(b)), Max(datesIn(b))>>
<1>1. PICK s : s = r.stops
  OBVIOUS
<1>2. IsRunStops(s)
  BY <1>1, RunStops
<1>3. PICK m \in Nat : m = Len(known) /\ DOMAIN s = 1..m
  BY <1>1, KnownFacts, RunTimes
<1>4. orderRunStops(s) = s
  BY <1>2, RunStopsInOrder
<1>5. [i \in DOMAIN s |-> firstTime(s[i])] = knownTimes
  BY <1>2, <1>3 DEF IsRunStops, knownTimes
<1>6. knownTimes \in [1..m -> Int]
  <2>1. \A k \in 1..m : known[k] \in 1..Len(route)
    BY <1>3, KnownFacts
  <2>2. \A k \in 1..m : route[known[k]].time \in Int
    BY <2>1, RouteFacts
  <2>3. QED
    BY <1>3, <2>2 DEF knownTimes
<1>7. PICK a \in Int : a = serviceDateAnchor(ssd)
  BY DEF serviceDateAnchor, DayMinutes
<1>8. DOMAIN b = 1..m /\ \A i \in 1..m : b[i] \in Int
  BY <1>6, <1>7, PatternIsInt
<1>9. b = [i \in 1..m |-> b[i]]
  <2>1. b = [i \in DOMAIN b |-> b[i]]
    BY <1>7 DEF resolvePatternTimes
  <2>2. QED
    BY <1>8, <2>1
<1>10. b \in [1..m -> Int]
  BY <1>8, <1>9
<1>11. PICK dated : dated = datesIn(b) /\ dated = {b[k] : k \in 1..m} \ {NoTime}
  BY <1>3 DEF datesIn
<1>12. ToSet(b) \ {NoTime} = dated
  BY <1>8, <1>11 DEF ToSet
<1>13. runWindow(s, ssd) =
         LET booked == resolvePatternTimes([i \in DOMAIN s |-> firstTime(s[i])], a)
             dates == ToSet(booked) \ {NoTime}
         IN IF dates = {} THEN <<>> ELSE <<Min(dates), Max(dates)>>
  BY <1>4, <1>7 DEF runWindow, serviceDateAnchor
<1>14. runWindow(s, ssd) = IF dated = {} THEN <<>> ELSE <<Min(dated), Max(dated)>>
  BY <1>5, <1>7, <1>12, <1>13
<1>15. QED
  BY <1>1, <1>3, <1>10, <1>11, <1>14

LEMMA WindowIsInt ==
    ASSUME ClockInv, NEW r \in runs, NEW ssd \in Int
    PROVE  \/ runWindow(r.stops, ssd) = <<>>
           \/ \E lo \in Int, hi \in Int : runWindow(r.stops, ssd) = <<lo, hi>>
<1>1. PICK b : b = resolvePatternTimes(knownTimes, serviceDateAnchor(ssd))
  OBVIOUS
<1>2. PICK dated : dated = datesIn(b)
  OBVIOUS
<1>3. b \in [1..Len(known) -> Int] /\ runWindow(r.stops, ssd) = IF dated = {} THEN <<>> ELSE <<Min(dated), Max(dated)>>
  BY <1>1, <1>2, WindowIs
<1>4. CASE dated = {}
  BY <1>3, <1>4
<1>5. CASE dated # {}
  <2>1. Len(known) \in Nat /\ dated \subseteq {b[k] : k \in 1..Len(known)}
    BY <1>2, KnownFacts DEF datesIn
  <2>2. Min(dated) \in Int /\ Max(dated) \in Int
    BY <1>3, <1>5, <2>1, EndsAreInts
  <2>3. QED
    BY <1>3, <1>5, <2>2
<1>6. QED
  BY <1>4, <1>5

LEMMA DistanceIsInt ==
    ASSUME ClockInv, NEW r \in runs, NEW ssd \in Int
    PROVE  windowDistance(runWindow(r.stops, ssd), now) \in Int
<1>1. PICK w : w = runWindow(r.stops, ssd)
  OBVIOUS
<1>2. now \in Int
  BY DEF ClockInv
<1>3. CASE w = <<>>
  BY <1>1, <1>3 DEF windowDistance, Infinity, DayMinutes
<1>4. CASE \E lo \in Int, hi \in Int : w = <<lo, hi>>
  <2>1. PICK lo \in Int, hi \in Int : w = <<lo, hi>>
    BY <1>4
  <2>2. PICK g \in Nat, h \in Nat : g = Gap(now, lo) /\ h = Gap(now, hi)
    BY <1>2, GapIsNat
  <2>3. Min({g, h}) \in Nat
    BY LesserOf
  <2>4. w # <<>> /\ w[1] = lo /\ w[2] = hi
    BY <2>1
  <2>5. windowDistance(w, now) \in {0, Min({g, h})}
    BY <2>2, <2>4 DEF windowDistance
  <2>6. QED
    BY <1>1, <2>3, <2>5
<1>5. QED
  BY <1>1, <1>3, <1>4, WindowIsInt

(* A run of the timetable on another day passes the points when its clock  *)
(* says so.                                                                *)
bookedLike(day, k) == londonWallToInstant(bookedDay(route, known[k]) + day, route[known[k]].time)
NotLeftOut(day) ==
    \A k \in 1..Len(known) : ~leftOut(bookedDay(route, known[k]) + day, route[known[k]].time)

LEMMA LikeFacts ==
    ASSUME ClockInv, NEW day \in {-1, 0, 1}, NotLeftOut(day), NEW k \in 1..Len(known)
    PROVE  /\ bookedLike(day, k) \in Int /\ bookedLike(day, k) # NoTime /\ ~ShownTwice(bookedLike(day, k))
           /\ OnTheClock(bookedLike(day, k)) = clockOf(known[k]) + day * 1440
           /\ ukHhmm(bookedLike(day, k)) = route[known[k]].time
<1>1. PICK i \in 1..Len(route) : i = known[k]
  BY KnownFacts
<1>2. PICK h \in Int : h = route[i].time /\ 0 <= h /\ h < 1440
  BY TimesOfDay
<1>3. PICK e \in Nat : e = bookedDay(route, i) /\ e >= 1
  <2>1. Ssd \in Nat /\ Ssd >= 1
    BY TrainViewsAssumption
  <2>2. QED
    BY <2>1 DEF bookedDay
<1>4. PICK d \in Nat : d = e + day
  <2>1. e + day \in Nat
    BY <1>3
  <2>2. QED
    BY <2>1
<1>5. PICK t : t = londonWallToInstant(d, h)
  OBVIOUS
<1>6. bookedLike(day, k) = t
  BY <1>1, <1>2, <1>3, <1>4, <1>5 DEF bookedLike
<1>7. ~leftOut(d, h)
  BY <1>1, <1>2, <1>3, <1>4 DEF NotLeftOut
<1>8. t \in Int /\ t # NoTime /\ ~ShownTwice(t) /\ OnTheClock(t) = d * 1440 + h /\ ukHhmm(t) = h
  BY <1>2, <1>5, <1>7, WallReadsBack
<1>9. clockOf(known[k]) + day * 1440 = d * 1440 + h
  <2>1. clockOf(known[k]) = e * 1440 + h
    BY <1>1, <1>2, <1>3 DEF clockOf
  <2>2. d * 1440 = e * 1440 + day * 1440
    BY <1>4
  <2>3. QED
    BY <2>1, <2>2
<1>10. QED
  BY <1>1, <1>2, <1>6, <1>8, <1>9

LEMMA EarlierByClock ==
    ASSUME NEW t \in Int, NEW u \in Int, OnTheClock(t) <= OnTheClock(u), ~ShownTwice(u)
    PROVE  t <= u
<1>1. SummerFrom \in Int /\ SummerTo \in Int
  BY TrainViewsAssumption
<1>2. QED
  BY <1>1 DEF OnTheClock, ShownTwice, londonOffsetMinutes

LEMMA LikeOrder ==
    ASSUME ClockInv, Timetabled(scenario), NEW day \in {-1, 0, 1}, NotLeftOut(day),
           NEW j \in 1..Len(known), NEW k \in 1..Len(known), j < k
    PROVE  /\ OnTheClock(bookedLike(day, j)) <= OnTheClock(bookedLike(day, k))
           /\ OnTheClock(bookedLike(day, k)) < OnTheClock(bookedLike(day, j)) + 1440
           /\ bookedLike(day, j) <= bookedLike(day, k)
<1>1. known[j] \in 1..Len(route) /\ known[k] \in 1..Len(route) /\ known[j] < known[k]
  BY KnownFacts
<1>2. PICK x \in Nat, y \in Nat : /\ x = clockOf(known[j]) /\ y = clockOf(known[k]) /\ x <= y /\ y < x + 1440
  BY <1>1, ClockOrder
<1>3. PICK t, u : t = bookedLike(day, j) /\ u = bookedLike(day, k)
  OBVIOUS
<1>4. t \in Int /\ OnTheClock(t) = x + day * 1440
  BY <1>2, <1>3, LikeFacts
<1>5. u \in Int /\ ~ShownTwice(u) /\ OnTheClock(u) = y + day * 1440
  BY <1>2, <1>3, LikeFacts
<1>6. PICK s \in Int : s = day * 1440
  OBVIOUS
<1>7. OnTheClock(t) <= OnTheClock(u) /\ OnTheClock(u) < OnTheClock(t) + 1440
  BY <1>2, <1>4, <1>5, <1>6
<1>8. t <= u
  BY <1>4, <1>5, <1>7, EarlierByClock
<1>9. QED
  BY <1>3, <1>7, <1>8

LEMMA LikePattern ==
    ASSUME ClockInv, Timetabled(scenario), NEW day \in {-1, 0, 1}, NotLeftOut(day), Len(known) > 0,
           NEW b, b = [k \in 1..Len(known) |-> bookedLike(day, k)]
    PROVE  IsPattern(Len(known), knownTimes, b, 1..Len(known), 1)
<1>1. PICK m \in Nat : m = Len(known) /\ m > 0
  BY KnownFacts
<1>2. \A k \in 1..m : /\ b[k] \in Int /\ b[k] # NoTime /\ ~ShownTwice(b[k])
                      /\ ukHhmm(b[k]) = knownTimes[k]
  <2> SUFFICES ASSUME NEW k \in 1..m
               PROVE  b[k] \in Int /\ b[k] # NoTime /\ ~ShownTwice(b[k]) /\ ukHhmm(b[k]) = knownTimes[k]
    OBVIOUS
  <2>1. k \in 1..Len(known) /\ b[k] = bookedLike(day, k) /\ knownTimes[k] = route[known[k]].time
    BY <1>1 DEF knownTimes
  <2>2. QED
    BY <2>1, LikeFacts
<1>3. \A k \in 1..m : knownTimes[k] \in Int /\ knownTimes[k] # NoTime
  <2>1. \A k \in 1..m : known[k] \in 1..Len(route)
    BY <1>1, KnownFacts
  <2>2. \A k \in 1..m : route[known[k]].time \in Int /\ route[known[k]].time # NoTime
    BY <2>1, RouteFacts
  <2>3. QED
    BY <1>1, <2>2 DEF knownTimes
<1>4. IsKnown(m, knownTimes, 1..m, 1)
  <2>1. knownTimes \in [1..m -> Int]
    <3>1. knownTimes = [k \in 1..m |-> knownTimes[k]]
      BY <1>1 DEF knownTimes
    <3>2. QED
      BY <1>3, <3>1
  <2>2. 1..m = {i \in 1..m : knownTimes[i] # NoTime}
    BY <1>3
  <2>3. 1 \in 1..m /\ \A i \in 1..m : 1 <= i
    BY <1>1
  <2>4. QED
    BY ONLY m \in Nat, <2>1, <2>2, <2>3 DEF IsKnown
<1>5. \A i, j \in 1..m : JustBefore(1..m, i, j) =>
        OnTheClock(b[i]) <= OnTheClock(b[j]) /\ OnTheClock(b[j]) < OnTheClock(b[i]) + 1440
  <2> SUFFICES ASSUME NEW i \in 1..m, NEW j \in 1..m, JustBefore(1..m, i, j)
               PROVE  OnTheClock(b[i]) <= OnTheClock(b[j]) /\ OnTheClock(b[j]) < OnTheClock(b[i]) + 1440
    OBVIOUS
  <2>1. i < j /\ i \in 1..Len(known) /\ j \in 1..Len(known)
    BY <1>1 DEF JustBefore
  <2>2. b[i] = bookedLike(day, i) /\ b[j] = bookedLike(day, j)
    BY <2>1
  <2>3. QED
    BY <2>1, <2>2, LikeOrder
<1>6. b \in [1..m -> Int]
  BY <1>1, <1>2
<1>7. IsPattern(m, knownTimes, b, 1..m, 1)
  <2>1. \A i \in 1..m : knownTimes[i] = ukHhmm(b[i]) /\ b[i] # NoTime /\ ~ShownTwice(b[i])
    BY <1>2
  <2>2. QED
    BY ONLY <1>4, <1>5, <1>6, <2>1 DEF IsPattern
<1>8. QED
  BY <1>1, <1>7

LEMMA LikeWindow ==
    ASSUME ClockInv, Timetabled(scenario), NEW r \in runs, NEW day \in {-1, 0, 1}, NotLeftOut(day),
           Len(known) > 0, DatedFrom(serviceDateAnchor(Ssd + day), bookedLike(day, 1))
    PROVE  runWindow(r.stops, Ssd + day) = <<bookedLike(day, 1), bookedLike(day, Len(known))>>
<1>1. PICK m \in Nat : m = Len(known) /\ m > 0
  BY KnownFacts
<1>2. PICK ssd \in Int : ssd = Ssd + day
  BY TrainViewsAssumption
<1>3. PICK b : b = [k \in 1..m |-> bookedLike(day, k)]
  OBVIOUS
<1>4. IsPattern(m, knownTimes, b, 1..m, 1)
  BY <1>1, <1>3, LikePattern
<1>5. PICK a \in Int : a = serviceDateAnchor(ssd)
  BY DEF serviceDateAnchor, DayMinutes
<1>6. DatedFrom(a, b[1])
  BY <1>1, <1>2, <1>3, <1>5
<1>7. PICK c : c = resolvePatternTimes(knownTimes, a)
  OBVIOUS
<1>8. c = [i \in 1..m |-> IF i \in 1..m THEN b[i] ELSE NoTime]
  <2>1. \A K, g : IsPattern(m, knownTimes, b, K, g) /\ DatedFrom(a, b[g]) =>
          resolvePatternTimes(knownTimes, a) = [i \in 1..m |-> IF i \in K THEN b[i] ELSE NoTime]
    BY ONLY a \in Int, PatternIsDated, TrainViewsAssumption
  <2>2. QED
    BY <1>4, <1>6, <1>7, <2>1
<1>9. \A k \in 1..m : c[k] = bookedLike(day, k) /\ c[k] \in Int /\ c[k] # NoTime
  <2> SUFFICES ASSUME NEW k \in 1..m PROVE c[k] = bookedLike(day, k) /\ c[k] \in Int /\ c[k] # NoTime
    OBVIOUS
  <2>1. k \in 1..Len(known) /\ c[k] = bookedLike(day, k)
    BY <1>1, <1>3, <1>8
  <2>2. QED
    BY <2>1, LikeFacts
<1>10. PICK dated : dated = datesIn(c) /\ dated = {c[k] : k \in 1..m}
  BY <1>1, <1>9 DEF datesIn
<1>11. runWindow(r.stops, ssd) = IF dated = {} THEN <<>> ELSE <<Min(dated), Max(dated)>>
  <2>1. c = resolvePatternTimes(knownTimes, serviceDateAnchor(ssd))
    BY <1>5, <1>7
  <2>2. QED
    BY <1>10, <2>1, WindowIs
<1>12. 1 \in 1..m /\ m \in 1..m
  BY <1>1
<1>13. PICK lo \in Int, hi \in Int : lo = c[1] /\ hi = c[m] /\ lo \in dated /\ hi \in dated
  BY <1>9, <1>10, <1>12
<1>14. \A x \in dated : x \in Int /\ lo <= x /\ x <= hi
  <2> SUFFICES ASSUME NEW k \in 1..m PROVE c[k] \in Int /\ lo <= c[k] /\ c[k] <= hi
    BY <1>10
  <2>1. c[k] \in Int
    BY <1>9
  <2>2. lo <= c[k]
    <3>1. CASE k = 1
      BY <1>13, <2>1, <3>1
    <3>2. CASE k # 1
      <4>1. 1 < k /\ 1 \in 1..Len(known) /\ k \in 1..Len(known)
        BY <1>1, <1>12, <3>2
      <4>2. bookedLike(day, 1) <= bookedLike(day, k)
        BY <4>1, LikeOrder
      <4>3. QED
        BY <1>9, <1>12, <1>13, <4>2
    <3>3. QED
      BY <3>1, <3>2
  <2>3. c[k] <= hi
    <3>1. CASE k = m
      BY <1>13, <2>1, <3>1
    <3>2. CASE k # m
      <4>1. k < m /\ m \in 1..Len(known) /\ k \in 1..Len(known)
        BY <1>1, <1>12, <3>2
      <4>2. bookedLike(day, k) <= bookedLike(day, m)
        BY <4>1, LikeOrder
      <4>3. QED
        BY <1>9, <1>12, <1>13, <4>2
    <3>3. QED
      BY <3>1, <3>2
  <2>4. QED
    BY <2>1, <2>2, <2>3
<1>15. Min(dated) = lo
  <2>1. \A x \in dated : (\A y \in dated : x <= y) => x = lo
    BY <1>13, <1>14
  <2>2. QED
    BY <1>13, <1>14, <2>1 DEF Min
<1>16. Max(dated) = hi
  <2>1. \A x \in dated : (\A y \in dated : x >= y) => x = hi
    BY <1>13, <1>14
  <2>2. \A y \in dated : hi >= y
    BY <1>13, <1>14
  <2>3. QED
    BY <1>13, <2>1, <2>2 DEF Max
<1>17. QED
  BY <1>1, <1>2, <1>9, <1>11, <1>12, <1>13, <1>15, <1>16

LEMMA DayApart ==
    ASSUME ClockInv, NEW day \in {-1, 1}, NotLeftOut(day), NotLeftOut(0), NEW k \in 1..Len(known)
    PROVE  /\ bookedLike(day, k) - bookedLike(0, k) <= day * 1440 + 60
           /\ bookedLike(day, k) - bookedLike(0, k) >= day * 1440 - 60
<1>1. PICK c : c = clockOf(known[k])
  OBVIOUS
<1>2. PICK t \in Int : t = bookedLike(0, k) /\ OnTheClock(t) = c + 0 * 1440
  <2>1. 0 \in {-1, 0, 1}
    OBVIOUS
  <2>2. QED
    BY <1>1, <2>1, LikeFacts
<1>3. PICK u \in Int : u = bookedLike(day, k) /\ OnTheClock(u) = c + day * 1440
  <2>1. day \in {-1, 0, 1}
    OBVIOUS
  <2>2. QED
    BY <1>1, <2>1, LikeFacts
<1>4. PICK o \in {0, 60}, p \in {0, 60} : o = londonOffsetMinutes(t) /\ p = londonOffsetMinutes(u)
  BY OffsetIs
<1>5. PICK s \in Int : s = day * 1440
  OBVIOUS
<1>6. c \in Int
  <2>1. known[k] \in 1..Len(route)
    BY KnownFacts
  <2>2. PICK i \in 1..Len(route) : i = known[k]
    BY <2>1
  <2>3. route[i].time \in Int
    BY RouteFacts
  <2>4. bookedDay(route, i) \in Int
    BY TrainViewsAssumption DEF bookedDay
  <2>5. QED
    BY <1>1, <2>2, <2>3, <2>4 DEF clockOf
<1>7. t + o = c /\ u + p = c + s
  BY <1>2, <1>3, <1>4, <1>5, <1>6 DEF OnTheClock
<1>8. u - t <= s + 60 /\ u - t >= s - 60
  BY <1>4, <1>6, <1>7
<1>9. QED
  BY <1>2, <1>3, <1>5, <1>8

(* A window is that near to an instant within half a day of both its ends, *)
(* and that far from one that is not.                                      *)
LEMMA NearWindow ==
    ASSUME NEW lo \in Int, NEW hi \in Int, NEW t \in Int, lo - t < 690, t - lo < 690
    PROVE  windowDistance(<<lo, hi>>, t) < 690
<1>1. PICK w : w = <<lo, hi>>
  OBVIOUS
<1>2. w # <<>> /\ w[1] = lo /\ w[2] = hi
  BY <1>1
<1>3. PICK g \in Nat, h \in Nat : g = Gap(t, lo) /\ h = Gap(t, hi)
  BY GapIsNat
<1>4. g < 690
  BY <1>3 DEF Gap
<1>5. Min({g, h}) \in Nat /\ Min({g, h}) <= g
  BY LesserOf
<1>6. windowDistance(w, t) = IF lo - WindowLead <= t /\ t <= hi + WindowTrail THEN 0 ELSE Min({g, h})
  BY <1>2, <1>3 DEF windowDistance
<1>7. QED
  BY <1>1, <1>4, <1>5, <1>6

LEMMA FarWindow ==
    ASSUME NEW lo \in Int, NEW hi \in Int, NEW t \in Int, lo <= hi, lo - t > 690 \/ t - hi > 690
    PROVE  windowDistance(<<lo, hi>>, t) >= 690
<1>1. PICK w : w = <<lo, hi>>
  OBVIOUS
<1>2. w # <<>> /\ w[1] = lo /\ w[2] = hi
  BY <1>1
<1>3. PICK g \in Nat, h \in Nat : g = Gap(t, lo) /\ h = Gap(t, hi)
  BY GapIsNat
<1>4. g >= 690 /\ h >= 690
  BY <1>3 DEF Gap
<1>5. Min({g, h}) \in {g, h}
  <2>1. {g, h} \in SUBSET Nat /\ {g, h} # {}
    OBVIOUS
  <2>2. QED
    BY <2>1, MinIsSmallest
<1>6. ~(lo - WindowLead <= t /\ t <= hi + WindowTrail)
  BY DEF WindowLead, WindowTrail
<1>7. windowDistance(w, t) = Min({g, h})
  BY <1>2, <1>3, <1>6 DEF windowDistance
<1>8. QED
  BY <1>1, <1>4, <1>5, <1>7

(* What the two assumptions say of the days of the timetable's runs.       *)
told == {i \in DOMAIN route : route[i].known}
firstTold == CHOOSE i \in told : \A j \in told : i <= j

LEMMA FirstTold ==
    ASSUME ClockInv, Len(known) > 0
    PROVE  /\ firstTold = known[1]
           /\ \A k \in 1..Len(known) : known[k] \in told
<1>1. DOMAIN route = 1..Len(route)
  BY RouteFacts, SeqFacts
<1>2. PICK m \in Nat : m = Len(known) /\ m > 0 /\ 1 \in 1..m
  BY KnownFacts
<1>3. /\ \A k \in 1..m : known[k] \in told /\ known[k] \in Int
      /\ \A i \in told : \E k \in 1..m : known[k] = i
  <2>1. /\ \A k \in 1..m : known[k] \in 1..Len(route) /\ route[known[k]].known
        /\ \A i \in 1..Len(route) : route[i].known => \E k \in 1..m : known[k] = i
    BY <1>2, KnownFacts
  <2>2. QED
    BY <1>1, <2>1 DEF told
<1>4. \A k \in 1..m : known[1] <= known[k]
  <2> SUFFICES ASSUME NEW k \in 1..m PROVE known[1] <= known[k]
    OBVIOUS
  <2>1. CASE k = 1
    BY <1>2, <1>3, <2>1
  <2>2. CASE k # 1
    <3>1. 1 < k /\ 1 \in 1..Len(known) /\ k \in 1..Len(known)
      BY <1>2, <2>2
    <3>2. known[1] < known[k]
      BY <3>1, KnownFacts
    <3>3. known[1] \in Int /\ known[k] \in Int
      BY <1>2, <1>3
    <3>4. QED
      BY <3>2, <3>3
  <2>3. QED
    BY <2>1, <2>2
<1>5. PICK f \in Int : f = known[1] /\ f \in told /\ \A j \in told : j \in Int /\ f <= j
  BY <1>2, <1>3, <1>4
<1>6. \A i \in told : (\A j \in told : i <= j) => i = f
  BY <1>5
<1>7. firstTold = f
  BY <1>5, <1>6 DEF firstTold
<1>8. QED
  BY <1>2, <1>3, <1>5, <1>7

LEMMA RivalsAreDated ==
    ASSUME ClockInv, Timetabled(scenario), ToldApart(scenario), Len(known) > 0, NEW day \in scenario.rivals
    PROVE  /\ day \in {-1, 1} /\ NotLeftOut(day) /\ NotLeftOut(0)
           /\ \A k \in 1..Len(known) : bookedLike(0, k) = bookedAt(known[k])
           /\ DatedFrom(serviceDateAnchor(Ssd), bookedLike(0, 1))
           /\ DatedFrom(serviceDateAnchor(Ssd + day), bookedLike(day, 1))
<1>1. PICK s \in Nat : s = Ssd /\ s > 0
  BY TrainViewsAssumption
<1>2. day \in {-1, 1}
  <2>1. scenario.rivals \in SUBSET {-1, 1}
    BY TrainViewsAssumption DEF ClockInv
  <2>2. QED
    BY <2>1
<1>3. /\ firstTold = known[1]
      /\ \A k \in 1..Len(known) : known[k] \in told
  BY FirstTold
<1>4. DOMAIN route = 1..Len(route)
  BY RouteFacts, SeqFacts
<1>5. PICK m \in Nat : m = Len(known) /\ m > 0 /\ 1 \in 1..m
  BY KnownFacts
<1>6. \A i \in 1..Len(route) : bookedDay(route, i) \in Int
  BY <1>1 DEF bookedDay
<1>7. \A k \in 1..m : known[k] \in told /\ known[k] \in 1..Len(route)
  BY <1>3, <1>5, KnownFacts
<1>8. NotLeftOut(day)
  <2> SUFFICES ASSUME NEW k \in 1..m
               PROVE  ~leftOut(bookedDay(route, known[k]) + day, route[known[k]].time)
    BY <1>5 DEF NotLeftOut
  <2>1. PICK i \in told : i = known[k]
    BY <1>7
  <2>2. \A j \in told : LET c == (bookedDay(route, j) + day) * DayMinutes + route[j].time
                        IN ~(SummerFrom <= c /\ c < SummerFrom + 60)
    BY DEF ToldApart, told, route
  <2>3. QED
    BY <2>1, <2>2 DEF leftOut, DayMinutes
<1>9. NotLeftOut(0)
  <2> SUFFICES ASSUME NEW k \in 1..m
               PROVE  ~leftOut(bookedDay(route, known[k]) + 0, route[known[k]].time)
    BY <1>5 DEF NotLeftOut
  <2>1. PICK i \in 1..Len(route) : i = known[k]
    BY <1>7
  <2>2. bookedDay(route, i) + 0 = bookedDay(route, i)
    BY <1>6
  <2>3. LET c == bookedDay(route, i) * DayMinutes + route[i].time
        IN ~(SummerFrom <= c /\ c < SummerFrom + 60)
    BY <1>4 DEF Timetabled, route
  <2>4. QED
    BY <2>1, <2>2, <2>3 DEF leftOut, DayMinutes
<1>10. \A k \in 1..m : bookedLike(0, k) = bookedAt(known[k])
  <2> SUFFICES ASSUME NEW k \in 1..m PROVE bookedLike(0, k) = bookedAt(known[k])
    OBVIOUS
  <2>1. PICK i \in 1..Len(route) : i = known[k]
    BY <1>7
  <2>2. bookedDay(route, i) + 0 = bookedDay(route, i)
    BY <1>6
  <2>3. QED
    BY <2>1, <2>2 DEF bookedLike, bookedAt, bookedOn
<1>11. PICK i \in 1..Len(route) : i = known[1] /\ i \in told /\ i \in DOMAIN route
  BY <1>4, <1>5, <1>7
<1>12. route[i].time >= route[1].time
  <2>1. scenario.rivals # {} => route[firstTold].time >= route[1].time
    BY DEF ToldApart, firstTold, told, route
  <2>2. QED
    BY <1>3, <1>11, <2>1
<1>13. bookedDay(route, i) = s
  <2>1. 1 \in 1..Len(route)
    <3>1. Len(route) \in Nat /\ Len(route) > 1
      BY RouteFacts
    <3>2. QED
      BY <3>1
  <2>2. route[i].time \in Int /\ route[1].time \in Int
    BY <2>1, RouteFacts
  <2>3. QED
    BY <1>1, <1>12, <2>2 DEF bookedDay
<1>14. DatedFrom(serviceDateAnchor(Ssd), bookedLike(0, 1))
  <2>1. i \in {j \in DOMAIN route : route[j].known /\ route[j].time >= route[1].time}
    BY <1>11, <1>12 DEF told
  <2>2. DatedFrom(serviceDateAnchor(Ssd), bookedOn(route, i))
    BY <2>1 DEF Timetabled, route
  <2>3. bookedLike(0, 1) = bookedOn(route, i)
    BY <1>5, <1>10, <1>11 DEF bookedAt
  <2>4. QED
    BY <2>2, <2>3
<1>15. DatedFrom(serviceDateAnchor(Ssd + day), bookedLike(day, 1))
  <2>1. bookedLike(day, 1) = londonWallToInstant(Ssd + day, route[i].time)
    BY <1>1, <1>11, <1>13 DEF bookedLike
  <2>2. DatedFrom(serviceDateAnchor(Ssd + day),
                  londonWallToInstant(Ssd + day, route[firstTold].time))
    BY DEF ToldApart, firstTold, told, route
  <2>3. QED
    BY <1>3, <1>11, <2>1, <2>2
<1>16. QED
  BY <1>2, <1>5, <1>8, <1>9, <1>10, <1>14, <1>15

(* The run is less than half a day from when it is booked to be running,   *)
(* and another day's is not.                                               *)
LEMMA OursIsNearer ==
    ASSUME ClockInv, Timetabled(scenario), LatenessInv, ToldApart(scenario), Len(known) > 0,
           NEW day \in scenario.rivals
    PROVE  /\ windowDistance(runWindow(ourRun.stops, Ssd), now) < 690
           /\ windowDistance(runWindow(rival(day).stops, Ssd + day), now) >= 690
<1>1. PICK m \in Nat : m = Len(known) /\ m > 0 /\ 1 \in 1..m /\ m \in 1..m
  BY KnownFacts
<1>2. /\ day \in {-1, 1} /\ NotLeftOut(day) /\ NotLeftOut(0)
      /\ \A k \in 1..m : bookedLike(0, k) = bookedAt(known[k])
      /\ DatedFrom(serviceDateAnchor(Ssd), bookedLike(0, 1))
      /\ DatedFrom(serviceDateAnchor(Ssd + day), bookedLike(day, 1))
  BY <1>1, RivalsAreDated
<1>3. ourRun \in runs /\ rival(day) \in runs
  <2>1. known # <<>>
    BY <1>1
  <2>2. QED
    BY <2>1 DEF runs
<1>4. Ssd + 0 = Ssd /\ 0 \in {-1, 0, 1} /\ day \in {-1, 0, 1}
  BY <1>2, TrainViewsAssumption
<1>5. runWindow(ourRun.stops, Ssd) = <<bookedLike(0, 1), bookedLike(0, m)>>
  <2>1. DatedFrom(serviceDateAnchor(Ssd + 0), bookedLike(0, 1))
    BY <1>2, <1>4
  <2>2. runWindow(ourRun.stops, Ssd + 0) = <<bookedLike(0, 1), bookedLike(0, Len(known))>>
    BY <1>2, <1>3, <1>4, <2>1, LikeWindow
  <2>3. QED
    BY <1>1, <1>4, <2>2
<1>6. runWindow(rival(day).stops, Ssd + day) = <<bookedLike(day, 1), bookedLike(day, m)>>
  BY <1>1, <1>2, <1>3, <1>4, LikeWindow
<1>7. PICK b \in Int, t \in Int, lo \in Int, hi \in Int :
        /\ b = bookedAt(1) /\ t = now /\ lo = bookedLike(0, 1) /\ hi = bookedLike(0, m)
        /\ b <= t /\ t < b + 690 /\ b <= lo /\ lo < b + 690 /\ b <= hi /\ hi < b + 690
  <2>1. known[1] \in 1..Len(route) /\ known[m] \in 1..Len(route)
    BY <1>1, KnownFacts
  <2>2. bookedLike(0, 1) = bookedAt(known[1]) /\ bookedLike(0, m) = bookedAt(known[m])
    BY <1>1, <1>2
  <2>3. \A i \in 1..Len(route) :
          /\ bookedAt(1) \in Int /\ bookedAt(i) \in Int /\ now \in Int
          /\ bookedAt(1) <= bookedAt(i) /\ bookedAt(i) < bookedAt(1) + 690
          /\ bookedAt(1) <= now /\ now < bookedAt(1) + 690
    BY NowIsNear
  <2>4. QED
    BY <2>1, <2>2, <2>3
<1>8. PICK early \in Int, late \in Int : /\ early = bookedLike(day, 1) /\ late = bookedLike(day, m)
                                         /\ early <= late
  <2>1. bookedLike(day, 1) \in Int /\ bookedLike(day, m) \in Int
    BY <1>1, <1>2, <1>4, LikeFacts
  <2>2. CASE m = 1
    BY <2>1, <2>2
  <2>3. CASE m # 1
    <3>1. 1 < m
      BY <1>1, <2>3
    <3>2. bookedLike(day, 1) <= bookedLike(day, m)
      BY <1>1, <1>2, <1>4, <3>1, LikeOrder
    <3>3. QED
      BY <2>1, <3>2
  <2>4. QED
    BY <2>2, <2>3
<1>9. /\ early - lo <= day * 1440 + 60 /\ early - lo >= day * 1440 - 60
      /\ late - hi <= day * 1440 + 60 /\ late - hi >= day * 1440 - 60
  <2>1. \A k \in 1..Len(known) : /\ bookedLike(day, k) - bookedLike(0, k) <= day * 1440 + 60
                                 /\ bookedLike(day, k) - bookedLike(0, k) >= day * 1440 - 60
    BY <1>2, DayApart
  <2>2. QED
    BY <1>1, <1>7, <1>8, <2>1
<1>10. windowDistance(<<lo, hi>>, t) < 690
  <2>1. lo - t < 690 /\ t - lo < 690
    BY <1>7
  <2>2. QED
    BY <2>1, NearWindow
<1>11. windowDistance(<<early, late>>, t) >= 690
  <2>1. early - t > 690 \/ t - late > 690
    <3>1. CASE day = 1
      BY ONLY <1>7, <1>9, <3>1
    <3>2. CASE day = -1
      BY ONLY <1>7, <1>9, <3>2
    <3>3. QED
      BY <1>2, <3>1, <3>2
  <2>2. QED
    BY <1>8, <2>1, FarWindow
<1>12. QED
  BY <1>1, <1>5, <1>6, <1>7, <1>8, <1>10, <1>11

(* The run is one of the candidates: it is of the day that it is, or of    *)
(* the day before, and calls at one of the stations.                       *)
LEMMA OursIsCandidate ==
    ASSUME ClockInv, Timetabled(scenario), ToldApart(scenario), LatenessInv, ~ended,
           Cardinality(knownCalls) >= MinMatched, NEW keys, NEW I, IsKeys(keys, I)
    PROVE  /\ Len(known) > 0 /\ ourRun \in runs
           /\ ourRun \in loadCandidateRuns({k[1] : k \in keys}, runs, now)
<1>1. PICK i \in knownCalls : TRUE
  <2>1. knownCalls # {}
    BY FS_EmptySet DEF MinMatched
  <2>2. QED
    BY <2>1
<1>2. i \in I /\ keyOf(i) \in keys
  BY <1>1 DEF IsKeys
<1>3. PICK m \in Nat, k \in 1..Len(known) : m = Len(known) /\ known[k] = i
  <2>1. Len(known) \in Nat
    BY KnownFacts
  <2>2. \E k \in 1..Len(known) : known[k] = i
    BY <1>1, KnownSet DEF knownCalls
  <2>3. QED
    BY <2>1, <2>2
<1>4. Len(known) > 0 /\ ourRun \in runs
  <2>1. Len(known) > 0 /\ known # <<>>
    BY <1>3
  <2>2. QED
    BY <2>1 DEF runs
<1>5. \E s \in ToSet(ourRun.stops) : s.crs \in {key[1] : key \in keys}
  <2>1. PICK s : s = ourRun.stops
    OBVIOUS
  <2>2. DOMAIN s = 1..m /\ s[k].crs = route[i].crs
    BY <1>3, <1>4, <2>1, RunTimes
  <2>3. s[k] \in ToSet(s)
    BY <1>3, <2>2 DEF ToSet
  <2>4. keyOf(i)[1] = route[i].crs
    BY DEF keyOf
  <2>5. route[i].crs \in {key[1] : key \in keys}
    BY <1>2, <2>4
  <2>6. QED
    BY <2>1, <2>2, <2>3, <2>5
<1>6. Ssd \in candidateServiceDays(now)
  <2>1. PICK d \in Nat : d = Ssd /\ d >= 1
    BY TrainViewsAssumption
  <2>2. 1 \in 1..Len(route) /\ 1 \in DOMAIN route
    <3>1. Len(route) \in Nat /\ Len(route) > 1
      BY RouteFacts
    <3>2. DOMAIN route = 1..Len(route)
      BY RouteFacts, SeqFacts
    <3>3. QED
      BY <3>1, <3>2
  <2>3. PICK h \in Int : h = route[1].time /\ 0 <= h /\ h < 1440
    BY <2>2, TimesOfDay
  <2>4. bookedDay(route, 1) = d
    BY <2>1, <2>3 DEF bookedDay
  <2>5. PICK b : b = londonWallToInstant(d, h)
    OBVIOUS
  <2>6. bookedAt(1) = b
    BY <2>3, <2>4, <2>5 DEF bookedAt, bookedOn
  <2>7. ~leftOut(d, h)
    BY <2>2, <2>3, <2>4 DEF Timetabled, route, DayMinutes, leftOut
  <2>8. b \in Int /\ b # NoTime /\ ~ShownTwice(b) /\ OnTheClock(b) = d * 1440 + h /\ londonDateKey(b) = d
    BY <2>3, <2>5, <2>7, WallReadsBack
  <2>9. PICK t \in Int : t = now /\ b <= t /\ t < b + 690
    BY <2>2, <2>6, NowIsNear
  <2>10. b >= 1380
    <3>1. PICK o \in {0, 60} : o = londonOffsetMinutes(b)
      BY <2>8, OffsetIs
    <3>2. b + o = d * 1440 + h
      BY <2>8, <3>1 DEF OnTheClock
    <3>3. d * 1440 >= 1440
      BY <2>1
    <3>4. QED
      BY <2>3, <2>8, <3>1, <3>2, <3>3
  <2>11. t # NoTime /\ t - 1440 # NoTime
    BY <2>8, <2>9, <2>10 DEF NoTime
  <2>12. SummerFrom <= d * 1440 - 60 \/ SummerFrom >= (d + 1) * 1440
    BY <2>1 DEF ToldApart, DayMinutes
  <2>13. d \in {londonDateKey(t - 1440), londonDateKey(t)}
    BY <2>8, <2>9, <2>11, <2>12, DayIsNear, TrainViewsAssumption
  <2>14. QED
    BY <2>1, <2>9, <2>13 DEF candidateServiceDays, DayMinutes
<1>7. ourRun.ssd = Ssd /\ ourRun.deactivated = FALSE
  BY DEF ourRun
<1>8. QED
  BY <1>4, <1>5, <1>6, <1>7 DEF loadCandidateRuns

(* The candidates are of one timetable and so match alike, and ours is the *)
(* nearest to being due.                                                   *)
LEMMA OursIsBest ==
    ASSUME ClockInv, Timetabled(scenario), ToldApart(scenario), LatenessInv,
           Cardinality(knownCalls) >= MinMatched, NEW keys, NEW I, IsKeys(keys, I), Len(known) > 0,
           NEW candidates, candidates \subseteq runs, ourRun \in candidates
    PROVE  pickBestRun(candidates, keys, now) = Ours
<1> DEFINE rec(r) == [run |-> r, score |-> scoreRun(r.stops, keys),
                      distance |-> windowDistance(runWindow(r.stops, r.ssd), now)]
           scored == {rec(r) : r \in candidates}
           fit == {c \in scored : isAcceptable(c.score, Cardinality(keys))}
           better(a, b) ==
             \/ a.score.matched > b.score.matched
             \/ /\ a.score.matched = b.score.matched
                /\ \/ a.distance < b.distance
                   \/ /\ a.distance = b.distance
                      /\ a.score.outOf < b.score.outOf
           top == {a \in fit : \A b \in fit : ~better(b, a)}
<1>1. pickBestRun(candidates, keys, now) =
        IF Cardinality(top) = 1 THEN (CHOOSE a \in top : TRUE).run.rid ELSE NoRun
  BY DEF pickBestRun
<1>2. PICK score : score = [matched |-> Cardinality(hitsOf(keys)),
                            outOf |-> Max({Min({Cardinality(keys), Len(known)}), 1})]
  OBVIOUS
<1>3. isAcceptable(score, Cardinality(keys)) /\ score.matched \in Nat /\ score.outOf \in Nat
  BY <1>2, RunIsAcceptable
<1>4. PICK n \in Nat, o \in Nat : score.matched = n /\ score.outOf = o
  BY <1>3
<1>5. \A r \in runs : /\ rec(r).run = r /\ rec(r).score = score
                      /\ rec(r).distance = windowDistance(runWindow(r.stops, r.ssd), now)
  <2> SUFFICES ASSUME NEW r \in runs
               PROVE  /\ rec(r).run = r /\ rec(r).score = score
                      /\ rec(r).distance = windowDistance(runWindow(r.stops, r.ssd), now)
    OBVIOUS
  <2>1. scoreRun(r.stops, keys) = score
    BY <1>2, RunScore
  <2>2. QED
    BY <2>1
<1>6. \A r \in runs : r.ssd \in Int
  <2> SUFFICES ASSUME NEW r \in runs PROVE r.ssd \in Int
    OBVIOUS
  <2>1. Ssd \in Int
    BY TrainViewsAssumption
  <2>2. CASE r = ourRun
    BY <2>1, <2>2 DEF ourRun
  <2>3. CASE \E day \in scenario.rivals : r = rival(day)
    <3>1. PICK day \in scenario.rivals : r = rival(day)
      BY <2>3
    <3>2. scenario.rivals \in SUBSET {-1, 1}
      BY TrainViewsAssumption DEF ClockInv
    <3>3. r.ssd = Ssd + day
      BY <3>1 DEF rival
    <3>4. QED
      BY <2>1, <3>2, <3>3
  <2>4. QED
    BY <2>2, <2>3 DEF runs
<1> DEFINE dist(r) == windowDistance(runWindow(r.stops, r.ssd), now)
<1>7. \A r \in runs : dist(r) \in Int
  BY <1>6, DistanceIsInt
<1>8. \A r \in runs : r # ourRun => dist(ourRun) < 690 /\ dist(r) >= 690
  <2> SUFFICES ASSUME NEW r \in runs, r # ourRun PROVE dist(ourRun) < 690 /\ dist(r) >= 690
    OBVIOUS
  <2>1. PICK day \in scenario.rivals : r = rival(day)
    BY DEF runs
  <2>2. ourRun.ssd = Ssd /\ r.ssd = Ssd + day
    BY <2>1 DEF ourRun, rival
  <2>3. /\ windowDistance(runWindow(ourRun.stops, Ssd), now) < 690
        /\ windowDistance(runWindow(rival(day).stops, Ssd + day), now) >= 690
    BY OursIsNearer
  <2>4. QED
    BY <2>1, <2>2, <2>3
<1>9. ourRun \in runs
  OBVIOUS
<1>10. \A r \in runs : rec(r).run = r /\ rec(r).score = score /\ rec(r).distance = dist(r)
  BY <1>5
<1>11. fit = scored
  <2>1. \A r \in candidates : isAcceptable(rec(r).score, Cardinality(keys))
    BY <1>3, <1>10
  <2> HIDE DEF rec
  <2>2. QED
    BY <2>1
<1> HIDE DEF rec, dist
<1>12. \A r, q \in runs : better(rec(r), rec(q)) <=> dist(r) < dist(q)
  <2> SUFFICES ASSUME NEW r \in runs, NEW q \in runs PROVE better(rec(r), rec(q)) <=> dist(r) < dist(q)
    OBVIOUS
  <2>1. /\ rec(r).score.matched = n /\ rec(q).score.matched = n
        /\ rec(r).score.outOf = o /\ rec(q).score.outOf = o
        /\ rec(r).distance = dist(r) /\ rec(q).distance = dist(q)
    BY <1>4, <1>10
  <2>2. ~(n > n) /\ ~(o < o)
    OBVIOUS
  <2>3. QED
    BY <2>1, <2>2
<1>13. ~(dist(ourRun) < dist(ourRun))
  BY <1>7, <1>9
<1>14. \A r \in runs : r # ourRun => dist(ourRun) < dist(r) /\ ~(dist(r) < dist(ourRun))
  BY <1>7, <1>8, <1>9
<1> HIDE DEF better
<1>15. top = {rec(ourRun)}
  <2>1. rec(ourRun) \in top
    <3>1. \A b \in fit : ~better(b, rec(ourRun))
      BY <1>9, <1>11, <1>12, <1>13, <1>14
    <3>2. rec(ourRun) \in fit
      BY <1>11
    <3>3. QED
      BY <3>1, <3>2
  <2>2. \A a \in top : a = rec(ourRun)
    <3> SUFFICES ASSUME NEW a \in top PROVE a = rec(ourRun)
      OBVIOUS
    <3>1. PICK r \in candidates : a = rec(r)
      BY <1>11
    <3>2. rec(ourRun) \in fit
      BY <1>11
    <3>3. ~better(rec(ourRun), rec(r))
      BY <3>1, <3>2
    <3>4. r = ourRun
      BY <1>9, <1>12, <1>14, <3>1, <3>3
    <3>5. QED
      BY <3>1, <3>4
  <2>3. QED
    BY <2>1, <2>2
<1> HIDE DEF top
<1>16. Cardinality(top) = 1 /\ (CHOOSE a \in top : TRUE) = rec(ourRun)
  <2>1. Cardinality(top) = 1
    BY <1>15, FS_Singleton
  <2>2. (CHOOSE a \in top : TRUE) = rec(ourRun)
    BY <1>15
  <2>3. QED
    BY <2>1, <2>2
<1>17. rec(ourRun).run.rid = Ours
  <2>1. rec(ourRun).run = ourRun
    BY <1>9, <1>10
  <2>2. ourRun.rid = Ours
    BY DEF ourRun
  <2>3. QED
    BY <2>1, <2>2
<1>18. QED
  BY <1>1, <1>16, <1>17

(* From the choice of the run on, it is what a load is of.                 *)
Findable == /\ Timetabled(scenario) /\ ToldApart(scenario)
            /\ ~ended /\ Cardinality(knownCalls) >= MinMatched
FoundInv ==
    Findable =>
      /\ pc \in {"history", "position"} => load.rid = Ours
      /\ pc = "describer" => load.darwin.rid = Ours
      /\ page # Nothing => page.rid = Ours

LEMMA FindableBefore == ASSUME [Next]_vars, Findable' PROVE Findable
<1>1. scenario' = scenario
  BY SameScenario
<1>2. knownCalls' = knownCalls
  BY <1>1 DEF knownCalls, known, route
<1>3. ended => ended'
  <2>1. CASE \E crs \in StrayAt \cap {p.crs : p \in ToSet(route)}, headcode \in {Headcode, "2B02"} :
               Stray(crs, headcode)
    <3>1. PICK crs, headcode : Stray(crs, headcode)
      BY <2>1
    <3>2. QED
      BY <3>1 DEF Stray
  <2>2. CASE Move \/ Held \/ Deactivate
    BY <2>2 DEF Move, Held, Deactivate
  <2>3. CASE LoadRuns \/ LoadHistory \/ LoadPosition \/ LoadDescriber \/ UNCHANGED vars
    BY <2>3 DEF LoadRuns, LoadHistory, LoadPosition, LoadDescriber, vars, world
  <2>4. QED
    BY <2>1, <2>2, <2>3 DEF Next
<1>4. Timetabled(scenario)' /\ ToldApart(scenario)' /\ ~ended' /\ (Cardinality(knownCalls) >= MinMatched)'
  BY DEF Findable
<1>5. Timetabled(scenario) /\ ToldApart(scenario)
  BY <1>1, <1>4
<1>6. Cardinality(knownCalls) >= MinMatched
  BY <1>2, <1>4 DEF MinMatched
<1>7. QED
  BY <1>3, <1>4, <1>5, <1>6 DEF Findable

LEMMA LoadRunsFound == ASSUME ViewsInv, DatesInv, FoundInv, LoadRuns, Findable PROVE FoundInv'
<1> DEFINE calls == IF scenario.byRid THEN fetchCallsByRid(ourRun) ELSE parseCallingPattern(boardService).calls
           keys == callKeys(calls)
           candidates == loadCandidateRuns({k[1] : k \in keys}, runs, now)
           rid == pickBestRun(candidates, keys, now)
           picked == (CHOOSE r \in candidates : r.rid = rid).stops
           ordered == IF rid = NoRun THEN <<>> ELSE withCrs(orderRunStops(picked))
           darwin == [calls |-> calls, rid |-> NoRid,
                      progress |-> [NotTracking EXCEPT !.positionState = "awaiting-report"]]
           new == [calls |-> calls, rid |-> IF rid = NoRun THEN NoRid ELSE rid, since |-> now,
                   ordered |-> ordered, trust |-> <<>>, darwin |-> darwin]
<1>1. load' = new /\ pc' = (IF rid = NoRun THEN "describer" ELSE "history") /\ page' = page
  BY DEF LoadRuns
<1>2. ClockInv /\ LatenessInv
  BY DEF ViewsInv, WorldInv, DatesInv, Findable
<1>3. PICK I : IsKeys(keys, I)
  BY <1>2, RidKeys, BoardKeys
<1>4. candidates \subseteq runs
  BY DEF loadCandidateRuns
<1>5. new.rid = IF rid = NoRun THEN NoRid ELSE rid
  OBVIOUS
<1> HIDE DEF keys
<1>6. Len(known) > 0 /\ ourRun \in candidates
  BY <1>2, <1>3, OursIsCandidate DEF Findable
<1> HIDE DEF candidates
<1>7. rid = Ours
  BY <1>2, <1>3, <1>4, <1>6, OursIsBest DEF Findable
<1> HIDE DEF rid, new
<1>8. Ours # NoRun
  BY DEF Ours, NoRun
<1>9. page # Nothing => page.rid = Ours
  BY DEF FoundInv
<1>10. Nothing' = Nothing /\ Ours' = Ours
  BY DEF Nothing, Ours
<1>11. load'.rid = Ours /\ pc' = "history"
  BY <1>1, <1>5, <1>7, <1>8
<1>12. QED
  BY <1>1, <1>9, <1>10, <1>11 DEF FoundInv

LEMMA LoadPositionFound == ASSUME ViewsInv, FoundInv, LoadPosition, Findable PROVE FoundInv'
<1>1. PageInv
  BY DEF ViewsInv
<1>2. LoadInv(load) /\ page' = page /\ pc' = "describer" /\ pc = "position"
  BY <1>1 DEF LoadPosition, PageInv
<1>3. PICK nr : nr = nrPositionForRid(load.rid, headcodeOf(load.rid),
                                      {c.crs : c \in ToSet(load.calls)} \ {""}, positions, now)
  OBVIOUS
<1>4. PICK l : l = load
  OBVIOUS
<1>5. PICK d : d = enrichWithDarwinProgress(l.rid, l.calls, l.ordered, l.trust, nr, l.since)
  OBVIOUS
<1>7. PICK m : m = [l EXCEPT !.darwin = d]
  OBVIOUS
<1>8. load' = m
  BY <1>3, <1>4, <1>5, <1>7 DEF LoadPosition
<1>9. m.darwin = d
  <2>1. PICK calls, rid, since, ordered, trust, before :
          l = [calls |-> calls, rid |-> rid, since |-> since, ordered |-> ordered,
               trust |-> trust, darwin |-> before]
    BY <1>2, <1>4 DEF LoadInv, IsLoad
  <2>2. m = [calls |-> calls, rid |-> rid, since |-> since, ordered |-> ordered,
             trust |-> trust, darwin |-> d]
    BY <1>7, <2>1
  <2>3. QED
    BY <2>2
<1>10. l.rid = Ours /\ (page # Nothing => page.rid = Ours)
  BY <1>2, <1>4 DEF FoundInv
<1>11. load'.darwin.rid = Ours
  <2>1. d.rid = l.rid
    BY <1>5 DEF enrichWithDarwinProgress
  <2>2. QED
    BY <1>8, <1>9, <1>10, <2>1
<1>12. Nothing' = Nothing /\ Ours' = Ours
  BY DEF Nothing, Ours
<1>13. QED
  BY <1>2, <1>10, <1>11, <1>12 DEF FoundInv

LEMMA LoadHistoryFound == ASSUME ViewsInv, FoundInv, LoadHistory, Findable PROVE FoundInv'
<1>1. PageInv
  BY DEF ViewsInv
<1>2. LoadInv(load) /\ page' = page /\ pc' = "position" /\ pc = "history"
  BY <1>1 DEF LoadHistory, PageInv
<1>3. PICK trust : trust = trustProgressForRid(load.rid, history, load.ordered, now)
  OBVIOUS
<1>4. load' = [load EXCEPT !.trust = trust]
  BY <1>3 DEF LoadHistory
<1>5. load'.rid = load.rid
  <2>1. PICK l : l = load
    OBVIOUS
  <2>2. PICK calls, rid, since, ordered, before, darwin :
          l = [calls |-> calls, rid |-> rid, since |-> since, ordered |-> ordered,
               trust |-> before, darwin |-> darwin]
    BY <1>2, <2>1 DEF LoadInv, IsLoad
  <2>3. [l EXCEPT !.trust = trust] = [calls |-> calls, rid |-> rid, since |-> since, ordered |-> ordered,
                                      trust |-> trust, darwin |-> darwin]
    BY <2>2
  <2>4. QED
    BY <1>4, <2>1, <2>2, <2>3
<1>6. load.rid = Ours /\ (page # Nothing => page.rid = Ours)
  BY <1>2 DEF FoundInv
<1>7. Nothing' = Nothing /\ Ours' = Ours
  BY DEF Nothing, Ours
<1>8. QED
  BY <1>2, <1>5, <1>6, <1>7 DEF FoundInv

LEMMA LoadDescriberFound == ASSUME FoundInv, LoadDescriber, Findable PROVE FoundInv'
<1>1. PICK knownRid : knownRid = (IF scenario.byRid THEN Ours ELSE NoRid)
  OBVIOUS
<1>2. PICK d : d = load.darwin
  OBVIOUS
<1>3. d.rid = Ours /\ pc' = "idle"
  BY <1>2 DEF FoundInv, LoadDescriber
<1>4. PICK nr : page' = enrichLiveProgress(d, knownRid, nr)
  BY <1>1, <1>2 DEF LoadDescriber
<1>5. d.rid # NoRid
  BY <1>3 DEF Ours, NoRid
<1>6. page'.rid = d.rid
  BY <1>4, <1>5 DEF enrichLiveProgress
<1>7. Ours' = Ours
  BY DEF Ours
<1>8. QED
  BY <1>3, <1>6, <1>7 DEF FoundInv

LEMMA StepFound == ASSUME ViewsInv, DatesInv, FoundInv, [Next]_vars PROVE FoundInv'
<1>1. SUFFICES ASSUME Findable PROVE FoundInv'
  <2>1. ~Findable => ~Findable'
    BY FindableBefore
  <2>2. QED
    BY <2>1 DEF FoundInv
<1>2. CASE pc' = pc /\ load' = load /\ page' = page
  <2>1. Nothing' = Nothing /\ Ours' = Ours
    BY DEF Nothing, Ours
  <2>2. /\ pc \in {"history", "position"} => load.rid = Ours
        /\ pc = "describer" => load.darwin.rid = Ours
        /\ page # Nothing => page.rid = Ours
    BY <1>1 DEF FoundInv
  <2>3. QED
    BY <1>2, <2>1, <2>2 DEF FoundInv
<1>3. CASE \E crs \in StrayAt \cap {p.crs : p \in ToSet(route)}, headcode \in {Headcode, "2B02"} :
             Stray(crs, headcode)
  <2>1. PICK crs, headcode : Stray(crs, headcode)
    BY <1>3
  <2>2. pc' = pc /\ load' = load /\ page' = page
    BY <2>1 DEF Stray
  <2>3. QED
    BY <1>2, <2>2
<1>4. CASE Move \/ Held \/ Deactivate \/ UNCHANGED vars
  <2>1. pc' = pc /\ load' = load /\ page' = page
    BY <1>4 DEF Move, Held, Deactivate, vars
  <2>2. QED
    BY <1>2, <2>1
<1>5. CASE LoadRuns
  BY <1>1, <1>5, LoadRunsFound
<1>6. CASE LoadHistory
  BY <1>1, <1>6, LoadHistoryFound
<1>7. CASE LoadPosition
  BY <1>1, <1>7, LoadPositionFound
<1>8. CASE LoadDescriber
  BY <1>1, <1>8, LoadDescriberFound
<1>9. QED
  BY <1>3, <1>4, <1>5, <1>6, <1>7, <1>8 DEF Next

(* The page is of this train's run and no other day's (pickBestRun of      *)
(* service-match.ts over the runs of today and yesterday).  What it calls  *)
(* at does not tell the runs of a timetable apart, whose stops match       *)
(* alike; by the time of day the train is less than half a day from its    *)
(* own run, however late, and more from another's.                         *)
THEOREM OursAreFound == Spec => [](Timetabled(scenario) /\ ToldApart(scenario) => OursIsFound)
<1>1. Init => DatesInv /\ FoundInv
  <2>1. Init => FoundInv
    BY DEF Init, FoundInv
  <2>2. QED
    BY <2>1, InitDates
<1>2. ViewsInv /\ ViewsInv' /\ DatesInv /\ FoundInv /\ [Next]_vars => DatesInv' /\ FoundInv'
  BY StepDates, StepFound
<1>3. FoundInv => (Timetabled(scenario) /\ ToldApart(scenario) => OursIsFound)
  BY DEF FoundInv, Findable, OursIsFound, knownCalls
<1>4. QED
  BY <1>1, <1>2, <1>3, PageIsReported, PTL DEF Spec

-----------------------------------------------------------------------------
(* The portions of a service, dated behind the point where they leave it.  *)

PortionPoint == [crs : STRING, name : STRING, st : Int, at : Int, et : Int]
portionCalls(q) == datePattern([i \in DOMAIN q |-> toCall(q[i])], now)

(* The lists behind the first: none on the way to the boarding point, and  *)
(* behind it those of the scenario.                                        *)
LEMMA TailOfLists ==
    ASSUME NEW X, NEW more \in Seq(X), NEW b
    PROVE  /\ <<b>> \o more # <<>>
           /\ DOMAIN Tail(<<b>> \o more) = 1..Len(more)
           /\ \A i \in 1..Len(more) : Tail(<<b>> \o more)[i] = more[i]
<1>1. PICK Y : Y = X \cup {b}
  OBVIOUS
<1>2. more \in Seq(Y) /\ <<b>> \in Seq(Y) /\ Len(<<b>>) = 1 /\ Len(more) \in Nat
  BY <1>1
<1>3. PICK s : s = <<b>> \o more
  OBVIOUS
<1>4. s \in Seq(Y) /\ Len(s) = 1 + Len(more) /\ \A i \in 1..Len(more) : s[i + 1] = more[i]
  BY <1>2, <1>3
<1>5. s # <<>>
  BY <1>2, <1>4
<1>6. Len(Tail(s)) = Len(more) /\ Tail(s) \in Seq(Y) /\ \A i \in 1..Len(more) : Tail(s)[i] = s[i + 1]
  BY <1>2, <1>4, <1>5
<1>7. DOMAIN Tail(s) = 1..Len(more)
  BY <1>6, SeqFacts
<1>8. QED
  BY <1>3, <1>4, <1>5, <1>6, <1>7

LEMMA PortionsAre ==
    ASSUME ClockInv, NEW p \in ToSet(parseCallingPattern(boardService).portions)
    PROVE  \E q \in ToSet(scenario.portions) : p.calls = portionCalls(q)
<1> DEFINE d == boardService
           others(lists) == IF lists = <<>> THEN <<>> ELSE Tail(lists)
           dated(points) == datePattern([i \in DOMAIN points |-> toCall(points[i])], d.generatedAt)
           toPortion(kind, points) ==
             [kind |-> kind, calls |-> dated(points),
              terminusName |-> IF points = <<>> THEN ""
                               ELSE IF kind = "divides" THEN Last(points).name ELSE Head(points).name]
           joins == [i \in DOMAIN others(d.previous) |-> toPortion("joins", others(d.previous)[i])]
           divides == [i \in DOMAIN others(d.subsequent) |-> toPortion("divides", others(d.subsequent)[i])]
           all == joins \o divides
           I == {i \in DOMAIN all : all[i].calls # <<>>}
<1>1. parseCallingPattern(d).portions = Selected(all, I)
  BY DEF parseCallingPattern
<1>2. PICK a, b : /\ d.generatedAt = now
                  /\ d.previous \in {<<>>, <<a>>}
                  /\ d.subsequent \in {<<>>, <<b>> \o scenario.portions}
  <2>1. /\ d.generatedAt = now
        /\ \E a : d.previous \in {<<>>, <<a>>}
        /\ \E b : d.subsequent \in {<<>>, <<b>> \o scenario.portions}
    BY DEF boardService
  <2>2. QED
    BY <2>1
<1>3. scenario.portions \in Seq(Seq(PortionPoint))
  BY TrainViewsAssumption DEF ClockInv, PortionPoint
<1>4. DOMAIN others(d.previous) = 1..0
  <2>1. DOMAIN <<>> = 1..0
    OBVIOUS
  <2>2. <<a>> # <<>> /\ DOMAIN Tail(<<a>>) = 1..0
    OBVIOUS
  <2>3. QED
    BY <1>2, <2>1, <2>2
<1>5. PICK more : more = others(d.subsequent)
  OBVIOUS
<1>6. PICK n \in Nat : DOMAIN more = 1..n /\ \A i \in 1..n : more[i] \in ToSet(scenario.portions)
  <2>1. CASE d.subsequent = <<>>
    <3>1. PICK none : none = <<>>
      OBVIOUS
    <3>2. DOMAIN none = 1..0 /\ 0 \in Nat /\ \A i \in 1..0 : FALSE
      BY <3>1
    <3>3. more = none
      BY <1>5, <2>1, <3>1
    <3>4. QED
      BY <3>2, <3>3
  <2>2. CASE d.subsequent = <<b>> \o scenario.portions
    <3>1. PICK s : s = scenario.portions /\ s \in Seq(Seq(PortionPoint))
      BY <1>3
    <3>2. PICK n \in Nat : n = Len(s)
      BY <3>1
    <3>3. /\ <<b>> \o s # <<>> /\ DOMAIN Tail(<<b>> \o s) = 1..n
          /\ \A i \in 1..n : Tail(<<b>> \o s)[i] = s[i]
      BY <3>1, <3>2, TailOfLists
    <3>4. more = Tail(<<b>> \o s)
      BY <1>5, <2>2, <3>1, <3>3
    <3>5. \A i \in 1..n : s[i] \in ToSet(s)
      BY <3>1, <3>2, SeqFacts DEF ToSet
    <3>6. QED
      BY <3>1, <3>2, <3>3, <3>4, <3>5
  <2>3. QED
    BY <1>2, <2>1, <2>2
<1> HIDE DEF others
<1>7. PICK none : none = joins
  OBVIOUS
<1>8. PICK some : some = divides
  OBVIOUS
<1>9. none \in Seq({}) /\ Len(none) = 0
  <2>1. none = [i \in 1..0 |-> toPortion("joins", others(d.previous)[i])]
    BY <1>4, <1>7
  <2> HIDE DEF toPortion
  <2>2. QED
    BY <2>1
<1>10. \A i \in 1..n : some[i].calls = portionCalls(more[i])
  <2>1. \A x : toPortion("divides", x).calls = dated(x)
    OBVIOUS
  <2>2. \A x : dated(x) = portionCalls(x)
    BY <1>2 DEF portionCalls
  <2> HIDE DEF toPortion, dated
  <2>3. \A i \in 1..n : some[i] = toPortion("divides", more[i])
    BY <1>5, <1>6, <1>8
  <2>4. QED
    BY <2>1, <2>2, <2>3
<1>11. PICK X : some \in Seq(X) /\ Len(some) = n
  <2> HIDE DEF toPortion
  <2>1. some = [i \in 1..n |-> toPortion("divides", others(d.subsequent)[i])]
    BY <1>5, <1>6, <1>8
  <2>2. some \in Seq({toPortion("divides", others(d.subsequent)[i]) : i \in 1..n}) /\ Len(some) = n
    BY <2>1
  <2>3. QED
    BY <2>2
<1>12. PICK s : s = none \o some
  OBVIOUS
<1>13. s \in Seq(X) /\ Len(s) = n /\ \A i \in 1..n : s[i] = some[i]
  <2>1. none \in Seq(X)
    BY <1>9
  <2>2. QED
    BY <1>9, <1>11, <1>12, <2>1
<1>14. all = s
  BY <1>7, <1>8, <1>12
<1> HIDE DEF joins, divides, all
<1>15. PICK kept : kept = Selected(s, I)
  OBVIOUS
<1>16. kept \in Seq(X) /\ \E f : IsSelection(f, kept, s, I, n)
  BY <1>13, <1>15, SelectedIndices
<1>17. PICK f : IsSelection(f, kept, s, I, n)
  BY <1>16
<1>18. p \in ToSet(kept)
  BY <1>1, <1>14, <1>15
<1>19. PICK k \in 1..Len(kept) : p = kept[k]
  BY <1>16, <1>18, SeqFacts DEF ToSet
<1>20. f[k] \in 1..n /\ p = s[f[k]]
  BY <1>17, <1>19 DEF IsSelection
<1>21. p.calls = portionCalls(more[f[k]])
  BY <1>10, <1>13, <1>20
<1>22. QED
  BY <1>6, <1>20, <1>21

(* Where the page's reader boards is a point of the route.                 *)
hereAt == BookedFor(boardCalls[scenario.boarding].time)

LEMMA BoardingIs ==
    ASSUME ClockInv
    PROVE  /\ \E i \in 1..Len(route) : boardCalls[scenario.boarding] = route[i] /\ hereAt = bookedAt(i)
           /\ boardService.this.crs = boardCalls[scenario.boarding].crs
           /\ boardService.this.st = boardCalls[scenario.boarding].time
<1> DEFINE I == {i \in DOMAIN route : route[i].calls}
<1>1. route \in Seq(Point)
  BY RouteFacts
<1>2. boardCalls = Selected(route, I)
  BY DEF boardCalls, callsOn
<1> HIDE DEF I
<1>3. PICK f : IsSelection(f, boardCalls, route, I, Len(route)) /\ boardCalls \in Seq(Point)
  BY <1>1, <1>2, SelectedIndices
<1>4. scenario.boarding \in 1..Len(boardCalls)
  <2>1. scenario.boarding \in Nat \ {0} /\ scenario.boarding <= Len(callsOn(scenario.route))
    BY TrainViewsAssumption DEF ClockInv
  <2>2. Len(boardCalls) \in Nat /\ Len(boardCalls) = Len(callsOn(scenario.route))
    BY <1>3, SeqFacts DEF boardCalls, route
  <2>3. QED
    BY <2>1, <2>2
<1>5. PICK i \in 1..Len(route) : boardCalls[scenario.boarding] = route[i]
  BY <1>3, <1>4 DEF IsSelection
<1>6. hereAt = bookedAt(i)
  BY <1>5 DEF hereAt, bookedAt, bookedOn, bookedDay, BookedFor
<1>7. /\ boardService.this.crs = boardCalls[scenario.boarding].crs
      /\ boardService.this.st = boardCalls[scenario.boarding].time
  BY DEF boardService
<1>8. QED
  BY <1>5, <1>6, <1>7

LEMMA PlaceIsBooked ==
    ASSUME ClockInv, NEW i \in 1..Len(route), NEW c, c.crs = route[i].crs, c.scheduled = route[i].time
    PROVE  bookedAt(placeOf(c)) = BookedFor(route[i].time)
<1>1. DOMAIN route = 1..Len(route)
  <2>1. route \in Seq(Point)
    BY RouteFacts
  <2>2. QED
    BY <2>1, SeqFacts
<1>2. PICK j \in DOMAIN route : j = placeOf(c) /\ route[j].crs = c.crs /\ route[j].time = c.scheduled
  <2>1. \E j \in DOMAIN route : route[j].crs = c.crs /\ route[j].time = c.scheduled
    BY <1>1
  <2>2. QED
    BY <2>1 DEF placeOf
<1>3. bookedAt(j) = BookedFor(route[j].time)
  BY DEF bookedAt, bookedOn, bookedDay, BookedFor
<1>4. QED
  BY <1>2, <1>3

(* What is to be assumed of a portion, point by point.                     *)
dayFor(t) == Ssd + (IF t < route[1].time THEN 1 ELSE 0)
IsBehind(t) ==
    /\ t \in Int /\ 0 <= t /\ t < 1440 /\ ~leftOut(dayFor(t), t)
    /\ hereAt < BookedFor(t) /\ BookedFor(t) < hereAt + 720
LEMMA DividedFacts ==
    ASSUME ClockInv, Divided(scenario), NEW q \in ToSet(scenario.portions)
    PROVE  /\ q \in Seq(PortionPoint) /\ DOMAIN q = 1..Len(q) /\ Len(q) \in Nat
           /\ \A k \in 1..Len(q) :
                /\ IsBehind(q[k].st)
                /\ k = 1 => BookedFor(q[k].st) - bookedAt(1) < 690
                /\ \A j \in 1..Len(q) : j < k => dayFor(q[j].st) * 1440 + q[j].st <= dayFor(q[k].st) * 1440 + q[k].st
<1>1. scenario.portions \in Seq(Seq(PortionPoint))
  BY TrainViewsAssumption DEF ClockInv, PortionPoint
<1>2. q \in Seq(PortionPoint)
  BY <1>1, SeqFacts DEF ToSet
<1>3. DOMAIN q = 1..Len(q) /\ Len(q) \in Nat
  BY <1>2, SeqFacts
<1>4. SUFFICES ASSUME NEW k \in 1..Len(q)
               PROVE  /\ IsBehind(q[k].st)
                      /\ k = 1 => BookedFor(q[k].st) - bookedAt(1) < 690
                      /\ \A j \in 1..Len(q) :
                           j < k => dayFor(q[j].st) * 1440 + q[j].st <= dayFor(q[k].st) * 1440 + q[k].st
  BY <1>2, <1>3
<1>5. /\ boardCalls = callsOn(scenario.route) /\ route = scenario.route
      /\ \A i : bookedAt(i) = bookedOn(scenario.route, i)
  BY DEF boardCalls, route, bookedAt
<1>6. PICK t : t = q[k].st
  OBVIOUS
<1>7. PICK r : r = scenario.route
  OBVIOUS
<1> DEFINE day(u) == Ssd + (IF u < r[1].time THEN 1 ELSE 0)
           clock(u) == day(u) * DayMinutes + u
           booked(u) == londonWallToInstant(day(u), u)
           here == booked(callsOn(r)[scenario.boarding].time)
<1>8. /\ t \in 0..(DayMinutes - 1)
      /\ ~(SummerFrom <= clock(t) /\ clock(t) < SummerFrom + 60)
      /\ here < booked(t) /\ booked(t) < here + DayMinutes \div 2
      /\ k = 1 => booked(t) - bookedOn(r, 1) < 690
      /\ \A j \in DOMAIN q : j < k => clock(q[j].st) <= clock(t)
  BY <1>3, <1>6, <1>7 DEF Divided
<1>9. \A u : day(u) = dayFor(u) /\ booked(u) = BookedFor(u)
  BY <1>5, <1>7 DEF dayFor, BookedFor
<1>10. here = hereAt
  BY <1>5, <1>7, <1>9 DEF hereAt
<1>11. DayMinutes = 1440 /\ DayMinutes \div 2 = 720
  BY DEF DayMinutes
<1>12. \A u : clock(u) = dayFor(u) * 1440 + u
  BY <1>9, <1>11
<1> HIDE DEF day, clock, booked, here
<1>13. t \in Int /\ 0 <= t /\ t < 1440
  BY <1>8, <1>11
<1>14. ~leftOut(dayFor(t), t)
  BY <1>8, <1>12 DEF leftOut
<1>15. hereAt < BookedFor(t) /\ BookedFor(t) < hereAt + 720
  BY <1>8, <1>9, <1>10, <1>11
<1>16. k = 1 => BookedFor(t) - bookedAt(1) < 690
  BY <1>5, <1>7, <1>8, <1>9
<1>17. \A j \in 1..Len(q) : j < k => dayFor(q[j].st) * 1440 + q[j].st <= dayFor(t) * 1440 + t
  BY <1>3, <1>8, <1>12
<1>18. QED
  BY <1>6, <1>13, <1>14, <1>15, <1>16, <1>17 DEF IsBehind

LEMMA BehindFacts ==
    ASSUME TrainViewsAssumption, NEW t, IsBehind(t), hereAt \in Int
    PROVE  /\ BookedFor(t) \in Int /\ BookedFor(t) # NoTime /\ ~ShownTwice(BookedFor(t))
           /\ OnTheClock(BookedFor(t)) = dayFor(t) * 1440 + t /\ ukHhmm(BookedFor(t)) = t
           /\ OnTheClock(BookedFor(t)) \in Int
           /\ BookedFor(t) <= OnTheClock(BookedFor(t)) /\ OnTheClock(BookedFor(t)) <= BookedFor(t) + 60
           /\ t \in Int /\ t # NoTime
<1>1. t \in Int /\ 0 <= t /\ t < 1440 /\ ~leftOut(dayFor(t), t)
  BY DEF IsBehind
<1>2. PICK d \in Nat : d = dayFor(t)
  BY TrainViewsAssumption DEF dayFor
<1>3. BookedFor(t) = londonWallToInstant(d, t)
  BY <1>2 DEF BookedFor, dayFor
<1>4. /\ londonWallToInstant(d, t) \in Int
      /\ londonWallToInstant(d, t) # NoTime /\ ~ShownTwice(londonWallToInstant(d, t))
      /\ OnTheClock(londonWallToInstant(d, t)) = d * 1440 + t
      /\ ukHhmm(londonWallToInstant(d, t)) = t
  BY <1>1, <1>2, WallReadsBack
<1>5. PICK x \in Int : x = BookedFor(t)
  BY <1>3, <1>4
<1>6. londonOffsetMinutes(x) \in {0, 60} /\ OnTheClock(x) = x + londonOffsetMinutes(x)
  BY <1>5, OffsetIs DEF OnTheClock
<1>7. OnTheClock(x) \in Int /\ x <= OnTheClock(x) /\ OnTheClock(x) <= x + 60
  BY <1>5, <1>6
<1>8. t # NoTime
  BY <1>1 DEF NoTime
<1>9. QED
  BY <1>1, <1>2, <1>3, <1>4, <1>5, <1>7, <1>8

LEMMA PortionPattern ==
    ASSUME ClockInv, Timetabled(scenario), LatenessInv, Divided(scenario),
           NEW q \in ToSet(scenario.portions), NEW n, n = Len(q),
           NEW times, times = [k \in 1..n |-> q[k].st]
    PROVE  \A k \in 1..n : resolvePatternTimes(times, now)[k] = BookedFor(q[k].st)
<1>1. /\ q \in Seq(PortionPoint) /\ n \in Nat
      /\ \A k \in 1..n :
           /\ IsBehind(q[k].st)
           /\ k = 1 => BookedFor(q[k].st) - bookedAt(1) < 690
           /\ \A j \in 1..n : j < k => dayFor(q[j].st) * 1440 + q[j].st <= dayFor(q[k].st) * 1440 + q[k].st
  BY DividedFacts
<1>2. PICK i \in 1..Len(route) : hereAt = bookedAt(i)
  BY BoardingIs
<1>3. PICK here \in Int, first \in Int : here = hereAt /\ first = bookedAt(1) /\ now \in Int
                                         /\ first <= here /\ first <= now /\ now < first + 690
  BY <1>2, NowIsNear
<1>4. PICK b : b = [k \in 1..n |-> BookedFor(q[k].st)]
  OBVIOUS
<1>5. \A k \in 1..n : /\ b[k] \in Int /\ b[k] # NoTime /\ ~ShownTwice(b[k])
                      /\ OnTheClock(b[k]) = dayFor(q[k].st) * 1440 + q[k].st /\ ukHhmm(b[k]) = q[k].st
                      /\ OnTheClock(b[k]) \in Int
                      /\ b[k] <= OnTheClock(b[k]) /\ OnTheClock(b[k]) <= b[k] + 60
                      /\ here < b[k] /\ b[k] < here + 720
                      /\ q[k].st \in Int /\ q[k].st # NoTime
  <2> SUFFICES ASSUME NEW k \in 1..n
               PROVE  /\ b[k] \in Int /\ b[k] # NoTime /\ ~ShownTwice(b[k])
                      /\ OnTheClock(b[k]) = dayFor(q[k].st) * 1440 + q[k].st /\ ukHhmm(b[k]) = q[k].st
                      /\ OnTheClock(b[k]) \in Int
                      /\ b[k] <= OnTheClock(b[k]) /\ OnTheClock(b[k]) <= b[k] + 60
                      /\ here < b[k] /\ b[k] < here + 720
                      /\ q[k].st \in Int /\ q[k].st # NoTime
    OBVIOUS
  <2>1. PICK t : t = q[k].st
    OBVIOUS
  <2>2. IsBehind(t) /\ b[k] = BookedFor(t)
    BY <1>1, <1>4, <2>1
  <2>3. here < BookedFor(t) /\ BookedFor(t) < here + 720
    BY <1>3, <2>2 DEF IsBehind
  <2>4. hereAt \in Int
    BY <1>3
  <2>5. /\ BookedFor(t) \in Int /\ BookedFor(t) # NoTime /\ ~ShownTwice(BookedFor(t))
        /\ OnTheClock(BookedFor(t)) = dayFor(t) * 1440 + t /\ ukHhmm(BookedFor(t)) = t
        /\ OnTheClock(BookedFor(t)) \in Int
        /\ BookedFor(t) <= OnTheClock(BookedFor(t)) /\ OnTheClock(BookedFor(t)) <= BookedFor(t) + 60
        /\ t \in Int /\ t # NoTime
    BY <2>2, <2>4, TrainViewsAssumption, BehindFacts
  <2>6. QED
    BY <2>1, <2>2, <2>3, <2>5
<1>6. CASE n = 0
  BY <1>6
<1>7. CASE n # 0
  <2>1. 1 \in 1..n
    BY <1>1, <1>7
  <2>2. PICK K : K = {k \in 1..n : times[k] # NoTime}
    OBVIOUS
  <2>3. K = 1..n
    BY <1>5, <2>2
  <2>4. times \in [1..n -> Int]
    BY <1>5
  <2>5. IsKnown(n, times, K, 1)
    <3>1. \A k \in K : 1 <= k
      BY <2>3
    <3>2. QED
      BY ONLY <1>1, <2>1, <2>2, <2>3, <2>4, <3>1 DEF IsKnown
  <2>6. b \in [1..n -> Int]
    BY <1>4, <1>5
  <2>7. \A k \in K : times[k] = ukHhmm(b[k]) /\ b[k] # NoTime /\ ~ShownTwice(b[k])
    BY <1>5, <2>3
  <2>8. \A j, k \in K : JustBefore(K, j, k) =>
          OnTheClock(b[j]) <= OnTheClock(b[k]) /\ OnTheClock(b[k]) < OnTheClock(b[j]) + 1440
    <3> SUFFICES ASSUME NEW j \in 1..n, NEW k \in 1..n, j < k
                 PROVE  OnTheClock(b[j]) <= OnTheClock(b[k]) /\ OnTheClock(b[k]) < OnTheClock(b[j]) + 1440
      BY <2>3 DEF JustBefore
    <3>1. dayFor(q[j].st) * 1440 + q[j].st <= dayFor(q[k].st) * 1440 + q[k].st
      BY <1>1
    <3>2. PICK x \in Int, y \in Int : x = OnTheClock(b[j]) /\ y = OnTheClock(b[k]) /\ x <= y
      BY <1>5, <3>1
    <3>3. PICK u \in Int, v \in Int : u = b[j] /\ v = b[k]
      <4>1. b[j] \in Int /\ b[k] \in Int
        BY ONLY <2>6, j \in 1..n, k \in 1..n
      <4>2. QED
        BY ONLY <4>1
    <3>4. u <= x /\ y <= v + 60 /\ here < u /\ v < here + 720
      BY <1>5, <3>2, <3>3
    <3>5. y < x + 1440
      BY ONLY <3>4, here \in Int, u \in Int, v \in Int, x \in Int, y \in Int
    <3>6. QED
      BY ONLY <3>2, <3>5
  <2>9. IsPattern(n, times, b, K, 1)
    BY <2>5, <2>6, <2>7, <2>8 DEF IsPattern
  <2>10. DatedFrom(now, b[1])
    <3>1. PICK u \in Int : u = b[1] /\ here < u /\ u - first < 690
      BY <1>1, <1>3, <1>4, <1>5, <2>1
    <3>2. Gap(u, now) < 690
      BY <1>3, <3>1 DEF Gap
    <3>3. QED
      BY <3>1, <3>2 DEF DatedFrom
  <2>11. resolvePatternTimes(times, now) = [k \in 1..n |-> IF k \in K THEN b[k] ELSE NoTime]
    <3>1. PICK a \in Int : a = now
      BY <1>3
    <3>2. \A f : IsPattern(n, times, b, K, f) /\ DatedFrom(a, b[f]) =>
            resolvePatternTimes(times, a) = [k \in 1..n |-> IF k \in K THEN b[k] ELSE NoTime]
      BY ONLY a \in Int, PatternIsDated, TrainViewsAssumption
    <3>3. QED
      BY <2>9, <2>10, <3>1, <3>2
  <2>12. QED
    BY <1>4, <2>3, <2>11
<1>8. QED
  BY <1>6, <1>7

LEMMA PortionIsDated ==
    ASSUME ClockInv, Timetabled(scenario), LatenessInv, Divided(scenario),
           NEW q \in ToSet(scenario.portions)
    PROVE  /\ DOMAIN portionCalls(q) = 1..Len(q)
           /\ \A k \in 1..Len(q) : /\ hereAt < portionCalls(q)[k].scheduledIso
                                   /\ portionCalls(q)[k].scheduledIso < hereAt + 720
<1>1. /\ q \in Seq(PortionPoint) /\ DOMAIN q = 1..Len(q) /\ Len(q) \in Nat
      /\ \A k \in 1..Len(q) : IsBehind(q[k].st)
  BY DividedFacts
<1>2. PICK n \in Nat : n = Len(q)
  BY <1>1
<1>3. PICK raw : raw = [i \in 1..n |-> toCall(q[i])]
  OBVIOUS
<1>4. portionCalls(q) = datePattern(raw, now)
  BY <1>1, <1>2, <1>3 DEF portionCalls
<1>5. \A i \in 1..n : raw[i] \in Call /\ raw[i].scheduled = q[i].st
  <2> SUFFICES ASSUME NEW i \in 1..n PROVE raw[i] \in Call /\ raw[i].scheduled = q[i].st
    OBVIOUS
  <2>1. q[i] \in PortionPoint
    BY <1>1, <1>2
  <2>2. PICK crs \in STRING, name \in STRING, st \in Int, a \in Int, e \in Int :
          crs = q[i].crs /\ name = q[i].name /\ st = q[i].st /\ a = q[i].at /\ e = q[i].et
    BY <2>1 DEF PortionPoint
  <2>3. PICK iso \in Int, empty \in Marks : iso = NoTime /\ empty = ""
    BY DEF NoTime, Marks
  <2>4. raw[i] = [crs |-> crs, name |-> name, scheduled |-> st, actual |-> a, expected |-> e,
                  scheduledIso |-> iso, expectedIso |-> iso, actualIso |-> iso,
                  estimatedArrivalIso |-> iso, progress |-> empty]
    BY <1>3, <2>2, <2>3 DEF toCall
  <2>5. QED
    BY <2>2, <2>4 DEF Call
<1>6. raw \in Seq(Call) /\ Len(raw) = n
  <2>1. \A i \in 1..n : raw[i] \in Call
    BY <1>5
  <2>2. QED
    BY <1>3, <2>1
<1>7. now \in Int
  BY DEF ClockInv
<1>8. PICK times : times = [k \in 1..n |-> q[k].st]
  OBVIOUS
<1>9. [k \in 1..Len(raw) |-> raw[k].scheduled] = times
  BY <1>5, <1>6, <1>8
<1>10. \A k \in 1..n : resolvePatternTimes(times, now)[k] = BookedFor(q[k].st)
  BY <1>2, <1>8, PortionPattern
<1>11. \A k \in 1..n : datePattern(raw, now)[k].scheduledIso = BookedFor(q[k].st)
  <2> SUFFICES ASSUME NEW k \in 1..n PROVE datePattern(raw, now)[k].scheduledIso = BookedFor(q[k].st)
    OBVIOUS
  <2>1. k \in 1..Len(raw)
    BY <1>6
  <2>2. datePattern(raw, now)[k].scheduledIso = resolvePatternTimes([j \in 1..Len(raw) |-> raw[j].scheduled], now)[k]
    BY <1>6, <1>7, <2>1, DatedIso
  <2>3. QED
    BY <1>9, <1>10, <2>2
<1>12. DOMAIN datePattern(raw, now) = 1..n
  BY <1>6, SeqFacts DEF datePattern
<1>13. QED
  BY <1>1, <1>2, <1>4, <1>11, <1>12 DEF IsBehind

LEMMA PortionsDated ==
    ASSUME ClockInv, Timetabled(scenario), LatenessInv, Divided(scenario)
    PROVE  PortionsAreDated
<1> DEFINE portions == parseCallingPattern(boardService).portions
           here == bookedAt(placeOf([crs |-> boardService.this.crs, scheduled |-> boardService.this.st]))
<1>1. here = hereAt
  <2>1. PICK i \in 1..Len(route) : boardCalls[scenario.boarding] = route[i] /\ hereAt = bookedAt(i)
    BY BoardingIs
  <2>2. boardService.this.crs = route[i].crs /\ boardService.this.st = route[i].time
    BY <2>1, BoardingIs
  <2>3. PICK c : c = [crs |-> boardService.this.crs, scheduled |-> boardService.this.st]
    OBVIOUS
  <2>4. c.crs = route[i].crs /\ c.scheduled = route[i].time
    BY <2>2, <2>3
  <2>5. bookedAt(placeOf(c)) = BookedFor(route[i].time)
    BY <2>4, PlaceIsBooked
  <2>6. hereAt = BookedFor(route[i].time)
    BY <2>1 DEF hereAt
  <2>7. QED
    BY <2>3, <2>5, <2>6
<1> HIDE DEF here
<1>2. ASSUME NEW p \in ToSet(portions), NEW i \in 1..2, i \in DOMAIN p.calls
      PROVE  here < p.calls[i].scheduledIso /\ p.calls[i].scheduledIso < here + DayMinutes \div 2
  <2>1. PICK q \in ToSet(scenario.portions) : p.calls = portionCalls(q)
    BY <1>2, PortionsAre
  <2>2. /\ DOMAIN portionCalls(q) = 1..Len(q)
        /\ \A k \in 1..Len(q) : /\ hereAt < portionCalls(q)[k].scheduledIso
                                /\ portionCalls(q)[k].scheduledIso < hereAt + 720
    BY PortionIsDated
  <2>3. DayMinutes \div 2 = 720
    BY DEF DayMinutes
  <2>4. QED
    BY <1>1, <1>2, <2>1, <2>2, <2>3
<1>3. QED
  BY <1>2 DEF PortionsAreDated, here

-----------------------------------------------------------------------------
(* When the train was at the points behind it: no earlier than booked, and *)
(* no later than all the pauses make it.                                   *)
WasThere(i, t) == bookedAt(i) <= t /\ t <= bookedAt(i) + MaxOddities * Pause
PassedInv == Timetabled(scenario) => \A i \in 1..at : WasThere(i, passed[i])

LEMMA SlackIs ==
    ASSUME TrainViewsAssumption, NEW k \in 0..MaxOddities
    PROVE  /\ MaxOddities * Pause \in Nat /\ k * Pause \in Nat
           /\ k * Pause <= MaxOddities * Pause
<1>1. PICK m \in Nat, p \in Nat : m = MaxOddities /\ p = Pause
  BY TrainViewsAssumption
<1>2. PICK j \in Nat : j = k /\ j <= m
  BY <1>1
<1>3. PICK n \in Nat : m = j + n
  <2>1. m - j \in Nat /\ m = j + (m - j)
    BY <1>1, <1>2
  <2>2. QED
    BY <2>1
<1>4. j * p \in Nat /\ (j + n) * p \in Nat /\ j * p <= (j + n) * p
  BY MorePauses
<1>5. QED
  BY <1>1, <1>2, <1>3, <1>4

LEMMA MovePassed ==
    ASSUME ClockInv, ClockInv', PassedInv, LatenessInv', Timetabled(scenario), Move
    PROVE  \A i \in 1..at' : WasThere(i, passed[i])'
<1>1. route' = route /\ passed' = Append(passed, now') /\ at < Len(route)
  BY DEF Move, route
<1>2. at \in Nat /\ passed \in Seq(Int) /\ now' \in Int /\ at = Len(passed)
  BY RouteFacts DEF ClockInv, at
<1>3. PICK j \in Nat : j = at + 1
  BY <1>2
<1>4. at' = j /\ passed'[j] = now' /\ \A i \in 1..at : passed'[i] = passed[i]
  <2>1. Len(passed') = Len(passed) + 1
    BY <1>1, <1>2
  <2>2. at' = Len(passed')
    BY DEF at
  <2>3. QED
    BY <1>1, <1>2, <1>3, <2>1, <2>2
<1>5. stoodAt' = j
  BY <1>2, <1>3, <1>4 DEF stoodAt
<1>6. \A i : bookedAt(i)' = bookedAt(i)
  BY <1>1 DEF bookedAt
<1>7. PICK t \in Int : t = bookedAt(j)
  <2>1. PICK N \in Nat : N = Len(route)
    BY RouteFacts
  <2>2. j \in 1..Len(route)
    BY <1>1, <1>2, <1>3, <2>1
  <2>3. QED
    BY <2>2, BookedIsInt
<1>8. t <= now' /\ now' <= t + MaxOddities * Pause
  <2>1. bookedAt(stoodAt)' = t
    <3>1. bookedAt(stoodAt)' = bookedOn(route', stoodAt')
      BY DEF bookedAt
    <3>2. QED
      BY <1>1, <1>5, <1>7, <3>1 DEF bookedAt
  <2>2. PICK k \in 0..MaxOddities : k = oddities'
    BY DEF LatenessInv
  <2>3. t <= now' /\ now' <= t + k * Pause
    BY <2>1, <2>2 DEF LatenessInv
  <2>4. PICK x \in Nat, y \in Nat : x = k * Pause /\ y = MaxOddities * Pause /\ x <= y
    BY TrainViewsAssumption, SlackIs
  <2>5. QED
    BY <1>2, <1>7, <2>3, <2>4
<1>9. WasThere(j, passed[j])'
  BY <1>4, <1>6, <1>7, <1>8 DEF WasThere
<1>10. \A i \in 1..at : WasThere(i, passed[i])'
  BY <1>4, <1>6 DEF WasThere, PassedInv
<1>11. \A i \in 1..j : i \in 1..at \/ i = j
  BY <1>2, <1>3
<1>12. QED
  BY <1>4, <1>9, <1>10, <1>11

LEMMA StepPassed ==
    ASSUME ViewsInv, ViewsInv', DatesInv', PassedInv, [Next]_vars
    PROVE  PassedInv'
<1>1. ClockInv /\ ClockInv'
  BY DEF ViewsInv, WorldInv
<1>2. scenario' = scenario
  BY SameScenario
<1>3. CASE Move
  <2>1. Timetabled(scenario)' => Timetabled(scenario) /\ LatenessInv'
    BY <1>2 DEF DatesInv
  <2>2. Timetabled(scenario)' => \A i \in 1..at' : WasThere(i, passed[i])'
    BY <1>1, <1>3, <2>1, MovePassed
  <2>3. QED
    BY <2>2 DEF PassedInv
<1>4. CASE passed' = passed
  <2>1. at' = at /\ \A i, t : WasThere(i, t)' <=> WasThere(i, t)
    BY <1>2, <1>4 DEF at, WasThere, bookedAt, route
  <2>2. QED
    BY <1>2, <1>4, <2>1 DEF PassedInv, WasThere, bookedAt, route
<1>5. Move \/ passed' = passed
  <2>1. CASE \E crs \in StrayAt \cap {p.crs : p \in ToSet(route)}, headcode \in {Headcode, "2B02"} :
               Stray(crs, headcode)
    <3>1. PICK crs, headcode : Stray(crs, headcode)
      BY <2>1
    <3>2. QED
      BY <3>1 DEF Stray
  <2>2. CASE Held \/ Deactivate
    BY <2>2 DEF Held, Deactivate
  <2>3. CASE LoadRuns \/ LoadHistory \/ LoadPosition \/ LoadDescriber \/ UNCHANGED vars
    BY <2>3 DEF LoadRuns, LoadHistory, LoadPosition, LoadDescriber, vars, world
  <2>4. QED
    BY <2>1, <2>2, <2>3 DEF Next
<1>6. QED
  BY <1>3, <1>4, <1>5

-----------------------------------------------------------------------------
(* What Darwin has of a station on a line without a loop: one stop of each *)
(* run, at the minute it is booked to leave there.                         *)
forecastsAt(i) == stationForecasts(route[i].crs, runs, now)
answered(i) == IF i \in acted THEN ukHhmm(passed[i]) ELSE NoTime
awaited(i) == IF i \in acted THEN NoTime ELSE ukHhmm(expectedAt(i))
forecastOf(rid, i, estimate, actual) ==
  [rid |-> rid, schedDep |-> route[i].time, estDep |-> estimate, actDep |-> actual]
IsForecastOf(f, i) ==
    \/ f = forecastOf(Ours, i, awaited(i), answered(i))
    \/ \E rid \in {"yesterday's", "tomorrow's"}, actual \in {NoTime, route[i].time} :
         f = forecastOf(rid, i, NoTime, actual)

LEMMA ForecastIs ==
    ASSUME ClockInv, ~circular, NEW i \in departsAt, NEW f \in forecastsAt(i)
    PROVE  IsForecastOf(f, i)
<1>1. PICK N \in Nat : N = Len(route) /\ DOMAIN route = 1..N
  BY RouteFacts, SeqFacts
<1>2. i \in 1..N /\ route[i].calls /\ i < N
  BY <1>1 DEF departsAt
<1>3. PICK r \in runs, s \in UNION {ToSet(q.stops) : q \in runs} :
        /\ s \in ToSet(r.stops) /\ s.crs = route[i].crs
        /\ f = [rid |-> r.rid, schedDep |-> s.schedDep, estDep |-> s.estDep, actDep |-> s.actual]
  BY DEF forecastsAt, stationForecasts
<1>4. \A k \in DOMAIN known : known[k] \in 1..N /\ (route[known[k]].crs = route[i].crs => known[k] = i)
  <2> SUFFICES ASSUME NEW k \in DOMAIN known
               PROVE  known[k] \in 1..N /\ (route[known[k]].crs = route[i].crs => known[k] = i)
    OBVIOUS
  <2>1. known[k] \in 1..N
    BY <1>1, KnownFacts, SeqFacts
  <2>2. QED
    BY <1>1, <1>2, <2>1 DEF circular
<1>5. \A j, actual, estimate :
        LET x == stopRow(j, actual, estimate)
        IN /\ x.crs = route[j].crs /\ x.actual = actual
           /\ x.schedDep = IF route[j].calls /\ j < Len(route) THEN route[j].time ELSE NoTime
           /\ x.estDep = IF route[j].calls /\ j < Len(route) THEN estimate ELSE NoTime
  BY DEF stopRow
<1>6. ASSUME NEW actual, NEW estimate, s = stopRow(i, actual, estimate)
      PROVE  f = forecastOf(r.rid, i, estimate, actual)
  <2>1. s.schedDep = route[i].time /\ s.estDep = estimate /\ s.actual = actual
    BY <1>1, <1>2, <1>5, <1>6
  <2>2. QED
    BY <1>3, <2>1 DEF forecastOf
<1>7. CASE r = ourRun
  <2>1. PICK k \in DOMAIN known : s = stopRow(known[k], answered(known[k]), awaited(known[k]))
    BY <1>3, <1>7 DEF ourRun, ToSet, answered, awaited
  <2>2. s = stopRow(i, answered(i), awaited(i))
    BY <1>3, <1>4, <1>5, <2>1
  <2>3. f = forecastOf(r.rid, i, awaited(i), answered(i))
    BY <1>6, <2>2
  <2>4. r.rid = Ours
    BY <1>7 DEF ourRun
  <2>5. QED
    BY <2>3, <2>4 DEF IsForecastOf
<1>8. CASE r # ourRun
  <2>1. PICK day : r = rival(day)
    BY <1>8 DEF runs
  <2>2. PICK k, actual : /\ k \in DOMAIN known /\ s = stopRow(known[k], actual, NoTime)
                         /\ actual \in {NoTime, route[known[k]].time}
    BY <1>3, <2>1 DEF rival, ToSet
  <2>3. known[k] = i
    BY <1>3, <1>4, <1>5, <2>2
  <2>4. f = forecastOf(r.rid, i, NoTime, actual)
    BY <1>6, <2>2, <2>3
  <2>5. r.rid \in {"yesterday's", "tomorrow's"}
    BY <2>1 DEF rival
  <2>6. QED
    BY <2>2, <2>3, <2>4, <2>5 DEF IsForecastOf
<1>9. QED
  BY <1>7, <1>8

LEMMA OneForecast ==
    ASSUME ClockInv, ~circular, NEW i \in departsAt, Cardinality(forecastsAt(i)) = 1
    PROVE  \E g : forecastsAt(i) = {g}
<1>1. PICK own, t : own = forecastsAt(i) /\ t = route[i].time
  OBVIOUS
<1>2. PICK s : s = [n \in 1..5 |->
        IF n = 1 THEN forecastOf(Ours, i, awaited(i), answered(i))
        ELSE IF n = 2 THEN forecastOf("yesterday's", i, NoTime, NoTime)
        ELSE IF n = 3 THEN forecastOf("yesterday's", i, NoTime, t)
        ELSE IF n = 4 THEN forecastOf("tomorrow's", i, NoTime, NoTime)
        ELSE forecastOf("tomorrow's", i, NoTime, t)]
  OBVIOUS
<1>3. PICK T : T = {s[n] : n \in 1..5}
  OBVIOUS
<1>4. s[1] \in T /\ s[2] \in T /\ s[3] \in T /\ s[4] \in T /\ s[5] \in T
  BY <1>3
<1>5. own \subseteq T
  <2> SUFFICES ASSUME NEW f \in own PROVE f \in T
    OBVIOUS
  <2>1. IsForecastOf(f, i)
    BY <1>1, ForecastIs
  <2>2. f \in {s[1], s[2], s[3], s[4], s[5]}
    BY <1>1, <1>2, <2>1 DEF IsForecastOf
  <2>3. QED
    BY <1>4, <2>2
<1>6. IsFiniteSet(1..5)
  BY 1 \in Int, 5 \in Int, FS_Interval
<1>7. IsFiniteSet(own)
  <2>1. IsFiniteSet(T)
    BY <1>3, <1>6, ImageIsSmaller
  <2>2. QED
    BY <1>5, <2>1, FS_Subset
<1>8. QED
  BY <1>1, <1>7, FS_Singleton

LEMMA MinuteForecasts ==
    ASSUME ClockInv, ~circular, NEW i \in departsAt
    PROVE  /\ atMinute(forecastsAt(i), route[i].time) = forecastsAt(i)
           /\ \A t : t # route[i].time => atMinute(forecastsAt(i), t) = {}
<1>1. \A f \in forecastsAt(i) : f.schedDep = route[i].time
  BY ForecastIs DEF IsForecastOf, forecastOf
<1>2. route[i].time # NoTime
  <2>1. i \in 1..Len(route)
    BY RouteFacts, SeqFacts DEF departsAt
  <2>2. QED
    BY <2>1, RouteFacts
<1>3. QED
  BY <1>1, <1>2 DEF atMinute

(* The train's own departure, where it has the minute to itself.           *)
LEMMA AloneForecast ==
    ASSUME ClockInv, ~circular, NEW i \in departsAt
    PROVE  aloneAt(i) <=> forecastsAt(i) = {forecastOf(Ours, i, awaited(i), answered(i))}
<1>1. PICK own : own = forecastsAt(i)
  OBVIOUS
<1>2. aloneAt(i) <=> {f.rid : f \in own} = {Ours}
  BY <1>1, MinuteForecasts DEF aloneAt, forecastsAt
<1>3. PICK g : g = forecastOf(Ours, i, awaited(i), answered(i))
  OBVIOUS
<1>4. \A f \in own : f.rid = Ours => f = g
  <2> SUFFICES ASSUME NEW f \in own, f.rid = Ours PROVE f = g
    OBVIOUS
  <2>1. IsForecastOf(f, i)
    BY <1>1, ForecastIs
  <2>2. f # g => f.rid \in {"yesterday's", "tomorrow's"}
    BY <1>3, <2>1 DEF IsForecastOf, forecastOf
  <2>3. QED
    BY <2>2 DEF Ours
<1>5. g.rid = Ours
  BY <1>3 DEF forecastOf
<1>6. ASSUME {f.rid : f \in own} = {Ours} PROVE own = {g}
  <2>1. \A f \in own : f.rid = Ours
    BY <1>6
  <2>2. \E f \in own : f.rid = Ours
    BY <1>6
  <2>3. QED
    BY <1>4, <2>1, <2>2
<1>7. ASSUME own = {g} PROVE {f.rid : f \in own} = {Ours}
  BY <1>5, <1>7
<1>8. QED
  BY <1>1, <1>2, <1>3, <1>6, <1>7

-----------------------------------------------------------------------------
(* The times of a board.                                                   *)
LEMMA BoardTimes ==
    ASSUME ClockInv, Timetabled(scenario), ToldOnce(scenario), NEW i \in departsAt
    PROVE  /\ i \in 1..Len(route) /\ bookedAt(i) \in Int /\ bookedAt(i) # NoTime
           /\ ukHhmm(bookedAt(i)) = route[i].time
           /\ hhmmToIso(route[i].time, bookedAt(i)) = bookedAt(i)
           /\ bookedAt(i) + Pause - 1 \in Int /\ bookedAt(i) + Pause - 1 > bookedAt(i)
           /\ ukHhmm(bookedAt(i) + Pause - 1) # route[i].time
<1>1. i \in 1..Len(route) /\ route[i].calls
  BY RouteFacts, SeqFacts DEF departsAt
<1>2. PICK b \in Int : /\ b = bookedAt(i) /\ b # NoTime /\ ~ShownTwice(b)
                       /\ OnTheClock(b) = clockOf(i) /\ ukHhmm(b) = route[i].time
  BY <1>1, BookedFacts
<1>3. PICK p \in Nat : p = Pause /\ 1 < p /\ p < 720
  BY TrainViewsAssumption DEF ToldOnce, DayMinutes
<1>4. DatedFrom(b, b)
  <2>1. Gap(b, b) < 690
    BY DEF Gap
  <2>2. QED
    BY <2>1 DEF DatedFrom
<1>5. hhmmToIso(ukHhmm(b), b) = b
  BY <1>2, <1>4, TrainViewsAssumption, NearestDay
<1>6. PICK x \in Int : x = b + p - 1 /\ x > b /\ x < b + 719
  <2>1. b + p - 1 \in Int /\ b + p - 1 > b /\ b + p - 1 < b + 719
    BY <1>3
  <2>2. QED
    BY <2>1
<1>7. b >= -60
  <2>1. PICK c \in Nat : c = clockOf(i)
    <3>1. route[i].time \in Int /\ 0 <= route[i].time
      BY <1>1, TimesOfDay
    <3>2. PICK d \in Nat : d = bookedDay(route, i)
      BY TrainViewsAssumption DEF bookedDay
    <3>3. QED
      BY <3>1, <3>2 DEF clockOf
  <2>2. londonOffsetMinutes(b) \in {0, 60} /\ c = b + londonOffsetMinutes(b)
    BY <1>2, <2>1, OffsetIs DEF OnTheClock
  <2>3. QED
    BY <1>2, <2>1, <2>2
<1>8. x # NoTime
  BY <1>6, <1>7 DEF NoTime
<1>9. ukHhmm(x) # ukHhmm(b)
  <2> SUFFICES ASSUME ukHhmm(x) = ukHhmm(b) PROVE FALSE
    OBVIOUS
  <2>1. PICK h \in Int, d \in Int, e \in Int, u \in Int, v \in Int :
          /\ u = OnTheClock(b) /\ v = OnTheClock(x)
          /\ u = d * 1440 + h /\ v = e * 1440 + h
    <3>1. /\ OnTheClock(b) \in Int /\ londonDateKey(b) \in Int /\ ukHhmm(b) \in 0..1439
          /\ OnTheClock(b) = londonDateKey(b) * 1440 + ukHhmm(b)
      <4>1. b # NoTime
        BY <1>2
      <4>2. QED
        BY ONLY <4>1, b \in Int, ClockIs
    <3>2. /\ OnTheClock(x) \in Int /\ londonDateKey(x) \in Int /\ ukHhmm(x) \in 0..1439
          /\ OnTheClock(x) = londonDateKey(x) * 1440 + ukHhmm(x)
      BY ONLY <1>8, x \in Int, ClockIs
    <3>3. ukHhmm(b) \in Int
      BY <3>1
    <3>4. QED
      BY <3>1, <3>2, <3>3
  <2>2. PICK o \in {0, 60}, q \in {0, 60} : /\ u = b + o /\ o = londonOffsetMinutes(b)
                                            /\ v = x + q /\ q = londonOffsetMinutes(x)
    BY <2>1, OffsetIs DEF OnTheClock
  <2>3. v - u < 1440 /\ u - v < 1440
    BY <1>6, <2>2
  <2>4. d = e
    BY <2>1, <2>3
  <2>5. u = v
    BY <2>1, <2>4
  <2>6. o = 60 /\ q = 0 /\ x = b + 60
    BY <1>6, <2>2, <2>5
  <2>7. SummerFrom <= b /\ b < SummerTo
    BY <2>2, <2>6 DEF londonOffsetMinutes
  <2>8. ~(SummerFrom <= x /\ x < SummerTo)
    BY <2>2, <2>6 DEF londonOffsetMinutes
  <2>9. SummerFrom \in Int /\ SummerTo \in Int
    BY TrainViewsAssumption
  <2>10. SummerTo - 60 <= b
    BY <2>6, <2>7, <2>8, <2>9
  <2>11. QED
    BY <1>2, <2>7, <2>10 DEF ShownTwice
<1>10. QED
  BY <1>1, <1>2, <1>3, <1>5, <1>6, <1>9

(* The minute at which the train was at a call is read back as the instant. *)
LEMMA LeftReadsBack ==
    ASSUME ClockInv, Timetabled(scenario), ToldOnce(scenario), PassedInv,
           NEW i \in 1..at, route[i].calls
    PROVE  /\ passed[i] \in Int /\ passed[i] # NoTime /\ ukHhmm(passed[i]) # NoTime
           /\ hhmmToIso(ukHhmm(passed[i]), bookedAt(i)) = passed[i]
<1>1. i \in 1..Len(route) /\ DOMAIN route = 1..Len(route)
  <2>1. route \in Seq(Point) /\ Len(route) \in Nat /\ at \in Nat /\ at <= Len(route)
    BY RouteFacts DEF ClockInv
  <2>2. DOMAIN route = 1..Len(route)
    BY <2>1, SeqFacts
  <2>3. QED
    BY <2>1, <2>2
<1>2. PICK b \in Int : b = bookedAt(i) /\ b # NoTime /\ OnTheClock(b) = clockOf(i)
  BY <1>1, BookedFacts
<1>3. PICK slack \in Nat : slack = MaxOddities * Pause
  <2>1. 0 \in 0..MaxOddities
    BY TrainViewsAssumption
  <2>2. QED
    BY <2>1, TrainViewsAssumption, SlackIs
<1>4. PICK t \in Int : t = passed[i]
  BY DEF ClockInv, at
<1>5. b <= t /\ t <= b + slack
  BY <1>2, <1>3, <1>4 DEF PassedInv, WasThere
<1>6. slack < 690
  <2>1. PICK N \in Nat : N = Len(route) /\ N > 1
    BY RouteFacts
  <2>2. PICK u \in Int, v \in Int : u = bookedAt(1) /\ v = bookedAt(N) /\ u <= v
    <3>1. 1 \in 1..Len(route) /\ N \in 1..Len(route) /\ 1 <= N
      BY <2>1
    <3>2. bookedAt(1) \in Int /\ bookedAt(N) \in Int /\ bookedAt(1) <= bookedAt(N)
      BY <3>1, BookedIsInt, BookedOrder
    <3>3. QED
      BY <3>2
  <2>3. bookedOn(route, Len(route)) - bookedOn(route, 1) + MaxOddities * Pause < 690
    BY DEF Timetabled, route
  <2>4. QED
    BY <1>3, <2>1, <2>2, <2>3 DEF bookedAt
<1>7. b >= -60
  <2>1. PICK c \in Nat : c = clockOf(i)
    <3>1. route[i].time \in Int /\ 0 <= route[i].time
      BY <1>1, TimesOfDay
    <3>2. PICK d \in Nat : d = bookedDay(route, i)
      BY TrainViewsAssumption DEF bookedDay
    <3>3. QED
      BY <3>1, <3>2 DEF clockOf
  <2>2. londonOffsetMinutes(b) \in {0, 60} /\ c = b + londonOffsetMinutes(b)
    BY <1>2, <2>1, OffsetIs DEF OnTheClock
  <2>3. QED
    BY <1>2, <2>1, <2>2
<1>8. t # NoTime
  BY <1>5, <1>7 DEF NoTime
<1>9. ~ShownTwice(t)
  <2>1. SummerFrom \in Int /\ SummerTo \in Int
    BY TrainViewsAssumption
  <2>2. b + slack < SummerTo - 60 \/ b >= SummerTo
    BY <1>1, <1>2, <1>3 DEF ToldOnce, bookedAt, route
  <2>3. QED
    BY <1>3, <1>5, <2>1, <2>2 DEF ShownTwice
<1>10. DatedFrom(b, t)
  <2>1. Gap(t, b) < 690
    BY <1>3, <1>5, <1>6 DEF Gap
  <2>2. QED
    BY <2>1 DEF DatedFrom
<1>11. hhmmToIso(ukHhmm(t), b) = t
  BY <1>8, <1>9, <1>10, TrainViewsAssumption, NearestDay
<1>12. ukHhmm(t) # NoTime
  BY <1>8, InstantReads
<1>13. QED
  BY <1>2, <1>4, <1>8, <1>11, <1>12

(* And so is that at which it is expected, which is none where it is not.  *)
LEMMA ForecastReadsBack ==
    ASSUME ClockInv, Timetabled(scenario), ToldOnce(scenario), NEW i \in 1..Len(route)
    PROVE  /\ hhmmToIso(ukHhmm(expectedAt(i)), bookedAt(i)) = expectedAt(i)
           /\ expectedAt(i) \in Int /\ bookedAt(i) \in Int /\ bookedAt(i) # NoTime
           /\ expectedAt(i) # NoTime => ukHhmm(expectedAt(i)) # NoTime
<1>1. expectedAt(i) \in Int
  BY ExpectedIsInt
<1>2. PICK b \in Int : b = bookedAt(i) /\ b # NoTime /\ OnTheClock(b) = clockOf(i)
  BY BookedFacts
<1>3. CASE expectedAt(i) = NoTime
  <2>1. ukHhmm(NoTime) = NoTime /\ hhmmToIso(NoTime, b) = NoTime
    BY DEF ukHhmm, hhmmToIso
  <2>2. QED
    BY <1>1, <1>2, <1>3, <2>1
<1>4. CASE expectedAt(i) # NoTime
  <2>1. PICK e \in Int : e = route[i].expected
    BY RouteFacts
  <2>2. PICK t \in Int : t = expectedAt(i) /\ t # NoTime
    BY <1>1, <1>4
  <2>3. t = b + e /\ e # NoTime
    BY <1>2, <2>1, <2>2 DEF expectedAt
  <2>4. DOMAIN route = 1..Len(route)
    BY RouteFacts, SeqFacts
  <2>5. Gap(e, 0) < 690 /\ ~(SummerTo - 60 <= b + e /\ b + e < SummerTo)
    BY <1>2, <2>1, <2>3, <2>4 DEF ToldOnce, bookedAt, route
  <2>6. DatedFrom(b, t)
    <3>1. Gap(t, b) < 690
      BY <2>3, <2>5 DEF Gap
    <3>2. QED
      BY <3>1 DEF DatedFrom
  <2>7. ~ShownTwice(t)
    BY <2>3, <2>5 DEF ShownTwice
  <2>8. hhmmToIso(ukHhmm(t), b) = t
    BY <2>2, <2>6, <2>7, TrainViewsAssumption, NearestDay
  <2>9. ukHhmm(t) # NoTime
    BY <2>2, InstantReads
  <2>10. QED
    BY <1>1, <1>2, <2>2, <2>8, <2>9
<1>5. QED
  BY <1>3, <1>4

-----------------------------------------------------------------------------
(* The rows of a board, before they are sorted: ours with its time, if it  *)
(* was told one, and the other as it was.                                  *)
overlaid(r, own) ==
  LET f == CHOOSE g \in own : TRUE
      liveIso == hhmmToIso(orElse(f.actDep, f.estDep), r.scheduled)
      late == minutesLate(r.scheduled, liveIso)
  IN IF Cardinality(own) # 1 THEN r
     ELSE [r EXCEPT !.rid = f.rid, !.live = liveIso,
                      !.status = IF late > 1 THEN "delayed"
                                 ELSE IF liveIso # NoTime THEN "on-time" ELSE "scheduled"]

LEMMA OverlaidRow ==
    ASSUME NEW t, NEW own, NEW x, x = overlaid(boardRow(t), own)
    PROVE  /\ x.scheduled = t /\ x.status # "cancelled"
           /\ Cardinality(own) # 1 => x.live = NoTime
           /\ \A f : Cardinality(own) = 1 /\ f = (CHOOSE g \in own : TRUE) =>
                    x.live = hhmmToIso(orElse(f.actDep, f.estDep), t)
<1>1. boardRow(t) = [scheduled |-> t, live |-> NoTime, status |-> "scheduled", rid |-> NoRid]
  BY DEF boardRow
<1>2. CASE Cardinality(own) # 1
  <2>1. x = [scheduled |-> t, live |-> NoTime, status |-> "scheduled", rid |-> NoRid]
    BY <1>1, <1>2 DEF overlaid
  <2>2. QED
    BY <1>2, <2>1
<1>3. CASE Cardinality(own) = 1
  <2>1. PICK f : f = CHOOSE g \in own : TRUE
    OBVIOUS
  <2>2. PICK live : live = hhmmToIso(orElse(f.actDep, f.estDep), t)
    OBVIOUS
  <2>3. boardRow(t).scheduled = t
    BY <1>1
  <2>4. PICK status : /\ status = IF minutesLate(t, live) > 1 THEN "delayed"
                                  ELSE IF live # NoTime THEN "on-time" ELSE "scheduled"
                      /\ status # "cancelled"
    OBVIOUS
  <2>5. x = [boardRow(t) EXCEPT !.rid = f.rid, !.live = live, !.status = status]
    BY <1>3, <2>1, <2>2, <2>3, <2>4 DEF overlaid
  <2>6. x = [scheduled |-> t, live |-> live, status |-> status, rid |-> f.rid]
    BY <2>5 DEF boardRow
  <2>7. x.scheduled = t /\ x.status = status /\ x.live = live
    BY <2>6
  <2>8. QED
    BY <1>3, <2>1, <2>2, <2>4, <2>7
<1>4. Cardinality(own) = 1 \/ Cardinality(own) # 1
  OBVIOUS
<1>5. QED
  BY <1>2, <1>3, <1>4

LEMMA BoardIs ==
    ASSUME NEW i
    PROVE  /\ DOMAIN boardAt(i) = 1..2
           /\ boardAt(i)[1] = overlaid(boardRow(bookedAt(i)), atMinute(forecastsAt(i), ukHhmm(bookedAt(i))))
           /\ boardAt(i)[2] = overlaid(boardRow(bookedAt(i) + Pause - 1),
                                       atMinute(forecastsAt(i), ukHhmm(bookedAt(i) + Pause - 1)))
           /\ \E X : boardAt(i) \in Seq(X) /\ Len(boardAt(i)) = 2
<1>1. PICK rows : rows = <<boardRow(bookedAt(i)), boardRow(bookedAt(i) + Pause - 1)>>
  OBVIOUS
<1>2. DOMAIN rows = 1..2 /\ rows[1] = boardRow(bookedAt(i)) /\ rows[2] = boardRow(bookedAt(i) + Pause - 1)
  BY <1>1
<1>3. boardAt(i) = [k \in DOMAIN rows |-> overlaid(rows[k], atMinute(forecastsAt(i), ukHhmm(rows[k].scheduled)))]
  BY <1>1 DEF boardAt, enrichBoardWithDarwin, overlaid, forecastsAt
<1>4. rows[1].scheduled = bookedAt(i) /\ rows[2].scheduled = bookedAt(i) + Pause - 1
  BY <1>2 DEF boardRow
<1>5. PICK new : new = [k \in 1..2 |-> overlaid(rows[k], atMinute(forecastsAt(i), ukHhmm(rows[k].scheduled)))]
  OBVIOUS
<1>6. new \in Seq({new[1], new[2]}) /\ Len(new) = 2
  <2>1. \A k \in 1..2 : new[k] \in {new[1], new[2]}
    OBVIOUS
  <2>2. QED
    BY <1>5, <2>1
<1>7. boardAt(i) = new
  BY <1>2, <1>3, <1>5
<1>8. /\ DOMAIN new = 1..2
      /\ \A k \in 1..2 : new[k] = overlaid(rows[k], atMinute(forecastsAt(i), ukHhmm(rows[k].scheduled)))
  BY <1>5
<1>9. /\ new[1] = overlaid(boardRow(bookedAt(i)), atMinute(forecastsAt(i), ukHhmm(bookedAt(i))))
      /\ new[2] = overlaid(boardRow(bookedAt(i) + Pause - 1),
                           atMinute(forecastsAt(i), ukHhmm(bookedAt(i) + Pause - 1)))
  <2>1. 1 \in 1..2 /\ 2 \in 1..2
    OBVIOUS
  <2>2. QED
    BY <1>2, <1>4, <1>8, <2>1
<1>10. QED
  BY <1>6, <1>7, <1>8, <1>9

(* Ours is expected when it left or, before that, when it is forecast to.  *)
LEMMA BoardRows ==
    ASSUME ClockInv, ~circular, Timetabled(scenario), ToldOnce(scenario), PassedInv, NEW i \in departsAt
    PROVE  /\ leavesAt(i) \in Int
           /\ expectedDeparture(boardAt(i)[1]) = leavesAt(i)
           /\ boardAt(i)[1].scheduled = bookedAt(i)
           /\ toldAt(i) \/ (aloneAt(i) /\ expectedAt(i) # NoTime) => boardAt(i)[1].live = leavesAt(i)
           /\ expectedDeparture(boardAt(i)[2]) = bookedAt(i) + Pause - 1
           /\ boardAt(i)[2].scheduled = bookedAt(i) + Pause - 1
<1>1. PICK own : own = forecastsAt(i)
  OBVIOUS
<1>2. PICK b, x : b = bookedAt(i) /\ x = bookedAt(i) + Pause - 1
  OBVIOUS
<1>3. /\ b \in Int /\ b # NoTime /\ x \in Int /\ ukHhmm(b) = route[i].time /\ ukHhmm(x) # route[i].time
      /\ hhmmToIso(route[i].time, b) = b /\ i \in 1..Len(route)
  BY <1>2, BoardTimes
<1>4. boardAt(i)[1] = overlaid(boardRow(b), own) /\ boardAt(i)[2] = overlaid(boardRow(x), {})
  <2>1. atMinute(forecastsAt(i), ukHhmm(b)) = own /\ atMinute(forecastsAt(i), ukHhmm(x)) = {}
    BY <1>1, <1>3, MinuteForecasts
  <2>2. QED
    BY <1>2, <2>1, BoardIs
<1>5. PICK ours, other : ours = boardAt(i)[1] /\ other = boardAt(i)[2]
  OBVIOUS
<1>6. other.scheduled = x /\ expectedDeparture(other) = x
  <2>1. Cardinality({}) = 0
    BY FS_EmptySet
  <2>2. other.scheduled = x /\ other.live = NoTime
    BY <1>4, <1>5, <2>1, OverlaidRow
  <2>3. QED
    BY <2>2 DEF expectedDeparture
<1>7. /\ ours.scheduled = b /\ ours.status # "cancelled"
      /\ Cardinality(own) # 1 => ours.live = NoTime
      /\ \A f : Cardinality(own) = 1 /\ f = (CHOOSE g \in own : TRUE) =>
               ours.live = hhmmToIso(orElse(f.actDep, f.estDep), b)
  BY <1>4, <1>5, OverlaidRow
<1>8. hhmmToIso(NoTime, b) = NoTime
  BY DEF hhmmToIso
<1>9. ASSUME NEW e \in Int, leavesAt(i) = e, ours.live = e \/ (ours.live = NoTime /\ e = b),
             toldAt(i) \/ (aloneAt(i) /\ expectedAt(i) # NoTime) => ours.live = e,
             e # NoTime
      PROVE  /\ leavesAt(i) \in Int /\ expectedDeparture(ours) = leavesAt(i)
             /\ toldAt(i) \/ (aloneAt(i) /\ expectedAt(i) # NoTime) => ours.live = leavesAt(i)
  BY <1>7, <1>9 DEF expectedDeparture
<1>10. CASE aloneAt(i)
  <2>1. PICK g : own = {g} /\ g.actDep = answered(i) /\ g.estDep = awaited(i)
    <3>1. PICK g : g = forecastOf(Ours, i, awaited(i), answered(i))
      OBVIOUS
    <3>2. own = {g}
      BY <1>1, <1>10, <3>1, AloneForecast
    <3>3. g.actDep = answered(i) /\ g.estDep = awaited(i)
      BY <3>1 DEF forecastOf
    <3>4. QED
      BY <3>2, <3>3
  <2>2. Cardinality(own) = 1 /\ g = (CHOOSE h \in own : TRUE)
    BY <2>1, FS_Singleton
  <2>3. ours.live = hhmmToIso(orElse(answered(i), awaited(i)), b)
    BY <1>7, <2>1, <2>2
  <2>4. CASE i \in acted
    <3>1. PICK t : t = passed[i]
      OBVIOUS
    <3>2. i \in 1..at /\ route[i].calls
      BY <2>4 DEF ClockInv, departsAt
    <3>3. t \in Int /\ t # NoTime /\ ukHhmm(t) # NoTime /\ hhmmToIso(ukHhmm(t), b) = t
      BY <1>2, <3>1, <3>2, LeftReadsBack
    <3>4. answered(i) = ukHhmm(t)
      BY <2>4, <3>1 DEF answered
    <3>5. ours.live = t
      BY <2>3, <3>3, <3>4 DEF orElse
    <3>6. leavesAt(i) = t
      BY <1>10, <2>4, <3>1 DEF leavesAt, toldAt
    <3>7. QED
      BY <1>2, <1>5, <1>6, <1>7, <1>9, <3>3, <3>5, <3>6
  <2>5. CASE i \notin acted
    <3>1. PICK t : t = expectedAt(i)
      OBVIOUS
    <3>2. t \in Int /\ hhmmToIso(ukHhmm(t), b) = t
      BY <1>2, <1>3, <3>1, ForecastReadsBack
    <3>3. answered(i) = NoTime /\ awaited(i) = ukHhmm(t)
      BY <2>5, <3>1 DEF answered, awaited
    <3>4. ours.live = t
      BY <2>3, <3>2, <3>3 DEF orElse
    <3>5. leavesAt(i) = IF t # NoTime THEN t ELSE b
      BY <1>2, <1>10, <2>5, <3>1 DEF leavesAt, toldAt, forecastAt, orElse
    <3>6. ~toldAt(i)
      BY <2>5 DEF toldAt
    <3>7. QED
      BY <1>2, <1>3, <1>5, <1>6, <1>7, <1>9, <3>1, <3>2, <3>4, <3>5, <3>6
  <2>6. QED
    BY <2>4, <2>5
<1>11. CASE ~aloneAt(i)
  <2>1. ours.live \in {NoTime, b}
    <3>1. CASE Cardinality(own) = 1
      <4>1. PICK g : own = {g}
        BY <1>1, <3>1, OneForecast
      <4>2. g = (CHOOSE h \in own : TRUE)
        BY <4>1
      <4>3. IsForecastOf(g, i)
        BY <1>1, <4>1, ForecastIs
      <4>4. g # forecastOf(Ours, i, awaited(i), answered(i))
        BY <1>1, <1>11, <4>1, AloneForecast
      <4>5. g.estDep = NoTime /\ g.actDep \in {NoTime, route[i].time}
        BY <4>3, <4>4 DEF IsForecastOf, forecastOf
      <4>6. orElse(g.actDep, g.estDep) \in {NoTime, route[i].time}
        BY <4>5 DEF orElse
      <4>7. QED
        BY <1>3, <1>7, <1>8, <3>1, <4>2, <4>6
    <3>2. CASE Cardinality(own) # 1
      BY <1>7, <3>2
    <3>3. QED
      BY <3>1, <3>2
  <2>2. leavesAt(i) = b /\ ~toldAt(i)
    BY <1>2, <1>11 DEF leavesAt, toldAt
  <2>3. QED
    BY <1>2, <1>3, <1>5, <1>6, <1>7, <1>9, <1>11, <2>1, <2>2
<1>12. QED
  BY <1>10, <1>11

(* Two rows, sorted.                                                       *)
LEMMA TwoSwapped ==
    ASSUME NEW s, DOMAIN s = 1..2, NEW before,
           <<2, 1>> \in before, <<1, 2>> \notin before, <<1, 1>> \notin before, <<2, 2>> \notin before
    PROVE  Sorted(s, before)[1] = s[2] /\ Sorted(s, before)[2] = s[1]
<1> DEFINE behindOf(i) == Cardinality({j \in 1..2 : <<j, i>> \in before})
<1>1. behindOf(1) = 1
  <2>1. {j \in 1..2 : <<j, 1>> \in before} = {2}
    OBVIOUS
  <2>2. QED
    BY <2>1, FS_Singleton
<1>2. behindOf(2) = 0
  <2>1. {j \in 1..2 : <<j, 2>> \in before} = {}
    OBVIOUS
  <2>2. QED
    BY <2>1, FS_EmptySet
<1> DEFINE place(k) == CHOOSE i \in 1..2 : behindOf(i) = k - 1
<1>3. Sorted(s, before) = [k \in 1..2 |-> s[place(k)]]
  BY DEF Sorted
<1> HIDE DEF behindOf
<1>4. place(1) = 2
  <2>1. \A i \in 1..2 : behindOf(i) = 1 - 1 <=> i = 2
    BY <1>1, <1>2
  <2>2. QED
    BY <2>1
<1>5. place(2) = 1
  <2>1. \A i \in 1..2 : behindOf(i) = 2 - 1 <=> i = 1
    BY <1>1, <1>2
  <2>2. QED
    BY <2>1
<1> HIDE DEF place
<1>6. QED
  BY <1>3, <1>4, <1>5

LEMMA BoardOrder ==
    ASSUME NEW rows, DOMAIN rows = 1..2, \E X : rows \in Seq(X) /\ Len(rows) = 2,
           NEW x \in Int, NEW y \in Int, expectedDeparture(rows[1]) = x, expectedDeparture(rows[2]) = y
    PROVE  /\ x <= y => orderByExpectedDeparture(rows) = rows
           /\ x > y => /\ orderByExpectedDeparture(rows)[1] = rows[2]
                       /\ orderByExpectedDeparture(rows)[2] = rows[1]
<1> DEFINE time(i) == expectedDeparture(rows[i])
           before == {ij \in (1..2) \X (1..2) :
                        time(ij[1]) < time(ij[2]) \/ (time(ij[1]) = time(ij[2]) /\ ij[1] < ij[2])}
<1>1. orderByExpectedDeparture(rows) = Sorted(rows, before)
  BY DEF orderByExpectedDeparture
<1>2. \A i, j \in 1..2 : <<i, j>> \in before <=> time(i) < time(j) \/ (time(i) = time(j) /\ i < j)
  OBVIOUS
<1>3. time(1) = x /\ time(2) = y
  OBVIOUS
<1> HIDE DEF before, time
<1>4. CASE x <= y
  <2>1. \A i, j \in 1..Len(rows) : <<j, i>> \in before <=> j < i
    <3>1. <<1, 2>> \in before /\ <<2, 1>> \notin before /\ <<1, 1>> \notin before /\ <<2, 2>> \notin before
      BY <1>2, <1>3, <1>4
    <3>2. \A i \in 1..Len(rows) : i = 1 \/ i = 2
      OBVIOUS
    <3>3. \A i, j : (i = 1 \/ i = 2) /\ (j = 1 \/ j = 2) => (<<j, i>> \in before <=> j < i)
      BY ONLY <3>1
    <3>4. QED
      BY ONLY <3>2, <3>3
  <2>2. Sorted(rows, before) = rows
    BY <2>1, SortedInOrder
  <2>3. QED
    BY <1>1, <1>4, <2>2
<1>5. CASE x > y
  <2>1. <<2, 1>> \in before /\ <<1, 2>> \notin before /\ <<1, 1>> \notin before /\ <<2, 2>> \notin before
    BY <1>2, <1>3, <1>5
  <2>2. Sorted(rows, before)[1] = rows[2] /\ Sorted(rows, before)[2] = rows[1]
    BY <2>1, TwoSwapped
  <2>3. QED
    BY <1>1, <1>5, <2>2
<1>6. QED
  BY <1>4, <1>5

LEMMA BoardsTimed ==
    ASSUME ClockInv, ~circular, Timetabled(scenario), ToldOnce(scenario), PassedInv
    PROVE  BoardsAreTimed
<1> DEFINE shown(i) == toldAt(i) \/ (aloneAt(i) /\ expectedAt(i) # NoTime)
<1> SUFFICES ASSUME NEW i \in departsAt
             PROVE  LET board == orderByExpectedDeparture(boardAt(i))
                        ours == shownAt(i)
                    IN /\ shown(i) => board[ours].live = leavesAt(i)
                       /\ ours = 1 <=> leavesAt(i) <= board[3 - ours].scheduled
  BY DEF BoardsAreTimed
<1>1. PICK rows, board, ours : /\ rows = boardAt(i) /\ board = orderByExpectedDeparture(rows)
                               /\ ours = shownAt(i)
  OBVIOUS
<1>2. PICK e \in Int : e = leavesAt(i)
  BY BoardRows
<1>3. PICK b \in Int, x \in Int : b = bookedAt(i) /\ x = bookedAt(i) + Pause - 1 /\ x > b
  <2>1. bookedAt(i) \in Int /\ bookedAt(i) + Pause - 1 \in Int /\ bookedAt(i) + Pause - 1 > bookedAt(i)
    BY BoardTimes
  <2>2. QED
    BY <2>1
<1>4. /\ expectedDeparture(rows[1]) = e /\ rows[1].scheduled = b
      /\ shown(i) => rows[1].live = e
      /\ expectedDeparture(rows[2]) = x /\ rows[2].scheduled = x
  BY <1>1, <1>2, <1>3, BoardRows
<1>5. DOMAIN rows = 1..2 /\ \E X : rows \in Seq(X) /\ Len(rows) = 2
  BY <1>1, BoardIs
<1>6. ours = CHOOSE k \in 1..2 : board[k].scheduled = b
  BY <1>1, <1>3 DEF shownAt
<1> HIDE DEF shown
<1>7. CASE e <= x
  <2>1. board = rows
    BY <1>1, <1>4, <1>5, <1>7, BoardOrder
  <2>2. ours = 1
    BY <1>3, <1>4, <1>6, <2>1
  <2>3. QED
    BY <1>1, <1>2, <1>4, <1>7, <2>1, <2>2
<1>8. CASE e > x
  <2>1. board[1] = rows[2] /\ board[2] = rows[1]
    BY <1>1, <1>4, <1>5, <1>8, BoardOrder
  <2>2. ours = 2
    BY <1>3, <1>4, <1>6, <2>1
  <2>3. shown(i) => board[ours].live = e
    BY <1>4, <2>1, <2>2
  <2>4. ~(e <= board[3 - ours].scheduled)
    BY <1>3, <1>4, <1>8, <2>1, <2>2
  <2>5. QED
    BY <1>1, <1>2, <2>2, <2>3, <2>4
<1>9. QED
  BY <1>2, <1>3, <1>7, <1>8

-----------------------------------------------------------------------------
(* What a view says of a call is that the train was there when it was, or  *)
(* is expected there as it is forecast or booked.                          *)
TimelyAt(c, i) ==
    /\ c.crs = route[i].crs /\ c.scheduled = route[i].time
    /\ c.actualIso # NoTime => i <= at /\ c.actualIso = passed[i]
    /\ c.actual = ukHhmm(c.actualIso)
    /\ c.expectedIso \in {NoTime, expectedAt(i)}
    /\ \/ c.estimatedArrivalIso \in {NoTime, forecastAt(i)}
       \/ c.estimatedArrivalIso = bookedAt(i) /\ i \in acted
Timely(calls) == \A k \in 1..Len(calls) : \E i \in 1..Len(route) : TimelyAt(calls[k], i)

(* And so does a stop of the run, in the bare times of Darwin.             *)
ToldRow(s, i) ==
    /\ s.actual = NoTime \/ (i \in acted /\ s.actual = ukHhmm(passed[i]))
    /\ estimateOf(s) = ukHhmm(forecastAt(i)) \/ (i \in acted /\ estimateOf(s) = route[i].time)
ToldRows(s) == \A k \in 1..Len(known) : ToldRow(s[k], known[k])

(* What was told of the train stays told.                                  *)
LEMMA TimelyStays ==
    ASSUME WorldInv, [Next]_vars
    PROVE  /\ \A calls : Timely(calls) => Timely(calls)'
           /\ \A s : ToldRows(s) => ToldRows(s)'
<1>1. /\ route' = route /\ known' = known /\ acted \subseteq acted'
      /\ at \in Nat /\ at' \in Nat /\ at <= at' /\ \A i \in 1..at : passed'[i] = passed[i]
  BY PlacesStep
<1>2. acted \subseteq 1..at
  BY DEF WorldInv, ClockInv
<1>3. \A i : bookedAt(i)' = bookedAt(i) /\ expectedAt(i)' = expectedAt(i) /\ forecastAt(i)' = forecastAt(i)
  BY <1>1 DEF bookedAt, expectedAt, forecastAt
<1>4. \A c, i : i \in 1..Len(route) /\ TimelyAt(c, i) => TimelyAt(c, i)'
  <2> SUFFICES ASSUME NEW c, NEW i \in 1..Len(route), TimelyAt(c, i) PROVE TimelyAt(c, i)'
    OBVIOUS
  <2>1. c.actualIso # NoTime => i <= at' /\ c.actualIso = passed'[i]
    <3> SUFFICES ASSUME c.actualIso # NoTime PROVE i <= at' /\ c.actualIso = passed'[i]
      OBVIOUS
    <3>1. i <= at /\ c.actualIso = passed[i]
      BY DEF TimelyAt
    <3>2. PICK a \in Nat, b \in Nat : a = at /\ b = at' /\ a <= b
      BY <1>1
    <3>3. i \in 1..a /\ i <= b
      BY <3>1, <3>2
    <3>4. QED
      BY <1>1, <3>1, <3>2, <3>3
  <2>2. QED
    BY <1>1, <1>3, <2>1 DEF TimelyAt
<1>5. \A s, i : ToldRow(s, i) => ToldRow(s, i)'
  <2> SUFFICES ASSUME NEW s, NEW i, ToldRow(s, i) PROVE ToldRow(s, i)'
    OBVIOUS
  <2>1. i \in acted => i \in acted' /\ passed'[i] = passed[i]
    BY <1>1, <1>2
  <2>2. QED
    BY <1>1, <1>3, <2>1 DEF ToldRow
<1>6. \A calls : Timely(calls) => Timely(calls)'
  BY <1>1, <1>4 DEF Timely
<1>7. QED
  BY <1>1, <1>5, <1>6 DEF ToldRows

LEMMA OurRowsAreTold ==
    ASSUME ClockInv, Timetabled(scenario)
    PROVE  ToldRows(ourRun.stops)
<1> SUFFICES ASSUME NEW k \in 1..Len(known) PROVE ToldRow(ourRun.stops[k], known[k])
  BY DEF ToldRows
<1>1. k \in DOMAIN known
  BY KnownFacts, SeqFacts
<1>2. PICK i \in 1..Len(route) : i = known[k]
  BY KnownFacts
<1>2b. PICK r : r = ourRun.stops[k]
  OBVIOUS
<1>3. PICK actual, estimate :
        /\ actual = (IF i \in acted THEN ukHhmm(passed[i]) ELSE NoTime)
        /\ estimate = (IF i \in acted THEN NoTime ELSE ukHhmm(expectedAt(i)))
        /\ r = stopRow(i, actual, estimate)
  BY <1>1, <1>2, <1>2b DEF ourRun
<1>4. PICK N \in Nat, time \in Int : /\ N = Len(route) /\ N > 1 /\ time = route[i].time /\ time # NoTime
                                     /\ route[i].calls \in BOOLEAN
  BY RouteFacts
<1>5. r.actual = actual
  BY <1>3 DEF stopRow
<1>6. i < N \/ i > 1
  BY <1>4
<1>7. estimate = NoTime \/ ~route[i].calls => estimateOf(r) = time
  BY <1>3, <1>4, <1>6 DEF stopRow, estimateOf, orElse
<1>8. estimate # NoTime /\ route[i].calls => estimateOf(r) = estimate
  BY <1>3, <1>4, <1>6 DEF stopRow, estimateOf, orElse
<1>9. CASE i \in acted
  BY <1>2, <1>2b, <1>3, <1>4, <1>5, <1>7, <1>9 DEF ToldRow
<1>10. CASE i \notin acted
  <2>1. expectedAt(i) \in Int /\ ukHhmm(bookedAt(i)) = time
    BY <1>4, ExpectedIsInt, BookedFacts
  <2>2. CASE expectedAt(i) = NoTime
    <3>1. estimate = NoTime
      BY <1>3, <1>10, <2>2 DEF ukHhmm
    <3>2. forecastAt(i) = bookedAt(i)
      BY <2>2 DEF forecastAt, orElse
    <3>3. QED
      BY <1>2, <1>2b, <1>3, <1>5, <1>7, <1>10, <2>1, <3>1, <3>2 DEF ToldRow
  <2>3. CASE expectedAt(i) # NoTime
    <3>1. route[i].calls
      BY <2>3 DEF expectedAt
    <3>2. forecastAt(i) = expectedAt(i)
      BY <2>3 DEF forecastAt, orElse
    <3>3. estimate = ukHhmm(expectedAt(i)) /\ estimate # NoTime
      BY <1>3, <1>10, <2>1, <2>3, InstantReads
    <3>4. QED
      BY <1>2, <1>2b, <1>3, <1>5, <1>8, <1>10, <3>1, <3>2, <3>3 DEF ToldRow
  <2>4. QED
    BY <2>2, <2>3
<1>11. QED
  BY <1>9, <1>10

(* A time that Darwin or LDBWS gives is read back as the instant it is of, *)
(* at a call that the train was reported at and wherever it is booked or   *)
(* forecast.                                                               *)
ActedCall == \A i \in acted : route[i].calls
LEMMA ActedReadsBack ==
    ASSUME ClockInv, Timetabled(scenario), ToldOnce(scenario), PassedInv, ActedCall, NEW i \in acted
    PROVE  /\ i \in 1..at /\ passed[i] \in Int /\ passed[i] # NoTime /\ ukHhmm(passed[i]) # NoTime
           /\ hhmmToIso(ukHhmm(passed[i]), bookedAt(i)) = passed[i]
<1>1. i \in 1..at /\ route[i].calls
  BY DEF ClockInv, ActedCall
<1>2. QED
  BY <1>1, LeftReadsBack

LEMMA ForecastIsRead ==
    ASSUME ClockInv, Timetabled(scenario), ToldOnce(scenario), NEW i \in 1..Len(route)
    PROVE  /\ hhmmToIso(ukHhmm(forecastAt(i)), bookedAt(i)) = forecastAt(i)
           /\ hhmmToIso(route[i].time, bookedAt(i)) = bookedAt(i)
           /\ bookedAt(i) \in Int /\ bookedAt(i) # NoTime
<1>1. PICK b \in Int : b = bookedAt(i) /\ b # NoTime /\ ~ShownTwice(b) /\ ukHhmm(b) = route[i].time
  BY BookedFacts
<1>2. DatedFrom(b, b)
  BY <1>1 DEF DatedFrom, Gap
<1>3. hhmmToIso(ukHhmm(b), b) = b
  BY <1>1, <1>2, TrainViewsAssumption, NearestDay
<1>4. hhmmToIso(ukHhmm(expectedAt(i)), bookedAt(i)) = expectedAt(i)
  BY ForecastReadsBack
<1>5. forecastAt(i) = expectedAt(i) \/ forecastAt(i) = b
  BY <1>1 DEF forecastAt, orElse
<1>6. QED
  BY <1>1, <1>3, <1>4, <1>5

(* The instant the train passed a point is none.                           *)
LEMMA PassedIsTime ==
    ASSUME ClockInv, Timetabled(scenario), PassedInv, NEW i \in 1..at
    PROVE  passed[i] \in Int /\ passed[i] # NoTime /\ i \in 1..Len(route)
<1>1. i \in 1..Len(route)
  <2>1. Len(route) \in Nat /\ at \in Nat /\ at <= Len(route)
    BY RouteFacts DEF ClockInv
  <2>2. QED
    BY <2>1
<1>2. PICK b \in Int : b = bookedAt(i) /\ b # NoTime /\ OnTheClock(b) = clockOf(i)
  BY <1>1, BookedFacts
<1>3. PICK t \in Int : t = passed[i]
  BY DEF ClockInv, at
<1>4. b <= t
  BY <1>2, <1>3 DEF PassedInv, WasThere
<1>5. PICK c \in Nat : c = clockOf(i)
  <2>1. route[i].time \in Int /\ 0 <= route[i].time
    BY <1>1, TimesOfDay
  <2>2. PICK d \in Nat : d = bookedDay(route, i)
    BY TrainViewsAssumption DEF bookedDay
  <2>3. QED
    BY <2>1, <2>2 DEF clockOf
<1>6. londonOffsetMinutes(b) \in {0, 60} /\ c = b + londonOffsetMinutes(b)
  BY <1>2, <1>5, OffsetIs DEF OnTheClock
<1>7. t # NoTime
  BY <1>2, <1>4, <1>6 DEF NoTime
<1>8. QED
  BY <1>1, <1>3, <1>7

(* Calls as they are first dated are of such times.                        *)
LEMMA DatedIsTimely ==
    ASSUME ClockInv, Timetabled(scenario), ToldOnce(scenario), PassedInv, ActedCall,
           NEW calls, IsBooked(calls), NEW anchor,
           \A k \in 1..Len(calls) : \E i \in 1..Len(route) : IsDatedRaw(calls[k], i, anchor)
    PROVE  Timely(calls)
<1> SUFFICES ASSUME NEW k \in 1..Len(calls) PROVE \E i \in 1..Len(route) : TimelyAt(calls[k], i)
  BY DEF Timely
<1>1. PICK i \in 1..Len(route) : IsDatedRaw(calls[k], i, anchor)
  OBVIOUS
<1>1b. PICK c : c = calls[k] /\ IsDatedRaw(c, i, anchor)
  BY <1>1
<1>2. c.crs = route[i].crs /\ c.scheduled = route[i].time
  BY <1>1, <1>1b DEF IsDatedRaw
<1>3. c.scheduledIso = bookedAt(i)
  <2>1. c.scheduledIso = BookedFor(c.scheduled)
    BY <1>1, <1>1b DEF IsBooked
  <2>2. QED
    BY <1>2, <2>1 DEF BookedFor, bookedAt, bookedOn, bookedDay
<1>4. PICK b \in Int : b = bookedAt(i) /\ b # NoTime
  BY ForecastIsRead
<1>5. /\ c.actual \in ActualTexts(i) /\ c.expected \in ForecastTexts(i)
      /\ c.expectedIso = hhmmToIso(c.expected, b) /\ c.actualIso = hhmmToIso(c.actual, b)
      /\ c.estimatedArrivalIso = NoTime
  BY <1>1, <1>1b, <1>3, <1>4 DEF IsDatedRaw, orElse
<1>6. hhmmToIso(NoTime, b) = NoTime /\ ukHhmm(NoTime) = NoTime
  BY DEF hhmmToIso, ukHhmm
<1>7. (c.actualIso # NoTime => i <= at /\ c.actualIso = passed[i]) /\ c.actual = ukHhmm(c.actualIso)
  <2>1. CASE c.actual = NoTime
    BY <1>5, <1>6, <2>1
  <2>2. CASE c.actual # NoTime
    <3>1. i \in acted /\ c.actual = ukHhmm(passed[i])
      BY <1>5, <2>2 DEF ActualTexts
    <3>2. i \in 1..at /\ hhmmToIso(ukHhmm(passed[i]), bookedAt(i)) = passed[i]
      BY <3>1, ActedReadsBack
    <3>3. c.actualIso = passed[i]
      BY <1>4, <1>5, <3>1, <3>2
    <3>4. i <= at
      BY <3>2
    <3>5. QED
      BY <3>1, <3>3, <3>4
  <2>3. QED
    BY <2>1, <2>2
<1>8. c.expectedIso \in {NoTime, expectedAt(i)}
  <2>1. hhmmToIso(ukHhmm(expectedAt(i)), b) = expectedAt(i)
    BY <1>4, ForecastReadsBack
  <2>2. c.expected = NoTime \/ c.expected = ukHhmm(expectedAt(i))
    BY <1>5 DEF ForecastTexts
  <2>3. QED
    BY <1>5, <1>6, <2>1, <2>2
<1>9. TimelyAt(c, i)
  BY <1>2, <1>5, <1>7, <1>8 DEF TimelyAt
<1>10. QED
  BY <1>1, <1>1b, <1>9

-----------------------------------------------------------------------------
(* On a line without a loop a call's place is the point it is of.          *)
LEMMA PlaceIsOne ==
    ASSUME ClockInv, ~circular, NEW i \in 1..Len(route), NEW c,
           c.crs = route[i].crs, c.scheduled = route[i].time
    PROVE  placeOf(c) = i
<1>1. DOMAIN route = 1..Len(route)
  BY RouteFacts, SeqFacts
<1>2. \A j \in 1..Len(route) : route[j].crs = route[i].crs => j = i
  BY <1>1 DEF circular
<1>3. PICK p : p = placeOf(c)
  OBVIOUS
<1>4. p \in 1..Len(route) /\ route[p].crs = c.crs
  BY <1>1, <1>3 DEF placeOf
<1>5. QED
  BY <1>2, <1>3, <1>4

LEMMA LegsTimed ==
    ASSUME ClockInv, Timetabled(scenario), ToldOnce(scenario), PassedInv, ActedCall
    PROVE  LegsAreTimed
<1> SUFFICES ASSUME ~circular, NEW i \in ToSet(known), NEW j \in ToSet(known), i < j,
                    route[i].time >= route[1].time,
                    NEW c \in ToSet(stopForecastLegView(ourRun, route[i].crs, route[j].crs))
             PROVE  legTime(c) = IF placeOf(c) \in acted THEN passed[placeOf(c)] ELSE forecastAt(placeOf(c))
  BY DEF LegsAreTimed
<1>1. PICK leg : leg = stopForecastLegView(ourRun, route[i].crs, route[j].crs)
  OBVIOUS
<1>2. /\ IsCalls(leg) /\ IsBooked(leg)
      /\ \A m \in 1..Len(leg) : \E x \in 1..Len(known) : IsOfStop(leg[m], x)
  BY <1>1, LegIsBooked
<1>3. PICK m \in 1..Len(leg) : c = leg[m]
  <2>1. leg \in Seq(Call)
    BY <1>2 DEF IsCalls
  <2>2. DOMAIN leg = 1..Len(leg)
    BY <2>1, SeqFacts
  <2>3. QED
    BY <1>1, <2>2 DEF ToSet
<1>4. PICK x \in 1..Len(known) : IsOfStop(c, x)
  BY <1>2, <1>3
<1>5. PICK k \in 1..Len(route) : k = known[x]
  BY KnownFacts
<1>5b. PICK r : r = ourRun.stops[x]
  OBVIOUS
<1>6. IsOfPoint(c, k, r)
  BY <1>4, <1>5, <1>5b DEF IsOfStop
<1>7. placeOf(c) = k
  BY <1>6, PlaceIsOne DEF IsOfPoint
<1>8. PICK b \in Int : b = bookedAt(k) /\ b # NoTime
  BY ForecastIsRead
<1>9. c.scheduledIso = b
  BY <1>1, <1>2, <1>7, <1>8, CallIsBookedAt
<1>10. c.expectedIso = hhmmToIso(orElse(r.estDep, r.estArr), b) /\ c.actualIso = hhmmToIso(r.actual, b)
  BY <1>6, <1>8, <1>9 DEF IsOfPoint, orElse
<1>11. hhmmToIso(NoTime, b) = NoTime
  BY DEF hhmmToIso
<1>12. x \in DOMAIN known
  BY KnownFacts, SeqFacts
<1>13. PICK actual, estimate :
         /\ actual = (IF k \in acted THEN ukHhmm(passed[k]) ELSE NoTime)
         /\ estimate = (IF k \in acted THEN NoTime ELSE ukHhmm(expectedAt(k)))
         /\ r = stopRow(k, actual, estimate)
  BY <1>5, <1>5b, <1>12 DEF ourRun
<1>14. r.actual = actual
  BY <1>13 DEF stopRow
<1>15. CASE k \in acted
  <2>1. passed[k] # NoTime /\ hhmmToIso(ukHhmm(passed[k]), b) = passed[k]
    BY <1>8, <1>15, ActedReadsBack
  <2>2. c.actualIso = passed[k]
    BY <1>10, <1>13, <1>14, <1>15, <2>1
  <2>3. QED
    BY <1>7, <1>15, <2>1, <2>2 DEF legTime, orElse
<1>16. CASE k \notin acted
  <2>1. c.actualIso = NoTime
    BY <1>10, <1>11, <1>13, <1>14, <1>16
  <2>2. PICK N \in Nat : N = Len(route) /\ N > 1 /\ route[k].calls \in BOOLEAN
    BY RouteFacts
  <2>3. k < N \/ k > 1
    BY <2>2
  <2>4. route[k].calls => orElse(r.estDep, r.estArr) = estimate
    BY <1>13, <2>2, <2>3 DEF stopRow, orElse
  <2>5. ~route[k].calls => orElse(r.estDep, r.estArr) = NoTime
    BY <1>13, <2>2 DEF stopRow, orElse
  <2>6. hhmmToIso(ukHhmm(expectedAt(k)), b) = expectedAt(k)
    BY <1>8, ForecastReadsBack
  <2>7. ~route[k].calls => expectedAt(k) = NoTime
    BY DEF expectedAt
  <2>8. c.expectedIso = expectedAt(k)
    BY <1>10, <1>11, <1>13, <1>16, <2>2, <2>4, <2>5, <2>6, <2>7
  <2>9. legTime(c) = forecastAt(k)
    BY <1>8, <1>9, <2>1, <2>8 DEF legTime, orElse, forecastAt
  <2>10. QED
    BY <1>7, <1>16, <2>9
<1>17. QED
  BY <1>15, <1>16

(* A call that Darwin's run and its reports speak of is as timely as they  *)
(* are, and marks change no time.                                          *)
LEMMA TimedIsTimely ==
    ASSUME ClockInv, Timetabled(scenario), ToldOnce(scenario), PassedInv, ActedCall, ~circular,
           NEW old \in Seq(Call), IsBooked(old), Timely(old),
           NEW ordered, IsRunStops(ordered), ToldRows(ordered),
           NEW trust, HeardOn(trust, ordered), NEW when \in Int,
           NEW timed, timed = withTimes(old, ordered, trust, when)
    PROVE  Timely(timed)
<1>1. /\ SameCalls(timed, old)
      /\ \A m \in 1..Len(old) : TimedOf(timed[m], old[m], ordered, trust, when)
  BY TimedCalls
<1>2. Len(timed) = Len(old) /\ \A m \in 1..Len(old) : timed[m].crs = old[m].crs /\ timed[m].scheduled = old[m].scheduled
  BY <1>1 DEF SameCalls
<1> SUFFICES ASSUME NEW m \in 1..Len(old) PROVE \E i \in 1..Len(route) : TimelyAt(timed[m], i)
  BY <1>2 DEF Timely
<1>3. PICK i \in 1..Len(route) : TimelyAt(old[m], i)
  BY DEF Timely
<1>4. CASE timed[m] = old[m]
  BY <1>3, <1>4
<1>5. CASE \E k \in 1..Len(ordered) :
             /\ ordered[k].crs = old[m].crs
             /\ IsTimed(timed[m], old[m], ordered[k], reportFor(trust, k), when)
  <2>1. PICK k \in 1..Len(ordered) : /\ ordered[k].crs = old[m].crs
                                     /\ IsTimed(timed[m], old[m], ordered[k], reportFor(trust, k), when)
    BY <1>5
  <2>2. PICK new, c, d, report : /\ new = timed[m] /\ c = old[m] /\ d = ordered[k]
                                 /\ report = reportFor(trust, k)
    OBVIOUS
  <2>3. IsTimed(new, c, d, report, when) /\ TimelyAt(c, i) /\ d.crs = c.crs
    BY <1>3, <2>1, <2>2
  <2>4. new.crs = c.crs /\ new.scheduled = c.scheduled
    BY <1>2, <2>2
  <2>5. DOMAIN route = 1..Len(route)
    BY RouteFacts, SeqFacts
  <2>6. \A j \in 1..Len(route) : route[j].crs = route[i].crs => j = i
    BY <2>5 DEF circular
  <2>7. k \in 1..Len(known) /\ known[k] = i
    <3>1. k \in 1..Len(known) /\ d.crs = route[known[k]].crs
      BY <2>2 DEF IsRunStops
    <3>2. known[k] \in 1..Len(route)
      BY <3>1, KnownFacts
    <3>3. QED
      BY <2>3, <2>6, <3>1, <3>2 DEF TimelyAt
  <2>8. ToldRow(d, i)
    BY <2>2, <2>7 DEF ToldRows
  <2>9. PICK b \in Int : b = bookedAt(i) /\ b # NoTime
    BY ForecastIsRead
  <2>10. c.scheduledIso = b
    <3>1. c.scheduledIso = BookedFor(c.scheduled)
      BY <2>2 DEF IsBooked
    <3>2. QED
      BY <2>3, <2>9, <3>1 DEF TimelyAt, BookedFor, bookedAt, bookedOn, bookedDay
  <2>11. /\ new.expectedIso = c.expectedIso
         /\ new.actual = orElse(ukHhmm(report), orElse(d.actual, c.actual))
         /\ new.actualIso = orElse(report, orElse(hhmmToIso(d.actual, b), c.actualIso))
         /\ new.estimatedArrivalIso = hhmmToIso(estimateOf(d), b)
    BY <2>3, <2>9, <2>10 DEF IsTimed, orElse
  <2>12. hhmmToIso(NoTime, b) = NoTime /\ ukHhmm(NoTime) = NoTime
    BY DEF hhmmToIso, ukHhmm
  <2>13. new.estimatedArrivalIso = forecastAt(i) \/ (new.estimatedArrivalIso = b /\ i \in acted)
    <3>1. hhmmToIso(ukHhmm(forecastAt(i)), b) = forecastAt(i) /\ hhmmToIso(route[i].time, b) = b
      BY <2>9, ForecastIsRead
    <3>2. QED
      BY <2>8, <2>11, <3>1 DEF ToldRow
  <2>14. (new.actualIso # NoTime => i <= at /\ new.actualIso = passed[i]) /\ new.actual = ukHhmm(new.actualIso)
    <3>1. CASE report # NoTime
      <4>1. wasThere(<<d.crs, report>>)
        BY <2>2, <3>1, ReportIsHeard
      <4>2. PICK j \in 1..at : <<d.crs, report>> = <<route[j].crs, passed[j]>>
        BY <4>1 DEF wasThere
      <4>3. d.crs = route[j].crs /\ report = passed[j]
        BY <4>2
      <4>4. report \in Int /\ j \in 1..Len(route)
        BY <4>3, PassedIsTime
      <4>5. j = i
        BY <2>3, <2>6, <4>3, <4>4 DEF TimelyAt
      <4>6. ukHhmm(report) # NoTime
        BY <3>1, <4>4, InstantReads
      <4>7. new.actualIso = report /\ new.actual = ukHhmm(report)
        BY <2>11, <3>1, <4>6 DEF orElse
      <4>8. i <= at
        BY <4>5
      <4>9. QED
        BY <4>3, <4>5, <4>7, <4>8
    <3>2. CASE report = NoTime /\ d.actual # NoTime
      <4>1. i \in acted /\ d.actual = ukHhmm(passed[i])
        BY <2>8, <3>2 DEF ToldRow
      <4>2. i \in 1..at /\ passed[i] # NoTime /\ hhmmToIso(d.actual, b) = passed[i]
        BY <2>9, <4>1, ActedReadsBack
      <4>3. new.actualIso = passed[i] /\ new.actual = ukHhmm(passed[i])
        BY <2>11, <2>12, <3>2, <4>1, <4>2 DEF orElse
      <4>4. i <= at
        BY <4>2
      <4>5. QED
        BY <4>3, <4>4
    <3>3. CASE report = NoTime /\ d.actual = NoTime
      <4>1. new.actualIso = c.actualIso /\ new.actual = c.actual
        BY <2>11, <2>12, <3>3 DEF orElse
      <4>2. QED
        BY <2>3, <4>1 DEF TimelyAt
    <3>4. QED
      BY <3>1, <3>2, <3>3
  <2>15. TimelyAt(new, i)
    BY <2>3, <2>4, <2>9, <2>11, <2>13, <2>14 DEF TimelyAt
  <2>16. QED
    BY <2>2, <2>15
<1>6. QED
  BY <1>1, <1>4, <1>5 DEF TimedOf

LEMMA MarkedIsTimely ==
    ASSUME NEW calls \in Seq(Call), Timely(calls), NEW marks
    PROVE  Timely(withProgress(calls, marks))
<1>1. Len(calls) \in Nat /\ DOMAIN calls = 1..Len(calls)
  BY SeqFacts
<1>2. PICK new : new = [m \in 1..Len(calls) |-> [calls[m] EXCEPT !.progress = marks[m]]]
  OBVIOUS
<1>3. withProgress(calls, marks) = new /\ Len(new) = Len(calls)
  BY <1>1, <1>2 DEF withProgress
<1>4. \A m \in 1..Len(calls) : /\ new[m].crs = calls[m].crs /\ new[m].scheduled = calls[m].scheduled
                               /\ SameTimes(new[m], calls[m])
  <2> SUFFICES ASSUME NEW m \in 1..Len(calls)
               PROVE  /\ new[m].crs = calls[m].crs /\ new[m].scheduled = calls[m].scheduled
                      /\ SameTimes(new[m], calls[m])
    OBVIOUS
  <2>1. new[m] = [calls[m] EXCEPT !.progress = marks[m]]
    BY <1>2
  <2>2. calls[m] \in Call
    OBVIOUS
  <2>3. QED
    BY <2>1, <2>2 DEF Call, SameTimes
<1>5. \A m \in 1..Len(calls), i \in 1..Len(route) : TimelyAt(calls[m], i) => TimelyAt(new[m], i)
  BY <1>4 DEF TimelyAt, SameTimes
<1>6. Timely(new)
  BY <1>3, <1>5 DEF Timely
<1>7. QED
  BY <1>3, <1>6

(* What the page has read and shows of our train is timely, where its      *)
(* times can be told.                                                      *)
LoadTimely(l) == Timely(l.calls) /\ (l.darwin.rid \in {Ours, NoRid} => Timely(l.darwin.calls))
PageTimely(query, l, p) ==
    /\ query # "idle" => LoadTimely(l)
    /\ query \in {"history", "position"} /\ l.rid = Ours => ToldRows(l.ordered)
    /\ p.rid \in {Ours, NoRid} => Timely(p.calls)
Told == Timetabled(scenario) /\ ToldOnce(scenario) /\ ~circular
TimelyInv == ActedCall /\ (Told => PageTimely(pc, load, page))

LEMMA InitTimely == ASSUME Init PROVE TimelyInv
<1>1. acted = {} /\ pc = "idle" /\ page = Nothing
  BY DEF Init
<1>2. page.calls = <<>>
  BY <1>1 DEF Nothing
<1>3. Timely(<<>>)
  BY DEF Timely
<1>4. PageTimely(pc, load, page)
  BY <1>1, <1>2, <1>3 DEF PageTimely
<1>5. QED
  BY <1>1, <1>4 DEF TimelyInv, ActedCall

(* Darwin reports on calls only.                                           *)
LEMMA ActedStay ==
    ASSUME ViewsInv, ActedCall, [Next]_vars
    PROVE  ActedCall'
<1>1. route' = route
  BY PlacesStep DEF ViewsInv
<1>2. CASE acted' = acted
  BY <1>1, <1>2 DEF ActedCall
<1>3. CASE Move
  <2>1. PICK i : i = at + 1
    OBVIOUS
  <2>2. acted' = acted \/ (route[i].calls /\ acted' = acted \cup {i})
    <3>1. PICK feeds, lost :
            /\ feeds = {"trust", "td"} \cup (IF route[i].calls /\ route[i].known THEN {"darwin"} ELSE {})
            /\ acted' = IF "darwin" \in feeds \ lost THEN acted \cup {i} ELSE acted
      BY <1>3, <2>1 DEF Move
    <3>2. "darwin" \in feeds => route[i].calls
      BY <3>1
    <3>3. QED
      BY <3>1, <3>2
  <2>3. QED
    BY <1>1, <2>2 DEF ActedCall
<1>4. CASE \E crs \in StrayAt \cap {p.crs : p \in ToSet(route)}, headcode \in {Headcode, "2B02"} :
             Stray(crs, headcode)
  <2>1. PICK crs, headcode : Stray(crs, headcode)
    BY <1>4
  <2>2. acted' = acted
    BY <2>1 DEF Stray
  <2>3. QED
    BY <1>2, <2>2
<1>5. CASE Held \/ Deactivate
  <2>1. acted' = acted
    BY <1>5 DEF Held, Deactivate
  <2>2. QED
    BY <1>2, <2>1
<1>6. CASE LoadRuns \/ LoadHistory \/ LoadPosition \/ LoadDescriber \/ UNCHANGED vars
  <2>1. acted' = acted
    BY <1>6 DEF LoadRuns, LoadHistory, LoadPosition, LoadDescriber, vars, world
  <2>2. QED
    BY <1>2, <2>1
<1>7. QED
  BY <1>3, <1>4, <1>5, <1>6 DEF Next

(* A step keeps the page timely if what it reads is.                       *)
LEMMA PageStaysTimely ==
    ASSUME ViewsInv, ActedCall, [Next]_vars, Told => PageTimely(pc', load', page')
    PROVE  TimelyInv'
<1>1. WorldInv
  BY DEF ViewsInv
<1>2. scenario' = scenario /\ (circular' <=> circular)
  BY <1>1, PlacesStep
<1>3. Told' => Told
  BY <1>2 DEF Told
<1>4. /\ \A calls : Timely(calls) => Timely(calls)'
      /\ \A s : ToldRows(s) => ToldRows(s)'
  BY <1>1, TimelyStays
<1>5. PICK query, l, p : query = pc' /\ l = load' /\ p = page'
  OBVIOUS
<1>6. PageTimely(query, l, p) => PageTimely(query, l, p)'
  BY <1>4 DEF PageTimely, LoadTimely
<1>7. Told' => PageTimely(pc, load, page)'
  BY <1>3, <1>5, <1>6
<1>8. ActedCall'
  BY ActedStay
<1>9. QED
  BY <1>7, <1>8 DEF TimelyInv

LEMMA LoadRunsTimely ==
    ASSUME ViewsInv, DatesInv, PassedInv, TimelyInv, LoadRuns
    PROVE  TimelyInv'
<1> DEFINE calls == IF scenario.byRid THEN fetchCallsByRid(ourRun) ELSE parseCallingPattern(boardService).calls
           keys == callKeys(calls)
           candidates == loadCandidateRuns({k[1] : k \in keys}, runs, now)
           rid == pickBestRun(candidates, keys, now)
           picked == (CHOOSE r \in candidates : r.rid = rid).stops
           ordered == IF rid = NoRun THEN <<>> ELSE withCrs(orderRunStops(picked))
           darwin == [calls |-> calls, rid |-> NoRid,
                      progress |-> [NotTracking EXCEPT !.positionState = "awaiting-report"]]
           new == [calls |-> calls, rid |-> IF rid = NoRun THEN NoRid ELSE rid, since |-> now,
                   ordered |-> ordered, trust |-> <<>>, darwin |-> darwin]
<1>1. load' = new /\ pc' = (IF rid = NoRun THEN "describer" ELSE "history") /\ page' = page
  BY DEF LoadRuns
<1>2. WorldInv /\ ClockInv /\ [Next]_vars /\ ActedCall
  BY DEF ViewsInv, WorldInv, Next, TimelyInv
<1>3. \A r \in candidates : r \in runs
  BY DEF loadCandidateRuns
<1>4. /\ new.calls = calls /\ new.rid = (IF rid = NoRun THEN NoRid ELSE rid) /\ new.ordered = ordered
      /\ new.darwin.calls = calls
  OBVIOUS
<1>5. rid # NoRun => \E r \in candidates : r.rid = rid
  <2> HIDE DEF candidates, keys
  <2>1. QED
    BY PickedIsOne
<1>6. SUFFICES ASSUME Told PROVE PageTimely(pc', load', page')
  BY <1>2, PageStaysTimely
<1>7. Timetabled(scenario) /\ ToldOnce(scenario) /\ ~circular
  BY <1>6 DEF Told
<1>8. Timely(calls)
  <2>1. LatenessInv
    BY <1>7 DEF DatesInv
  <2>2. CASE scenario.byRid
    <3>1. PICK c : c = fetchCallsByRid(ourRun)
      OBVIOUS
    <3>2. IsBooked(c) /\ \A k \in 1..Len(c) : \E i \in 1..Len(route) : IsDatedRaw(c[k], i, serviceDateAnchor(Ssd))
      BY <1>2, <1>7, <2>2, <3>1, RidIsBooked, RidCallsAre
    <3>3. Timely(c)
      BY <1>2, <1>7, <3>2, DatedIsTimely
    <3>4. QED
      BY <2>2, <3>1, <3>3
  <2>3. CASE ~scenario.byRid
    <3>1. PICK c : c = parseCallingPattern(boardService).calls
      OBVIOUS
    <3>2. IsBooked(c) /\ \A k \in 1..Len(c) : \E i \in 1..Len(route) : IsDatedRaw(c[k], i, now)
      BY <1>2, <1>7, <2>1, <3>1, BoardIsBooked, BoardCallsAre
    <3>3. Timely(c)
      BY <1>2, <1>7, <3>2, DatedIsTimely
    <3>4. QED
      BY <2>3, <3>1, <3>3
  <2>4. QED
    BY <2>2, <2>3
<1>9. rid # NoRun /\ rid = Ours => ToldRows(ordered)
  <2> SUFFICES ASSUME rid # NoRun, rid = Ours PROVE ToldRows(ordered)
    OBVIOUS
  <2>1. PICK r \in candidates : r.rid = rid /\ picked = r.stops
    <3>1. PICK r : r = CHOOSE x \in candidates : x.rid = rid
      OBVIOUS
    <3> HIDE DEF candidates, rid
    <3>2. r \in candidates /\ r.rid = rid
      BY <1>5, <3>1
    <3>3. QED
      BY <3>1, <3>2
  <2>2. ordered = withCrs(orderRunStops(picked))
    OBVIOUS
  <2> HIDE DEF candidates, rid, picked, ordered
  <2>3. r \in runs
    BY <1>3, <2>1
  <2>4. r = ourRun
    BY <1>2, <2>1, <2>3, RunNames
  <2>5. PICK s : s = r.stops
    OBVIOUS
  <2>6. withCrs(s) = s /\ orderRunStops(s) = s
    BY <1>2, <2>3, <2>5, RunStops, RunStopsInOrder
  <2>7. ToldRows(s)
    BY <1>2, <1>7, <2>4, <2>5, OurRowsAreTold
  <2>8. QED
    BY <2>1, <2>2, <2>5, <2>6, <2>7
<1> HIDE DEF calls, keys, candidates, rid, picked, ordered, darwin, new
<1>10. PICK l : l = new
  OBVIOUS
<1>11. LoadTimely(l)
  BY <1>4, <1>8, <1>10 DEF LoadTimely
<1>12. page.rid \in {Ours, NoRid} => Timely(page.calls)
  BY <1>6 DEF TimelyInv, PageTimely
<1>13. pc' \in {"history", "position"} /\ l.rid = Ours => ToldRows(l.ordered)
  BY <1>1, <1>4, <1>9, <1>10
<1>14. PageTimely(pc', l, page)
  BY <1>11, <1>12, <1>13 DEF PageTimely
<1>15. QED
  BY <1>1, <1>10, <1>14

LEMMA LoadHistoryTimely ==
    ASSUME ViewsInv, TimelyInv, LoadHistory
    PROVE  TimelyInv'
<1>1. PageInv /\ [Next]_vars /\ ActedCall
  BY DEF ViewsInv, Next, TimelyInv
<1>2. LoadInv(load) /\ pc = "history" /\ page' = page
  BY <1>1 DEF LoadHistory, PageInv
<1>3. PICK trust : trust = trustProgressForRid(load.rid, history, load.ordered, now)
  OBVIOUS
<1>4. PICK l : l = load
  OBVIOUS
<1>5. PICK m : m = [l EXCEPT !.trust = trust]
  OBVIOUS
<1>6. load' = m
  BY <1>3, <1>4, <1>5 DEF LoadHistory
<1>7. m.calls = l.calls /\ m.darwin = l.darwin /\ m.rid = l.rid /\ m.ordered = l.ordered
  <2>1. PICK calls, rid, since, ordered, before, darwin :
          l = [calls |-> calls, rid |-> rid, since |-> since, ordered |-> ordered,
               trust |-> before, darwin |-> darwin]
    BY <1>2, <1>4 DEF LoadInv, IsLoad
  <2>2. m = [calls |-> calls, rid |-> rid, since |-> since, ordered |-> ordered,
             trust |-> trust, darwin |-> darwin]
    BY <1>5, <2>1
  <2>3. QED
    BY <2>1, <2>2
<1>8. SUFFICES ASSUME Told PROVE PageTimely(pc', load', page')
  BY <1>1, PageStaysTimely
<1>9. /\ LoadTimely(l) /\ (l.rid = Ours => ToldRows(l.ordered))
      /\ page.rid \in {Ours, NoRid} => Timely(page.calls)
  BY <1>2, <1>4, <1>8 DEF TimelyInv, PageTimely
<1>10. PageTimely(pc', m, page)
  BY <1>7, <1>9 DEF PageTimely, LoadTimely
<1>11. QED
  BY <1>2, <1>6, <1>10

LEMMA LoadPositionTimely ==
    ASSUME ViewsInv, DatesInv, PassedInv, TimelyInv, LoadPosition
    PROVE  TimelyInv'
<1>1. PageInv /\ ClockInv /\ [Next]_vars /\ ActedCall
  BY DEF ViewsInv, WorldInv, Next, TimelyInv
<1>2. LoadInv(load) /\ pc = "position" /\ pc' = "describer" /\ page' = page
  BY <1>1 DEF LoadPosition, PageInv
<1>3. PICK nr : nr = nrPositionForRid(load.rid, headcodeOf(load.rid),
                                      {c.crs : c \in ToSet(load.calls)} \ {""}, positions, now)
  OBVIOUS
<1>4. PICK l : l = load
  OBVIOUS
<1>5. PICK d : d = enrichWithDarwinProgress(l.rid, l.calls, l.ordered, l.trust, nr, l.since)
  OBVIOUS
<1>6. PICK m : m = [l EXCEPT !.darwin = d]
  OBVIOUS
<1>7. load' = m
  BY <1>3, <1>4, <1>5, <1>6 DEF LoadPosition
<1>8. m.calls = l.calls /\ m.darwin = d
  <2>1. PICK calls, rid, since, ordered, trust, before :
          l = [calls |-> calls, rid |-> rid, since |-> since, ordered |-> ordered,
               trust |-> trust, darwin |-> before]
    BY <1>2, <1>4 DEF LoadInv, IsLoad
  <2>2. m = [calls |-> calls, rid |-> rid, since |-> since, ordered |-> ordered,
             trust |-> trust, darwin |-> d]
    BY <1>6, <2>1
  <2>3. QED
    BY <2>1, <2>2
<1>9. d.rid = l.rid
  BY <1>5 DEF enrichWithDarwinProgress
<1>10. PICK timed : timed = withTimes(l.calls, l.ordered, l.trust, l.since)
  OBVIOUS
<1>11. PICK marks : d.calls = withProgress(timed, marks)
  BY <1>5, <1>10 DEF enrichWithDarwinProgress
<1>12. PICK calls \in Seq(Call) : calls = l.calls
  BY <1>2, <1>4 DEF LoadInv, IsCalls
<1>13. SUFFICES ASSUME Told PROVE PageTimely(pc', load', page')
  BY <1>1, PageStaysTimely
<1>14. Timetabled(scenario) /\ ToldOnce(scenario) /\ ~circular
  BY <1>13 DEF Told
<1>15. IsBooked(calls)
  BY <1>2, <1>4, <1>12, <1>14 DEF DatesInv, LoadBooked
<1>16. /\ Timely(calls) /\ (l.rid = Ours => ToldRows(l.ordered))
       /\ page.rid \in {Ours, NoRid} => Timely(page.calls)
  BY <1>2, <1>4, <1>12, <1>13 DEF TimelyInv, PageTimely, LoadTimely
<1>17. IsRunStops(l.ordered) /\ HeardOn(l.trust, l.ordered) /\ l.since \in Int /\ l.rid # NoRid
  BY <1>1, <1>2, <1>4 DEF PageInv, MatchedInv, LoadInv
<1>18. l.rid = Ours => timed \in Seq(Call) /\ Timely(timed)
  <2> SUFFICES ASSUME l.rid = Ours PROVE timed \in Seq(Call) /\ Timely(timed)
    OBVIOUS
  <2>1. PICK ordered, trust, when : ordered = l.ordered /\ trust = l.trust /\ when = l.since
    OBVIOUS
  <2>2. timed = withTimes(calls, ordered, trust, when)
    BY <1>10, <1>12, <2>1
  <2>3. IsRunStops(ordered) /\ ToldRows(ordered) /\ HeardOn(trust, ordered) /\ when \in Int
    BY <1>16, <1>17, <2>1
  <2>4. timed \in Seq(Call)
    BY <1>1, <1>15, <2>2, <2>3, TimedIsBooked
  <2>5. Timely(timed)
    BY <1>1, <1>14, <1>15, <1>16, <2>2, <2>3, TimedIsTimely
  <2>6. QED
    BY <2>4, <2>5
<1>19. d.rid \in {Ours, NoRid} => Timely(d.calls)
  BY <1>9, <1>11, <1>17, <1>18, MarkedIsTimely
<1>20. LoadTimely(m)
  BY <1>8, <1>12, <1>16, <1>19 DEF LoadTimely
<1>21. PageTimely(pc', m, page)
  BY <1>2, <1>16, <1>20 DEF PageTimely
<1>22. QED
  BY <1>2, <1>7, <1>21

LEMMA LoadDescriberTimely ==
    ASSUME ViewsInv, TimelyInv, LoadDescriber
    PROVE  TimelyInv'
<1>1. PageInv /\ [Next]_vars /\ ActedCall
  BY DEF ViewsInv, Next, TimelyInv
<1>2. LoadInv(load) /\ pc # "idle" /\ pc' = "idle"
  BY <1>1 DEF LoadDescriber, PageInv
<1>3. PICK knownRid : knownRid = (IF scenario.byRid THEN Ours ELSE NoRid)
  OBVIOUS
<1>4. PICK rid : rid = (IF load.darwin.rid # NoRid THEN load.darwin.rid ELSE knownRid)
  OBVIOUS
<1>5. PICK d : d = load.darwin
  OBVIOUS
<1>6. PICK headcode : headcode = headcodeOf(rid)
  OBVIOUS
<1>7. PICK nr : nr = enrichWithNrProgress(d.calls, headcode, positions, now)
  OBVIOUS
<1>8. PICK p : p = enrichLiveProgress(d, knownRid, nr)
  OBVIOUS
<1>9. page' = p
  BY <1>3, <1>4, <1>5, <1>6, <1>7, <1>8 DEF LoadDescriber
<1>10. PICK calls \in Seq(Call) : calls = d.calls
  BY <1>2, <1>5 DEF LoadInv, DarwinInv, Agrees, IsCalls
<1>11. nr = NoMatch \/ \E marks : nr.calls = withProgress(calls, marks)
  BY <1>7, <1>10 DEF enrichWithNrProgress
<1>12. p.calls = calls \/ \E marks : p.calls = withProgress(calls, marks)
  <2>1. p.calls = d.calls \/ (nr # NoMatch /\ p.calls = nr.calls)
    BY <1>8 DEF enrichLiveProgress
  <2>2. QED
    BY <1>10, <1>11, <2>1
<1>13. p.rid = rid
  BY <1>4, <1>5, <1>8 DEF enrichLiveProgress
<1>14. SUFFICES ASSUME Told PROVE PageTimely(pc', load', page')
  BY <1>1, PageStaysTimely
<1>15. d.rid \in {Ours, NoRid} => Timely(calls)
  BY <1>2, <1>5, <1>10, <1>14 DEF TimelyInv, PageTimely, LoadTimely
<1>16. PICK shown : shown = p.calls
  OBVIOUS
<1>17. p.rid \in {Ours, NoRid} => Timely(shown)
  <2> SUFFICES ASSUME p.rid \in {Ours, NoRid} PROVE Timely(shown)
    OBVIOUS
  <2>1. d.rid \in {Ours, NoRid}
    BY <1>3, <1>4, <1>5, <1>13
  <2>2. \A marks : Timely(withProgress(calls, marks))
    BY <1>15, <2>1, MarkedIsTimely
  <2>3. QED
    BY <1>12, <1>15, <1>16, <2>1, <2>2
<1>18. PageTimely("idle", load', p)
  BY <1>16, <1>17 DEF PageTimely
<1>19. QED
  BY <1>2, <1>9, <1>18

LEMMA StepTimely ==
    ASSUME ViewsInv, DatesInv, PassedInv, TimelyInv, [Next]_vars
    PROVE  TimelyInv'
<1>1. CASE pc' = pc /\ load' = load /\ page' = page
  <2>1. ActedCall /\ (Told => PageTimely(pc', load', page'))
    BY <1>1 DEF TimelyInv
  <2>2. QED
    BY <2>1, PageStaysTimely
<1>2. CASE Move \/ Held \/ Deactivate \/ UNCHANGED vars
  <2>1. pc' = pc /\ load' = load /\ page' = page
    BY <1>2 DEF Move, Held, Deactivate, vars
  <2>2. QED
    BY <1>1, <2>1
<1>3. CASE \E crs \in StrayAt \cap {p.crs : p \in ToSet(route)}, headcode \in {Headcode, "2B02"} :
             Stray(crs, headcode)
  <2>1. PICK crs, headcode : Stray(crs, headcode)
    BY <1>3
  <2>2. pc' = pc /\ load' = load /\ page' = page
    BY <2>1 DEF Stray
  <2>3. QED
    BY <1>1, <2>2
<1>4. CASE LoadRuns
  BY <1>4, LoadRunsTimely
<1>5. CASE LoadHistory
  BY <1>5, LoadHistoryTimely
<1>6. CASE LoadPosition
  BY <1>6, LoadPositionTimely
<1>7. CASE LoadDescriber
  BY <1>7, LoadDescriberTimely
<1>8. QED
  BY <1>2, <1>3, <1>4, <1>5, <1>6, <1>7 DEF Next

(* So each call of the page says what is so of its place.                  *)
LEMMA PageTimed ==
    ASSUME ViewsInv, TimelyInv, Timetabled(scenario), ToldOnce(scenario)
    PROVE  PageIsTimed
<1> SUFFICES ASSUME ~circular, page.rid \in {Ours, NoRid}, NEW c \in ToSet(page.calls)
             PROVE  LET i == placeOf(c)
                    IN /\ c.actualIso # NoTime => i <= at /\ c.actualIso = passed[i]
                       /\ c.actual = ukHhmm(c.actualIso)
                       /\ c.expectedIso \in {NoTime, expectedAt(i)}
                       /\ \/ c.estimatedArrivalIso \in {NoTime, forecastAt(i)}
                          \/ c.estimatedArrivalIso = bookedAt(i) /\ i \in acted
  BY DEF PageIsTimed
<1>1. ClockInv /\ ShownInv(page)
  BY DEF ViewsInv, WorldInv, PageInv
<1>2. PICK calls \in Seq(Call) : calls = page.calls
  BY <1>1 DEF ShownInv, Agrees, IsCalls
<1>3. Timely(calls)
  BY <1>2 DEF TimelyInv, PageTimely, Told
<1>4. PICK k \in 1..Len(calls) : c = calls[k]
  <2>1. DOMAIN calls = 1..Len(calls)
    BY SeqFacts
  <2>2. QED
    BY <1>2, <2>1 DEF ToSet
<1>5. PICK i \in 1..Len(route) : TimelyAt(c, i)
  BY <1>3, <1>4 DEF Timely
<1>6. placeOf(c) = i
  BY <1>1, <1>5, PlaceIsOne DEF TimelyAt
<1>7. QED
  BY <1>5, <1>6 DEF TimelyAt

LEMMA InitPassed == ASSUME Init PROVE PassedInv
<1>1. passed = <<>> /\ at = 0
  BY DEF Init, at
<1>2. QED
  BY <1>1 DEF PassedInv

(* Where besides a portion goes on behind the point where it leaves, and no*)
(* train is late in the hour that the clocks go through twice, the times   *)
(* of a portion (parseCallingPattern of service-details.ts) mean the       *)
(* instants they are of, and on a line without a loop so do all the times  *)
(* that are shown: a call of the page is said to have been reached at the  *)
(* instant it was, and to be expected when it is forecast or booked, by    *)
(* LDBWS, Darwin and TRUST alike (enrichWithDarwinProgress of              *)
(* service-progress.ts); a leg of a run starts and ends when the train was *)
(* there or is expected (stopForecastLegView); and on a board Darwin's     *)
(* departure, actual or else estimated, is put on the row of its minute    *)
(* only (enrichBoardWithDarwin of darwin-board.ts), read back as the       *)
(* instant it means, and sorted behind a train booked before then          *)
(* (orderByExpectedDeparture of board-order.ts).                           *)
THEOREM TimesAreRight ==
    Spec => [](Timetabled(scenario) /\ Divided(scenario) /\ ToldOnce(scenario) =>
                 PortionsAreDated /\ (~circular => TimesAreBooked))
<1>1. Init => DatesInv /\ PassedInv /\ TimelyInv
  BY InitDates, InitPassed, InitTimely
<1>2. ViewsInv /\ ViewsInv' /\ DatesInv /\ [Next]_vars => DatesInv'
  BY StepDates
<1>3. ViewsInv /\ ViewsInv' /\ DatesInv' /\ PassedInv /\ [Next]_vars => PassedInv'
  BY StepPassed
<1>4. ViewsInv /\ DatesInv /\ PassedInv /\ TimelyInv /\ [Next]_vars => TimelyInv'
  BY StepTimely
<1>5. ViewsInv /\ DatesInv /\ PassedInv /\ TimelyInv =>
        (Timetabled(scenario) /\ Divided(scenario) /\ ToldOnce(scenario) =>
           PortionsAreDated /\ (~circular => PageIsTimed /\ LegsAreTimed /\ BoardsAreTimed))
  <2> SUFFICES ASSUME ViewsInv, DatesInv, PassedInv, TimelyInv,
                      Timetabled(scenario), Divided(scenario), ToldOnce(scenario)
               PROVE  PortionsAreDated /\ (~circular => PageIsTimed /\ LegsAreTimed /\ BoardsAreTimed)
    OBVIOUS
  <2>1. ClockInv /\ LatenessInv /\ ActedCall
    BY DEF ViewsInv, WorldInv, DatesInv, TimelyInv
  <2>2. PortionsAreDated
    BY <2>1, PortionsDated
  <2>3. PageIsTimed
    BY PageTimed
  <2>4. LegsAreTimed
    BY <2>1, LegsTimed
  <2>5. ~circular => BoardsAreTimed
    BY <2>1, BoardsTimed
  <2>6. QED
    BY <2>2, <2>3, <2>4, <2>5
<1>6. TimesAreBooked <=> /\ PageIsDated /\ PageIsTimed /\ LegsAreDated /\ LegsAreTimed
                       /\ PortionsAreDated /\ BoardsAreTimed
  BY DEF TimesAreBooked
<1>7. QED
  BY <1>1, <1>2, <1>3, <1>4, <1>5, <1>6, PageIsReported, TimesAreDated, PTL DEF Spec
=============================================================================
