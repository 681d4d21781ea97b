------------------------- MODULE DarwinIngestProofs -------------------------
(***************************************************************************)
(* Proofs about the darwin-ingest service.                                 *)
(*                                                                         *)
(* DarwinTrain, for any route, any timed stops and any chunk sizes of the  *)
(* prune: status messages in any order leave each stop with its newest     *)
(* forecast, and the stops of a run that stays within one day in the order *)
(* of their booked times.                                                  *)
(*                                                                         *)
(* Alerts, for any commutes, trains and kinds of event: an alert is        *)
(* published and pushed once, no match of an event is passed over, and     *)
(* only a fault keeps an alert silent.                                     *)
(***************************************************************************)
EXTENDS DarwinTrain, Alerts, FiniteSetTheorems, WellFoundedInduction, TLAPS

-----------------------------------------------------------------------------
(* Finite sets of integers have a largest and a smallest element.          *)

LEMMA FiniteHasLargest ==
    ASSUME NEW S \in SUBSET Int, IsFiniteSet(S), S # {}
    PROVE  \E x \in S : \A y \in S : y <= x
<1> DEFINE Bad == {T \in FiniteSubsetsOf(Int) :
                      T # {} /\ ~ \E x \in T : \A y \in T : y <= x}
           R == StrictSubsetOrdering(Int)
<1>1. SUFFICES ASSUME S \in Bad PROVE FALSE
  BY DEF FiniteSubsetsOf
<1>2. IsWellFoundedOn(R, FiniteSubsetsOf(Int))
  BY FS_StrictSubsetOrderingWellFounded
<1>3. Bad \subseteq FiniteSubsetsOf(Int) /\ Bad # {}
  BY <1>1
<1> HIDE DEF Bad, R
<1>4. PICK T \in Bad : \A U \in Bad : <<U, T>> \notin R
  BY <1>2, <1>3, WFMin
<1>5. T \in SUBSET Int /\ IsFiniteSet(T) /\ T # {} /\ ~ \E x \in T : \A y \in T : y <= x
  BY <1>4 DEF Bad, FiniteSubsetsOf
<1>6. PICK a \in T : TRUE
  BY <1>5
<1> DEFINE U == T \ {a}
<1>7. IsFiniteSet(U) /\ U \in SUBSET Int /\ U \subseteq T /\ U # T
  BY <1>5, <1>6, FS_RemoveElement
<1>8. <<U, T>> \in R
  BY <1>5, <1>7 DEF R, StrictSubsetOrdering
<1>9. U \notin Bad
  BY <1>4, <1>8
<1>10. U # {}
  <2>1. SUFFICES ASSUME U = {} PROVE FALSE
    OBVIOUS
  <2>2. \A y \in T : y = a
    BY <2>1
  <2>3. a \in Int
    BY <1>5, <1>6
  <2>4. QED
    BY <1>5, <1>6, <2>2, <2>3
<1>11. PICK m \in U : \A y \in U : y <= m
  BY <1>7, <1>9, <1>10 DEF Bad, FiniteSubsetsOf
<1>12. CASE a <= m
  <2>1. \A y \in T : y <= m
    BY <1>11, <1>12
  <2>2. QED
    BY <1>5, <1>11, <2>1
<1>13. CASE ~ (a <= m)
  <2>1. a \in Int /\ m \in Int /\ \A y \in U : y \in Int
    BY <1>5, <1>6, <1>11
  <2>2. \A y \in T : y <= a
    BY <1>11, <1>13, <2>1
  <2>3. QED
    BY <1>5, <1>6, <2>2
<1>14. QED
  BY <1>12, <1>13

LEMMA FiniteHasSmallest ==
    ASSUME NEW S \in SUBSET Int, IsFiniteSet(S), S # {}
    PROVE  \E x \in S : \A y \in S : x <= y
<1> DEFINE f == [x \in S |-> -x]
           T == {-x : x \in S}
<1>1. T \in SUBSET Int /\ T # {}
  <2>1. \A x \in S : -x \in Int
    OBVIOUS
  <2>2. T \subseteq Int
    BY <2>1
  <2>3. T # {}
    OBVIOUS
  <2>4. QED
    BY <2>2, <2>3
<1>2. f \in Surjection(S, T)
  BY DEF Surjection
<1>3. IsFiniteSet(T)
  BY <1>2, FS_Surjection
<1>4. PICK z \in T : \A y \in T : y <= z
  BY <1>1, <1>3, FiniteHasLargest
<1>5. PICK x \in S : z = -x
  BY <1>4
<1>6. \A y \in S : -y <= -x
  BY <1>4, <1>5
<1>7. \A y \in S : y \in Int
  OBVIOUS
<1>8. \A y \in S : x <= y
  BY <1>6, <1>7
<1>9. QED
  BY <1>5, <1>8

LEMMA LargestIsLargest ==
    ASSUME NEW S \in SUBSET Int, IsFiniteSet(S), S # {}
    PROVE  Largest(S) \in S /\ \A y \in S : y <= Largest(S)
BY FiniteHasLargest DEF Largest

LEMMA SmallestIsSmallest ==
    ASSUME NEW S \in SUBSET Int, IsFiniteSet(S), S # {}
    PROVE  Smallest(S) \in S /\ \A y \in S : Smallest(S) <= y
BY FiniteHasSmallest DEF Smallest

-----------------------------------------------------------------------------
(* Type correctness.                                                       *)

LEMMA SeqsAreFinite ==
    ASSUME TypeOK, NEW S \in SUBSET Present(known)
    PROVE  Seqs(S) \in SUBSET Int /\ IsFiniteSet(Seqs(S)) /\ (S # {} => Seqs(S) # {})
<1> DEFINE f == [s \in S |-> known[s].seq]
<1>1. \A s \in S : s \in Stops /\ known[s] \in Forecast
  BY DEF TypeOK, Present
<1>2. Seqs(S) \in SUBSET Int
  BY <1>1 DEF Seqs, Forecast
<1>3. f \in Surjection(S, Seqs(S))
  BY DEF Surjection, Seqs
<1>4. IsFiniteSet(S)
  BY FS_Subset, DarwinAssumption DEF Present
<1>5. IsFiniteSet(Seqs(S))
  BY <1>3, <1>4, FS_Surjection
<1>6. S # {} => Seqs(S) # {}
  BY DEF Seqs
<1>7. QED
  BY <1>2, <1>5, <1>6

LEMMA TopIsInt ==
    ASSUME TypeOK
    PROVE  Largest({-1} \cup Seqs(Present(known))) \in Int
<1> DEFINE T == {-1} \cup Seqs(Present(known))
<1>1. T \in SUBSET Int /\ IsFiniteSet(T)
  <2>1. Seqs(Present(known)) \in SUBSET Int /\ IsFiniteSet(Seqs(Present(known)))
    BY SeqsAreFinite
  <2>2. IsFiniteSet(Seqs(Present(known)) \cup {-1})
    BY <2>1, FS_AddElement
  <2>3. T = Seqs(Present(known)) \cup {-1}
    OBVIOUS
  <2>4. QED
    BY <2>1, <2>2, <2>3
<1>2. T # {}
  OBVIOUS
<1>3. QED
  BY <1>1, <1>2, LargestIsLargest

LEMMA NextSeqType ==
    ASSUME TypeOK, NEW s \in Stops
    PROVE  NextSeq(s) \in Int
<1> DEFINE Q == {q \in NewStops : q < s}
<1>1. IsFiniteSet(Q)
  <2>1. Q \in SUBSET Stops
    BY DEF NewStops, TypeOK
  <2>2. QED
    BY <2>1, DarwinAssumption, FS_Subset
<1>2. Cardinality(Q) \in Nat
  BY <1>1, FS_CardinalityType
<1>3. NextSeq(s) = Largest({-1} \cup Seqs(Present(known))) + 1 + Cardinality(Q)
  BY DEF NextSeq
<1> HIDE DEF Q
<1>4. QED
  BY <1>2, <1>3, TopIsInt

LEMMA SeqForTimeType ==
    ASSUME TypeOK, NEW t \in Stops, NEW s \in Stops
    PROVE  SeqForTime(t, s) \in Int
<1> DEFINE B == {k \in KnownStops : booked[k] <= booked[t]}
<1>1. KnownStops \in SUBSET Present(known) /\ B \in SUBSET Present(known)
  BY DEF KnownStops
<1>2. CASE KnownStops = {}
  BY <1>2, NextSeqType DEF SeqForTime
<1>3. CASE KnownStops # {} /\ B # {}
  <2>1. Largest(Seqs(B)) \in Int
    BY <1>1, <1>3, SeqsAreFinite, LargestIsLargest
  <2>2. SeqForTime(t, s) = Largest(Seqs(B))
    BY <1>3 DEF SeqForTime
  <2>3. QED
    BY <2>1, <2>2
<1>4. CASE KnownStops # {} /\ B = {}
  <2>1. Smallest(Seqs(KnownStops)) \in Int
    BY <1>1, <1>4, SeqsAreFinite, SmallestIsSmallest
  <2>2. SeqForTime(t, s) = Smallest(Seqs(KnownStops)) - 1
    BY <1>4 DEF SeqForTime
  <2>3. QED
    BY <2>1, <2>2
<1>5. QED
  BY <1>2, <1>3, <1>4

LEMMA StopsLargest ==
    ASSUME NEW S \in SUBSET Stops, S # {}
    PROVE  Largest(S) \in S /\ Smallest(S) \in S
<1>1. S \in SUBSET Int
  BY DarwinAssumption
<1>2. IsFiniteSet(S)
  <2>1. IsFiniteSet(Stops)
    BY DarwinAssumption
  <2>2. QED
    BY <2>1, FS_Subset
<1>3. QED
  BY <1>1, <1>2, LargestIsLargest, SmallestIsSmallest

LEMMA SeqOfType ==
    ASSUME TypeOK, NEW s \in msg.stops
    PROVE  SeqOf(s) \in Int
<1>1. msg.stops \in SUBSET Stops /\ s \in Stops
  BY DEF TypeOK
<1>2. CASE s \notin NewStops
  <2>1. known[s] \in Forecast
    BY <1>1, <1>2 DEF TypeOK, NewStops, Present
  <2>2. QED
    BY <1>2, <2>1 DEF SeqOf, Forecast
<1>3. CASE s \in NewStops /\ s \in Timed
  BY <1>1, <1>3, SeqForTimeType DEF SeqOf
<1>4. CASE s \in NewStops /\ s \notin Timed
  <2> DEFINE earlier == {t \in msg.stops \cap Timed : t < s}
             later   == {t \in msg.stops \cap Timed : t > s}
  <2>1. SeqOf(s) = SeqForUntimed(s)
    BY <1>4 DEF SeqOf
  <2>2. CASE earlier # {}
    <3>1. Largest(earlier) \in Stops
      BY <1>1, <2>2, StopsLargest
    <3>2. SeqForUntimed(s) = SeqForTime(Largest(earlier), s)
      BY <2>2 DEF SeqForUntimed
    <3>3. QED
      BY <1>1, <2>1, <3>1, <3>2, SeqForTimeType
  <2>3. CASE earlier = {} /\ later # {}
    <3> DEFINE n == SeqForTime(Smallest(later), s) - 1
    <3>1. Smallest(later) \in Stops
      BY <1>1, <2>3, StopsLargest
    <3>2. n \in Int
      BY <1>1, <3>1, SeqForTimeType
    <3>3. Largest({0, n}) \in {0, n}
      <4>1. {0, n} \in SUBSET Int
        BY <3>2
      <4>2. IsFiniteSet({0, n})
        <5>1. IsFiniteSet({0})
          BY FS_Singleton
        <5>2. IsFiniteSet({0} \cup {n})
          BY <5>1, FS_AddElement
        <5>3. {0, n} = {0} \cup {n}
          OBVIOUS
        <5>4. QED
          BY <5>2, <5>3
      <4>3. QED
        BY <4>1, <4>2, LargestIsLargest
    <3>4. SeqForUntimed(s) = Largest({0, n})
      BY <2>3 DEF SeqForUntimed
    <3>5. QED
      BY <2>1, <3>2, <3>3, <3>4
  <2>4. CASE earlier = {} /\ later = {}
    <3>1. SeqForUntimed(s) = NextSeq(s)
      BY <2>4 DEF SeqForUntimed
    <3>2. QED
      BY <1>1, <2>1, <3>1, NextSeqType
  <2>5. QED
    BY <2>2, <2>3, <2>4
<1>5. QED
  BY <1>2, <1>3, <1>4

LEMMA Bounds ==
    /\ MaxChunks \in Nat /\ MaxChunks > 0
    /\ Chunk \in Nat
    /\ MaxNights \in Nat
    /\ \A t \in MsgTimes : t \in Nat /\ t > 0
<1>1. MaxChunks \in Nat \ {0} /\ Chunk \in Nat \ {0} /\ MaxNights \in Nat
  BY DarwinAssumption
<1>2. MsgTimes \subseteq Nat \ {0}
  BY DarwinAssumption
<1>3. QED
  BY <1>1, <1>2

LEMMA Counters ==
    /\ 0 \in 0..(MaxChunks - 1)
    /\ \A c \in 0..(MaxChunks - 1) : c + 1 # MaxChunks => c + 1 \in 0..(MaxChunks - 1)
    /\ \A n \in 0..MaxNights : n < MaxNights => n + 1 \in 0..MaxNights
BY Bounds

LEMMA TimeOfMsg ==
    ASSUME TypeOK
    PROVE  msg.stops \in SUBSET Stops /\ msg.at \in Nat
<1>1. msg.at \in MsgTimes \cup {0} /\ msg.stops \in SUBSET Stops
  BY DEF TypeOK
<1>2. QED
  BY <1>1, Bounds

LEMMA PlaceInSchedule ==
    ASSUME NEW s \in Stops
    PROVE  Cardinality({q \in Stops : q < s}) \in Int
<1>1. IsFiniteSet({q \in Stops : q < s})
  <2>1. IsFiniteSet(Stops)
    BY DarwinAssumption
  <2>2. QED
    BY <2>1, FS_Subset
<1>2. Cardinality({q \in Stops : q < s}) \in Nat
  BY <1>1, FS_CardinalityType
<1>3. QED
  BY <1>2

LEMMA TypeStep ==
    ASSUME TypeOK, [Next]_vars
    PROVE  TypeOK'
<1> USE DEF TypeOK
<1>1. NoMsg \in [stops : SUBSET Stops, at : MsgTimes \cup {0}]
  BY DEF NoMsg
<1>2. Nothing \in [Stops -> Forecast \cup {NoRow}]
  BY DEF Nothing
<1>3. 0 \in 0..(MaxChunks - 1)
  BY Counters
<1> USE <1>1, <1>2, <1>3
<1>4. CASE ReceiveTS
  <2>1. \A S \in SUBSET Stops, t \in MsgTimes \cup {0} :
            [stops |-> S, at |-> t] \in [stops : SUBSET Stops, at : MsgTimes \cup {0}]
    OBVIOUS
  <2>2. QED
    BY <1>4, <2>1 DEF ReceiveTS
<1>5. CASE TSTrain
  BY <1>5 DEF TSTrain, UpsertTrain
<1>6. CASE TSRead
  BY <1>6 DEF TSRead, Return
<1>7. CASE TSWrite
  <2>1. msg.stops \in SUBSET Stops /\ msg.at \in Nat
    BY TimeOfMsg
  <2>2. \A s \in msg.stops : [seq |-> SeqOf(s), at |-> msg.at] \in Forecast
    BY <2>1, SeqOfType DEF Forecast
  <2>3. \A s \in Stops : forecast[s] # NoRow => Patched(s) \in Forecast
    BY <2>1 DEF Patched, Forecast
  <2>4. forecast' \in [Stops -> Forecast \cup {NoRow}]
    BY <1>7, <2>2, <2>3 DEF TSWrite
  <2>5. newest' \in [Stops -> Nat]
    BY <1>7, <2>1 DEF TSWrite
  <2>6. QED
    BY <1>7, <2>4, <2>5 DEF TSWrite, Return
<1>8. CASE ReceiveSC
  BY <1>8 DEF ReceiveSC
<1>9. CASE SCTrain
  BY <1>9 DEF SCTrain, UpsertTrain
<1>10. CASE SCWrite
  <2>1. \A s \in Stops : Cardinality({q \in Stops : q < s}) \in Int
    BY PlaceInSchedule
  <2>2. forecast' \in [Stops -> Forecast \cup {NoRow}]
    BY <1>10, <2>1 DEF SCWrite, Forecast
  <2>3. QED
    BY <1>10, <2>2 DEF SCWrite, Return
<1>11. CASE Deactivate
  BY <1>11 DEF Deactivate
<1>12. CASE Abandon
  BY <1>12 DEF Abandon, Return
<1>13. CASE Expire
  BY <1>13 DEF Expire
<1>14. CASE StartPrune
  <2>1. nights' \in 0..MaxNights
    BY <1>14, Counters DEF StartPrune
  <2>2. QED
    BY <1>14, <2>1 DEF StartPrune
<1>15. CASE PruneStops
  <2>1. PICK D \in SUBSET Stops :
            /\ forecast' = [s \in Stops |-> IF s \in D THEN NoRow ELSE forecast[s]]
            /\ newest' = [s \in Stops |-> IF s \in D THEN 0 ELSE newest[s]]
            /\ scheduled' = (scheduled /\ D = {})
            /\ \/ /\ chunks + 1 # MaxChunks
                  /\ prune' = "stops" /\ chunks' = chunks + 1
               \/ prune' = "trains" /\ chunks' = 0
    BY <1>15 DEF PruneStops, Present
  <2>2. chunks' \in 0..(MaxChunks - 1) /\ prune' \in {"idle", "stops", "trains"}
    <3>1. CASE prune' = "trains" /\ chunks' = 0
      BY <3>1
    <3>2. CASE /\ chunks + 1 # MaxChunks
               /\ prune' = "stops" /\ chunks' = chunks + 1
      <4>1. chunks \in 0..(MaxChunks - 1)
        OBVIOUS
      <4>2. QED
        BY <3>2, <4>1, Counters
    <3>3. QED
      BY <2>1, <3>1, <3>2
  <2>3. scheduled' \in BOOLEAN
    BY <2>1
  <2>4. UNCHANGED <<booked, train, step, msg, known, expired, nights>>
    BY <1>15 DEF PruneStops
  <2>5. QED
    BY <2>1, <2>2, <2>3, <2>4
<1>16. CASE PruneTrains
  BY <1>16 DEF PruneTrains
<1>17. CASE UNCHANGED vars
  BY <1>17 DEF vars
<1>18. QED
  BY <1>4, <1>5, <1>6, <1>7, <1>8, <1>9, <1>10, <1>11, <1>12, <1>13, <1>14, <1>15,
     <1>16, <1>17 DEF Next

(* Every variable keeps its type: times are naturals and places integers.  *)
THEOREM TypeCorrect == Spec => []TypeOK
<1>1. Init => TypeOK
  <2> SUFFICES ASSUME Init PROVE TypeOK
    OBVIOUS
  <2>1. chunks \in 0..(MaxChunks - 1) /\ nights \in 0..MaxNights
    BY Bounds DEF Init
  <2>2. msg \in [stops : SUBSET Stops, at : MsgTimes \cup {0}]
    BY DEF Init, NoMsg
  <2>3. booked \in [Timed -> Nat]
    BY DarwinAssumption DEF Init
  <2>4. QED
    BY <2>1, <2>2, <2>3 DEF Init, TypeOK, Nothing
<1>2. TypeOK /\ [Next]_vars => TypeOK'
  BY TypeStep
<1>3. QED
  BY <1>1, <1>2, PTL DEF Spec

-----------------------------------------------------------------------------
(* Facts every invariant rests on.                                         *)

LEMMA RowsAreRows ==
    ASSUME NEW q \in Int, NEW a \in Nat
    PROVE  [seq |-> q, at |-> a] # NoRow
BY DarwinAssumption

(* What a status message leaves of a stop, case by case.                   *)
LEMMA AfterTS ==
    ASSUME TypeOK, TSWrite, NEW s \in Stops, forecast'[s] # NoRow
    PROVE  /\ forecast[s] # NoRow => forecast'[s].seq = forecast[s].seq
           /\ forecast[s] = NoRow =>
                  /\ s \in msg.stops
                  /\ forecast'[s].seq = SeqOf(s) /\ forecast'[s].at = msg.at
           /\ forecast[s] # NoRow =>
                  forecast'[s].at = IF s \in msg.stops /\ IsFresh(s)
                                    THEN msg.at ELSE forecast[s].at
<1>1. forecast'[s] =
          CASE s \notin msg.stops    -> forecast[s]
            [] s \in msg.stops /\ forecast[s] = NoRow -> [seq |-> SeqOf(s), at |-> msg.at]
            [] OTHER -> IF IsFresh(s) THEN Patched(s) ELSE forecast[s]
  BY DEF TSWrite
<1>2. CASE forecast[s] = NoRow
  <2>1. s \in msg.stops
    BY <1>1, <1>2
  <2>2. QED
    BY <1>1, <1>2, <2>1
<1>3. CASE forecast[s] # NoRow /\ s \notin msg.stops
  BY <1>1, <1>3
<1>4. CASE forecast[s] # NoRow /\ s \in msg.stops
  BY <1>1, <1>4 DEF Patched
<1>5. QED
  BY <1>2, <1>3, <1>4

LEMMA AfterSC ==
    ASSUME SCWrite, NEW s \in Stops
    PROVE  forecast'[s].seq = Cardinality({q \in Stops : q < s})
<1>1. \A c, a : [seq |-> c, at |-> a].seq = c
  OBVIOUS
<1> DEFINE c == Cardinality({q \in Stops : q < s})
           a == IF forecast[s] = NoRow THEN 0 ELSE forecast[s].at
<1>2. forecast'[s] = [seq |-> c, at |-> a]
  BY DEF SCWrite
<1> HIDE DEF c, a
<1>3. forecast'[s].seq = c
  BY <1>1, <1>2
<1>4. QED
  BY <1>3 DEF c

(* The prune removes rows, with what is remembered of them, or nothing.    *)
LEMMA AfterPrune ==
    ASSUME TypeOK, PruneStops
    PROVE  /\ \A s \in Stops : \/ forecast'[s] = NoRow /\ newest'[s] = 0
                               \/ forecast'[s] = forecast[s] /\ newest'[s] = newest[s]
           /\ scheduled' => scheduled /\ forecast' = forecast
           /\ UNCHANGED <<booked, train, step, msg, known>>
<1>1. PICK D \in SUBSET Stops :
          /\ forecast' = [s \in Stops |-> IF s \in D THEN NoRow ELSE forecast[s]]
          /\ newest' = [s \in Stops |-> IF s \in D THEN 0 ELSE newest[s]]
          /\ scheduled' = (scheduled /\ D = {})
  BY DEF PruneStops, Present
<1>2. scheduled' => scheduled /\ forecast' = forecast
  <2>1. SUFFICES ASSUME scheduled' PROVE scheduled /\ forecast' = forecast
    OBVIOUS
  <2>2. scheduled /\ D = {}
    BY <1>1, <2>1
  <2>3. forecast' = [s \in Stops |-> forecast[s]]
    BY <1>1, <2>2
  <2>4. QED
    BY <2>2, <2>3 DEF TypeOK
<1>3. UNCHANGED <<booked, train, step, msg, known>>
  BY DEF PruneStops
<1>4. QED
  BY <1>1, <1>2, <1>3

-----------------------------------------------------------------------------
(* Newest forecast.                                                        *)

NewestInv ==
    \A s \in Stops : /\ forecast[s] # NoRow => forecast[s].at = newest[s]
                     /\ forecast[s] = NoRow => newest[s] = 0

LEMMA NewestStep ==
    ASSUME TypeOK, NewestInv, [Next]_vars
    PROVE  NewestInv'
<1>1. CASE TSWrite
  <2> SUFFICES ASSUME NEW s \in Stops
               PROVE  /\ forecast'[s] # NoRow => forecast'[s].at = newest'[s]
                      /\ forecast'[s] = NoRow => newest'[s] = 0
    BY DEF NewestInv
  <2>1. newest'[s] = IF s \in msg.stops /\ (msg.at = 0 \/ msg.at > newest[s])
                     THEN msg.at ELSE newest[s]
    BY <1>1 DEF TSWrite
  <2>2. msg.at \in Nat /\ newest[s] \in Nat
    BY TimeOfMsg DEF TypeOK
  <2>3. (forecast[s] # NoRow => forecast[s].at = newest[s])
        /\ (forecast[s] = NoRow => newest[s] = 0)
    BY DEF NewestInv
  <2>4. CASE forecast'[s] = NoRow
    <3>1. forecast[s] = NoRow /\ s \notin msg.stops
      <4>1. s \in msg.stops /\ forecast[s] = NoRow => FALSE
        <5>1. SUFFICES ASSUME s \in msg.stops, forecast[s] = NoRow PROVE FALSE
          OBVIOUS
        <5>2. forecast'[s] = [seq |-> SeqOf(s), at |-> msg.at]
          BY <1>1, <5>1 DEF TSWrite
        <5>3. QED
          BY <2>2, <2>4, <5>1, <5>2, SeqOfType, RowsAreRows
      <4>2. s \in msg.stops /\ forecast[s] # NoRow => FALSE
        <5>1. SUFFICES ASSUME s \in msg.stops, forecast[s] # NoRow PROVE FALSE
          OBVIOUS
        <5>2. forecast'[s] = IF IsFresh(s) THEN Patched(s) ELSE forecast[s]
          BY <1>1, <5>1 DEF TSWrite
        <5>3. forecast[s].seq \in Int
          BY <5>1 DEF TypeOK, Forecast
        <5>4. Patched(s) # NoRow
          BY <2>2, <5>3, RowsAreRows DEF Patched
        <5>5. QED
          BY <2>4, <5>1, <5>2, <5>4
      <4>3. s \notin msg.stops => forecast'[s] = forecast[s]
        BY <1>1 DEF TSWrite
      <4>4. QED
        BY <2>4, <4>1, <4>2, <4>3
    <3>2. QED
      BY <2>1, <2>3, <2>4, <3>1
  <2>5. CASE forecast'[s] # NoRow /\ forecast[s] = NoRow
    <3>1. s \in msg.stops /\ forecast'[s].at = msg.at
      BY <1>1, <2>5, AfterTS
    <3>2. QED
      BY <2>1, <2>2, <2>3, <2>5, <3>1
  <2>6. CASE forecast'[s] # NoRow /\ forecast[s] # NoRow
    <3>1. forecast'[s].at = IF s \in msg.stops /\ IsFresh(s) THEN msg.at ELSE forecast[s].at
      BY <1>1, <2>6, AfterTS
    <3>2. IsFresh(s) <=> msg.at = 0 \/ newest[s] = 0 \/ msg.at >= newest[s]
      BY <2>3, <2>6 DEF IsFresh
    <3>3. QED
      BY <2>1, <2>2, <2>3, <2>6, <3>1, <3>2
  <2>7. QED
    BY <2>4, <2>5, <2>6
<1>2. CASE SCWrite
  <2> SUFFICES ASSUME NEW s \in Stops
               PROVE  /\ forecast'[s] # NoRow => forecast'[s].at = newest'[s]
                      /\ forecast'[s] = NoRow => newest'[s] = 0
    BY DEF NewestInv
  <2> DEFINE a == IF forecast[s] = NoRow THEN 0 ELSE forecast[s].at
  <2>1. forecast'[s] = [seq |-> Cardinality({q \in Stops : q < s}), at |-> a]
        /\ newest'[s] = newest[s]
    BY <1>2 DEF SCWrite
  <2>2. a = newest[s] /\ newest[s] \in Nat
    BY DEF NewestInv, TypeOK
  <2>3. forecast'[s] # NoRow
    BY <2>1, <2>2, PlaceInSchedule, RowsAreRows
  <2>4. QED
    BY <2>1, <2>2, <2>3
<1>3. CASE PruneStops
  BY <1>3, AfterPrune DEF NewestInv
<1>4. CASE UNCHANGED <<forecast, newest>>
  BY <1>4 DEF NewestInv
<1>5. QED
  BY <1>1, <1>2, <1>3, <1>4 DEF Next, vars, ReceiveTS, TSTrain, TSRead, ReceiveSC, SCTrain,
     Deactivate, Abandon, Expire, StartPrune, PruneTrains

(* Whatever the order of the messages, and whatever fails or is pruned     *)
(* between them, a stop shows the newest forecast applied to it.           *)
THEOREM NewestEstimate == Spec => []EstimateIsNewest
<1>1. Init => NewestInv
  BY DEF Init, NewestInv, Nothing
<1>2. TypeOK /\ NewestInv /\ [Next]_vars => NewestInv'
  BY NewestStep
<1>3. NewestInv => EstimateIsNewest
  BY DEF NewestInv, EstimateIsNewest, Present
<1>4. QED
  BY <1>1, <1>2, <1>3, TypeCorrect, PTL DEF Spec

-----------------------------------------------------------------------------
(* The order of a schedule.                                                *)

(* Fewer numbers lie below the smaller of two.                             *)
LEMMA FewerBelow ==
    ASSUME NEW S \in SUBSET Stops, NEW s \in Stops, NEW t \in Stops, s < t
    PROVE  LET below(x) == {q \in S : q < x}
           IN  /\ Cardinality(below(s)) \in Nat /\ Cardinality(below(t)) \in Nat
               /\ Cardinality(below(s)) <= Cardinality(below(t))
               /\ s \in S => Cardinality(below(s)) < Cardinality(below(t))
<1> DEFINE A == {q \in S : q < s}
           B == {q \in S : q < t}
<1>1. IsFiniteSet(A) /\ IsFiniteSet(B)
  <2>1. A \in SUBSET Stops /\ B \in SUBSET Stops /\ IsFiniteSet(Stops)
    BY DarwinAssumption
  <2>2. QED
    BY <2>1, FS_Subset
<1>2. A \subseteq B
  <2>1. s \in Int /\ t \in Int /\ \A q \in S : q \in Int
    BY DarwinAssumption
  <2>2. \A q \in S : q < s => q < t
    BY <2>1
  <2>3. QED
    BY <2>2
<1>3. s \in S => A # B
  <2>1. Stops \subseteq Nat
    BY DarwinAssumption
  <2>2. s \notin A
    BY <2>1
  <2>3. s \in S => s \in B
    OBVIOUS
  <2>4. QED
    BY <2>2, <2>3
<1>4. Cardinality(A) \in Nat /\ Cardinality(B) \in Nat
  BY <1>1, FS_CardinalityType
<1>5. Cardinality(A) <= Cardinality(B) /\ (Cardinality(A) = Cardinality(B) => A = B)
  BY <1>1, <1>2, FS_Subset
<1>6. QED
  BY <1>3, <1>4, <1>5

LEMMA ScheduleStep ==
    ASSUME TypeOK, ScheduleOrderStands, [Next]_vars
    PROVE  ScheduleOrderStands'
<1>1. CASE TSWrite
  <2> SUFFICES ASSUME scheduled', NEW s \in Stops, NEW t \in Stops
               PROVE  /\ forecast'[s] # NoRow
                      /\ s < t => forecast'[s].seq < forecast'[t].seq
    BY DEF ScheduleOrderStands
  <2>1. scheduled
    BY <1>1 DEF TSWrite
  <2>2. \A x \in Stops : forecast[x] # NoRow
    BY <2>1 DEF ScheduleOrderStands
  <2>3. \A x \in Stops : forecast'[x] # NoRow
    <3>1. TAKE x \in Stops
    <3>2. forecast'[x] = forecast[x] \/ forecast'[x] = Patched(x)
      BY <1>1, <2>2 DEF TSWrite
    <3>3. forecast[x].seq \in Int
      BY <2>2 DEF TypeOK, Forecast
    <3>4. Patched(x) # NoRow
      BY <3>3, TimeOfMsg, RowsAreRows DEF Patched
    <3>5. QED
      BY <2>2, <3>2, <3>4
  <2>4. \A x \in Stops : forecast'[x].seq = forecast[x].seq
    BY <1>1, <2>2, <2>3, AfterTS
  <2>5. s < t => forecast[s].seq < forecast[t].seq
    BY <2>1 DEF ScheduleOrderStands
  <2>6. QED
    BY <2>3, <2>4, <2>5
<1>2. CASE SCWrite
  <2> SUFFICES ASSUME NEW s \in Stops, NEW t \in Stops
               PROVE  /\ forecast'[s] # NoRow
                      /\ s < t => forecast'[s].seq < forecast'[t].seq
    BY DEF ScheduleOrderStands
  <2>1. \A x \in Stops : forecast'[x] =
            [seq |-> Cardinality({q \in Stops : q < x}),
             at  |-> IF forecast[x] = NoRow THEN 0 ELSE forecast[x].at]
    BY <1>2 DEF SCWrite
  <2>2. \A x \in Stops : (IF forecast[x] = NoRow THEN 0 ELSE forecast[x].at) \in Nat
    BY DEF TypeOK, Forecast
  <2>3. forecast'[s] # NoRow
    BY <2>1, <2>2, PlaceInSchedule, RowsAreRows
  <2>4. s < t => Cardinality({q \in Stops : q < s}) < Cardinality({q \in Stops : q < t})
    BY FewerBelow
  <2>5. /\ forecast'[s].seq = Cardinality({q \in Stops : q < s})
        /\ forecast'[t].seq = Cardinality({q \in Stops : q < t})
    BY <1>2, AfterSC
  <2>6. QED
    BY <2>3, <2>4, <2>5
<1>3. CASE PruneStops
  BY <1>3, AfterPrune DEF ScheduleOrderStands
<1>4. CASE UNCHANGED <<forecast, scheduled>>
  BY <1>4 DEF ScheduleOrderStands
<1>5. QED
  BY <1>1, <1>2, <1>3, <1>4 DEF Next, vars, ReceiveTS, TSTrain, TSRead, ReceiveSC, SCTrain,
     Deactivate, Abandon, Expire, StartPrune, PruneTrains

(* The places a schedule gave are kept, in order, through the status       *)
(* messages that follow it.                                                *)
THEOREM ScheduleStands == Spec => []ScheduleOrderStands
<1>1. Init => ScheduleOrderStands
  BY DEF Init, ScheduleOrderStands
<1>2. TypeOK /\ ScheduleOrderStands /\ [Next]_vars => ScheduleOrderStands'
  BY ScheduleStep
<1>3. QED
  BY <1>1, <1>2, TypeCorrect, PTL DEF Spec

-----------------------------------------------------------------------------
(* The order of the booked times.                                          *)

(* The place a message gives to a timed stop.                              *)
PlaceOf(s) == IF known[s] # NoRow THEN known[s].seq ELSE SeqForTime(s, s)

KnownInOrder ==
    \A s, t \in KnownStops : booked[s] < booked[t] => known[s].seq <= known[t].seq

(* What makes the order inductive: while the handler waits to write, the   *)
(* rows it has read still hold every place there is, and are in order.     *)
ReadInv ==
    step = "ts write" /\ ~Overnight =>
        /\ KnownInOrder
        /\ \A s \in Present(forecast) : /\ known[s] # NoRow
                                        /\ known[s].seq = forecast[s].seq

(* On such a run a stop booked later is one called at later.               *)
LEMMA BookedLater ==
    ASSUME TypeOK, ~Overnight, NEW s \in Timed, NEW t \in Timed, booked[s] < booked[t]
    PROVE  s < t
<1>1. s \in Nat /\ t \in Nat /\ booked[s] \in Nat /\ booked[t] \in Nat
  BY DarwinAssumption DEF TypeOK
<1>2. s # t
  BY <1>1
<1>3. ~ (t < s)
  BY DEF Overnight
<1>4. QED
  BY <1>1, <1>2, <1>3

(* A stop booked later is given no earlier place, by any mix of known and  *)
(* new.                                                                    *)
LEMMA PlacesAscend ==
    ASSUME TypeOK, ~Overnight, KnownInOrder,
           NEW s \in Timed, NEW t \in Timed, booked[s] < booked[t],
           s \in Present(known) \cup msg.stops, t \in Present(known) \cup msg.stops
    PROVE  PlaceOf(s) <= PlaceOf(t)
<1> DEFINE Before(x) == {k \in KnownStops : booked[k] <= booked[x]}
<1>1. s \in Stops /\ t \in Stops /\ s < t /\ \A x \in Timed : booked[x] \in Nat
  BY DarwinAssumption, BookedLater DEF TypeOK
<1>2. \A k \in KnownStops : k \in Stops /\ k \in Timed /\ known[k] # NoRow /\ known[k].seq \in Int
  BY DEF KnownStops, Present, TypeOK, Forecast
<1>3. \A S \in SUBSET KnownStops :
          S # {} => /\ Seqs(S) # {}
                    /\ Largest(Seqs(S)) \in Seqs(S) /\ Smallest(Seqs(S)) \in Seqs(S)
                    /\ \A n \in Seqs(S) : n <= Largest(Seqs(S)) /\ Smallest(Seqs(S)) <= n
                    /\ \A n \in Seqs(S) : n \in Int
  <2>1. TAKE S \in SUBSET KnownStops
  <2>2. S \in SUBSET Present(known)
    BY DEF KnownStops
  <2>3. QED
    BY <2>2, SeqsAreFinite, LargestIsLargest, SmallestIsSmallest
<1>4. \A x \in Stops : known[x] = NoRow /\ KnownStops # {} /\ Before(x) # {} =>
          PlaceOf(x) = Largest(Seqs(Before(x)))
  BY DEF PlaceOf, SeqForTime
<1>5. \A x \in Stops : known[x] = NoRow /\ KnownStops # {} /\ Before(x) = {} =>
          PlaceOf(x) = Smallest(Seqs(KnownStops)) - 1
  BY DEF PlaceOf, SeqForTime
<1>6. \A x \in Stops : known[x] # NoRow => PlaceOf(x) = known[x].seq
  BY DEF PlaceOf
<1>7. \A x \in Timed : known[x] # NoRow => x \in KnownStops
  BY <1>1, DarwinAssumption DEF KnownStops, Present
<1>8. Before(s) \subseteq Before(t) /\ Before(t) \subseteq KnownStops
  <2>1. \A k \in KnownStops : booked[k] <= booked[s] => booked[k] <= booked[t]
    BY <1>1, <1>2
  <2>2. QED
    BY <2>1
<1>9. \A S : \A n \in Seqs(S) : \E k \in S : n = known[k].seq
  BY DEF Seqs
<1>10. \A S : \A k \in S : known[k].seq \in Seqs(S)
  BY DEF Seqs
<1> HIDE DEF Before
<1>11. CASE known[s] # NoRow /\ known[t] # NoRow
  BY <1>1, <1>6, <1>7, <1>11 DEF KnownInOrder
<1>12. CASE known[s] # NoRow /\ known[t] = NoRow
  <2>1. s \in KnownStops /\ s \in Before(t)
    BY <1>1, <1>7, <1>12 DEF Before
  <2>2. known[s].seq \in Seqs(Before(t))
    BY <1>10, <2>1
  <2>3. known[s].seq <= Largest(Seqs(Before(t)))
    BY <1>3, <1>8, <2>1, <2>2
  <2>4. QED
    BY <1>1, <1>4, <1>6, <1>12, <2>1, <2>3
<1>13. CASE known[s] = NoRow /\ known[t] # NoRow
  <2>1. t \in KnownStops /\ known[t].seq \in Seqs(KnownStops) /\ known[t].seq \in Int
    BY <1>1, <1>2, <1>7, <1>10, <1>13
  <2>2. CASE Before(s) # {}
    <3>1. Largest(Seqs(Before(s))) \in Seqs(Before(s))
      BY <1>3, <1>8, <2>2
    <3>2. PICK k \in Before(s) : Largest(Seqs(Before(s))) = known[k].seq
      BY <1>9, <3>1
    <3>3. k \in KnownStops /\ booked[k] <= booked[s]
      BY DEF Before
    <3>4. booked[k] < booked[t]
      BY <1>1, <1>2, <3>3
    <3>5. known[k].seq <= known[t].seq
      BY <2>1, <3>3, <3>4 DEF KnownInOrder
    <3>6. QED
      BY <1>1, <1>4, <1>6, <1>13, <2>1, <2>2, <3>2, <3>5
  <2>3. CASE Before(s) = {}
    <3>1. /\ Smallest(Seqs(KnownStops)) <= known[t].seq
          /\ Smallest(Seqs(KnownStops)) \in Int
      BY <1>3, <2>1
    <3>2. PlaceOf(s) = Smallest(Seqs(KnownStops)) - 1 /\ PlaceOf(t) = known[t].seq
      BY <1>1, <1>5, <1>6, <1>13, <2>1, <2>3
    <3>3. QED
      BY <2>1, <3>1, <3>2
  <2>4. QED
    BY <2>2, <2>3
<1>14. CASE known[s] = NoRow /\ known[t] = NoRow /\ KnownStops = {}
  <2>1. PlaceOf(s) = NextSeq(s) /\ PlaceOf(t) = NextSeq(t)
    BY <1>14 DEF PlaceOf, SeqForTime
  <2> DEFINE below(x) == {q \in NewStops : q < x}
             top == Largest({-1} \cup Seqs(Present(known)))
  <2>2. NewStops \in SUBSET Stops
    BY TimeOfMsg DEF NewStops
  <2>3. /\ Cardinality(below(s)) \in Nat /\ Cardinality(below(t)) \in Nat
        /\ Cardinality(below(s)) <= Cardinality(below(t))
    BY <1>1, <2>2, FewerBelow
  <2>4. NextSeq(s) = top + 1 + Cardinality(below(s)) /\ NextSeq(t) = top + 1 + Cardinality(below(t))
    BY DEF NextSeq
  <2>5. top \in Int
    BY TopIsInt
  <2> HIDE DEF below, top
  <2>6. QED
    BY <2>1, <2>3, <2>4, <2>5
<1>15. CASE known[s] = NoRow /\ known[t] = NoRow /\ KnownStops # {}
  <2>1. CASE Before(s) # {}
    <3>1. Before(t) # {}
      BY <1>8, <2>1
    <3>2. Largest(Seqs(Before(s))) \in Seqs(Before(s))
      BY <1>3, <1>8, <2>1
    <3>3. PICK k \in Before(s) : Largest(Seqs(Before(s))) = known[k].seq
      BY <1>9, <3>2
    <3>4. known[k].seq \in Seqs(Before(t))
      BY <1>8, <1>10
    <3>5. known[k].seq <= Largest(Seqs(Before(t)))
      BY <1>3, <1>8, <3>1, <3>4
    <3>6. QED
      BY <1>1, <1>4, <1>15, <2>1, <3>1, <3>3, <3>5
  <2>2. CASE Before(s) = {} /\ Before(t) # {}
    <3>1. Largest(Seqs(Before(t))) \in Seqs(Before(t)) /\ Largest(Seqs(Before(t))) \in Int
      BY <1>3, <1>8, <2>2
    <3>2. PICK k \in Before(t) : Largest(Seqs(Before(t))) = known[k].seq
      BY <1>9, <3>1
    <3>3. known[k].seq \in Seqs(KnownStops)
      BY <1>8, <1>10
    <3>4. Smallest(Seqs(KnownStops)) <= known[k].seq /\ Smallest(Seqs(KnownStops)) \in Int
      BY <1>3, <1>15, <3>3
    <3>5. PlaceOf(s) = Smallest(Seqs(KnownStops)) - 1 /\ PlaceOf(t) = known[k].seq
      BY <1>1, <1>4, <1>5, <1>15, <2>2, <3>2
    <3>6. QED
      BY <3>1, <3>2, <3>4, <3>5
  <2>3. CASE Before(s) = {} /\ Before(t) = {}
    <3>1. PlaceOf(s) = PlaceOf(t) /\ PlaceOf(s) = Smallest(Seqs(KnownStops)) - 1
      BY <1>1, <1>5, <1>15, <2>3
    <3>2. Smallest(Seqs(KnownStops)) \in Int
      BY <1>3, <1>15
    <3>3. QED
      BY <3>1, <3>2
  <2>4. QED
    BY <1>8, <2>1, <2>2, <2>3
<1>16. QED
  BY <1>11, <1>12, <1>13, <1>14, <1>15

OrderInv == TimedStopsInOrder /\ ReadInv

(* The booked times of a run do not change.                                *)
LEMMA BookedStays ==
    ASSUME [Next]_vars
    PROVE  booked' = booked /\ (Overnight' <=> Overnight)
<1>1. booked' = booked
  BY DEF Next, vars, ReceiveTS, TSTrain, TSRead, TSWrite, ReceiveSC, SCTrain, SCWrite,
     Deactivate, Abandon, Expire, StartPrune, PruneStops, PruneTrains
<1>2. QED
  BY <1>1 DEF Overnight

LEMMA OrderStepByDay ==
    ASSUME TypeOK, OrderInv, [Next]_vars, ~Overnight
    PROVE  OrderInv'
<1>0. booked' = booked /\ ~Overnight'
  BY BookedStays
<1> USE <1>0
<1>1. CASE TSRead
  <2>1. TimedStopsInOrder'
    BY <1>1 DEF TSRead, OrderInv, TimedStopsInOrder, Present
  <2>2. CASE step' = "ts write"
    <3>1. known' = forecast /\ forecast' = forecast
      BY <1>1, <2>2 DEF TSRead, Return
    <3>2. KnownInOrder'
      BY <3>1 DEF OrderInv, TimedStopsInOrder, KnownInOrder, KnownStops, Present
    <3>3. QED
      BY <2>1, <3>1, <3>2 DEF OrderInv, ReadInv, Present
  <2>3. CASE step' # "ts write"
    BY <2>1, <2>3 DEF OrderInv, ReadInv
  <2>4. QED
    BY <2>2, <2>3
<1>2. CASE TSWrite
  <2>1. step = "ts write" /\ step' # "ts write"
    BY <1>2 DEF TSWrite, Return
  <2>2. KnownInOrder /\ \A x \in Present(forecast) : /\ known[x] # NoRow
                                                     /\ known[x].seq = forecast[x].seq
    BY <2>1 DEF OrderInv, ReadInv
  <2>3. \A x \in Present(forecast)' \cap Timed :
            /\ x \in Present(known) \cup msg.stops
            /\ forecast'[x].seq = PlaceOf(x)
    <3>1. TAKE x \in Present(forecast)' \cap Timed
    <3>2. x \in Stops /\ forecast'[x] # NoRow
      BY DEF Present
    <3>3. CASE forecast[x] # NoRow
      <4>1. forecast'[x].seq = forecast[x].seq
        BY <1>2, <3>2, <3>3, AfterTS
      <4>2. x \in Present(known) /\ known[x] # NoRow /\ known[x].seq = forecast[x].seq
        BY <2>2, <3>2, <3>3 DEF Present
      <4>3. QED
        BY <4>1, <4>2 DEF PlaceOf
    <3>4. CASE forecast[x] = NoRow
      <4>1. x \in msg.stops /\ forecast'[x].seq = SeqOf(x)
        BY <1>2, <3>2, <3>4, AfterTS
      <4>2. SeqOf(x) = PlaceOf(x)
        <5>1. x \in Timed
          OBVIOUS
        <5>2. x \in NewStops <=> known[x] = NoRow
          BY <3>2, <4>1 DEF NewStops, Present
        <5>3. QED
          BY <5>1, <5>2 DEF SeqOf, PlaceOf
      <4>3. QED
        BY <4>1, <4>2
    <3>5. QED
      BY <3>3, <3>4
  <2>4. \A x, y \in Present(forecast)' \cap Timed :
            booked[x] < booked[y] => forecast'[x].seq <= forecast'[y].seq
    <3>1. SUFFICES ASSUME NEW x \in Present(forecast)' \cap Timed,
                          NEW y \in Present(forecast)' \cap Timed, booked[x] < booked[y]
                   PROVE  forecast'[x].seq <= forecast'[y].seq
      OBVIOUS
    <3>2. PlaceOf(x) <= PlaceOf(y)
      BY <2>2, <2>3, <3>1, PlacesAscend
    <3>3. QED
      BY <2>3, <3>2
  <2>5. TimedStopsInOrder'
    BY <2>4 DEF TimedStopsInOrder, Present
  <2>6. QED
    BY <2>1, <2>5 DEF OrderInv, ReadInv
<1>3. CASE SCWrite
  <2>1. step' # "ts write"
    BY <1>3 DEF SCWrite, Return
  <2>2. \A x \in Stops : forecast'[x].seq = Cardinality({q \in Stops : q < x})
    BY <1>3, AfterSC
  <2>3. TimedStopsInOrder'
    <3>1. SUFFICES ASSUME NEW x \in Stops \cap Timed, NEW y \in Stops \cap Timed,
                          booked[x] < booked[y]
                   PROVE  forecast'[x].seq <= forecast'[y].seq
      BY DEF TimedStopsInOrder, Present
    <3>2. x < y
      BY <3>1, BookedLater
    <3>3. Cardinality({q \in Stops : q < x}) <= Cardinality({q \in Stops : q < y})
      BY <3>2, FewerBelow
    <3>4. QED
      BY <2>2, <3>3
  <2>4. QED
    BY <2>1, <2>3 DEF OrderInv, ReadInv
<1>4. CASE PruneStops
  <2>1. /\ \A x \in Stops : forecast'[x] = NoRow \/ forecast'[x] = forecast[x]
        /\ step' = step /\ msg' = msg /\ known' = known
    BY <1>4, AfterPrune
  <2>2. TimedStopsInOrder'
    BY <2>1 DEF OrderInv, TimedStopsInOrder, Present
  <2>3. ReadInv'
    BY <2>1 DEF OrderInv, ReadInv, KnownInOrder, KnownStops, Present
  <2>4. QED
    BY <2>2, <2>3 DEF OrderInv
<1>5. CASE Abandon
  BY <1>5 DEF Abandon, Return, OrderInv, ReadInv, TimedStopsInOrder, Present
<1>6. CASE UNCHANGED <<forecast, known>> /\ step' # "ts write"
  BY <1>6 DEF OrderInv, ReadInv, TimedStopsInOrder, Present
<1>7. CASE UNCHANGED <<forecast, known, step>>
  BY <1>7 DEF OrderInv, ReadInv, TimedStopsInOrder, KnownInOrder, KnownStops, Present
<1>8. QED
  BY <1>1, <1>2, <1>3, <1>4, <1>5, <1>6, <1>7 DEF Next, vars, ReceiveTS, TSTrain,
     ReceiveSC, SCTrain, Deactivate, Expire, StartPrune, PruneTrains

LEMMA OrderStep ==
    ASSUME TypeOK, OrderInv, [Next]_vars
    PROVE  OrderInv'
<1>1. CASE Overnight
  <2>1. Overnight'
    BY <1>1, BookedStays
  <2>2. QED
    BY <2>1 DEF OrderInv, ReadInv, TimedStopsInOrder
<1>2. CASE ~Overnight
  BY <1>2, OrderStepByDay
<1>3. QED
  BY <1>1, <1>2

(* However the stops of a run that stays within one day come to be known,  *)
(* with a schedule or without and whatever the prune takes away meanwhile, *)
(* the timed ones are kept in the order of their booked times.             *)
THEOREM TravelOrder == Spec => []TimedStopsInOrder
<1>1. Init => OrderInv
  BY DEF Init, OrderInv, ReadInv, TimedStopsInOrder, Present, Nothing
<1>2. TypeOK /\ OrderInv /\ [Next]_vars => OrderInv'
  BY OrderStep
<1>3. OrderInv => TimedStopsInOrder
  BY DEF OrderInv
<1>4. QED
  BY <1>1, <1>2, <1>3, TypeCorrect, PTL DEF Spec

-----------------------------------------------------------------------------
(* Alerts: type correctness.                                               *)

LEMMA Numbers ==
    /\ 0 \in 0..MaxFaults /\ 0 \in 0..MaxEdits
    /\ \A n \in 0..MaxFaults : n < MaxFaults => n + 1 \in 0..MaxFaults
    /\ \A n \in 0..MaxEdits : n < MaxEdits => n + 1 \in 0..MaxEdits
<1>1. MaxFaults \in Nat /\ MaxEdits \in Nat
  BY AlertsAssumption
<1>2. QED
  BY <1>1

LEMMA KeyType ==
    ASSUME NEW r \in Rows, event \in Events
    PROVE  KeyOf(r) \in Keys
<1>1. event.kind \in Kinds
  BY DEF Events
<1>2. QED
  BY <1>1 DEF KeyOf, Keys

(* The steps at which the consumer holds an event, and a match.            *)
Handling == {"refresh", "read", "match", "holiday", "insert", "publish", "push", "clear"}
Raising == {"holiday", "insert", "publish", "push", "clear"}

LocalsInv ==
    /\ pc \in Handling => event \in Events
    /\ pc \in Raising => match \in Rows

TypeInv == AlertTypeOK /\ LocalsInv

LEMMA ReturnTypes ==
    ASSUME ReturnToIdle
    PROVE  /\ pc' = "idle" /\ event' = None /\ answer' = {} /\ todo' = {} /\ match' = None
           /\ user' \in [sub : Subs \cup {None}, optedIn : BOOLEAN]
           /\ matched' = {} /\ skipped' = {}
BY DEF ReturnToIdle, NoUser

LEMMA AdvanceTypes ==
    ASSUME TypeInv, pc \in Raising, Advance(todo)
    PROVE  /\ pc' \in {"idle", "holiday"}
           /\ event' \in Events \cup {None} /\ (pc' = "holiday" => event' \in Events)
           /\ answer' \subseteq Trains
           /\ user' \in [sub : Subs \cup {None}, optedIn : BOOLEAN]
           /\ todo' \subseteq Rows /\ match' \in Rows \cup {None}
           /\ (pc' = "holiday" => match' \in Rows)
           /\ matched' \subseteq Rows /\ skipped' \subseteq Rows
<1>1. CASE todo = {}
  BY <1>1, ReturnTypes DEF Advance
<1>2. CASE todo # {}
  BY <1>2 DEF Advance, TypeInv, AlertTypeOK, LocalsInv, Handling, Raising
<1>3. QED
  BY <1>1, <1>2

LEMMA FilterTypes ==
    ASSUME TypeInv, NEW e \in Events, NEW set, Filter(set, e)
    PROVE  /\ pc' \in {"idle", "match"}
           /\ event' \in Events \cup {None} /\ (pc' = "match" => event' \in Events)
           /\ answer' \subseteq Trains
           /\ user' \in [sub : Subs \cup {None}, optedIn : BOOLEAN]
           /\ todo' \subseteq Rows /\ match' \in Rows \cup {None}
           /\ matched' \subseteq Rows /\ skipped' \subseteq Rows
<1>1. CASE e.train \in set
  BY <1>1 DEF Filter, TypeInv, AlertTypeOK
<1>2. CASE e.train \notin set
  BY <1>2, ReturnTypes DEF Filter
<1>3. QED
  BY <1>1, <1>2

LEMMA AlertTypeStep == ASSUME TypeInv, [AlertNext]_alertVars PROVE TypeInv'
<1> USE DEF tables, cache, locals, counts
<1>1. CASE \E e \in Events : Receive(e)
  <2>1. PICK e \in Events : Receive(e)
    BY <1>1
  <2>2. CASE tracked # {} /\ loaded
    BY <2>1, <2>2, FilterTypes DEF Receive, TypeInv, AlertTypeOK, LocalsInv, Handling, Raising
  <2>3. CASE ~ (tracked # {} /\ loaded)
    BY <2>1, <2>3 DEF Receive, TypeInv, AlertTypeOK, LocalsInv, Handling, Raising
  <2>4. QED
    BY <2>2, <2>3
<1>2. CASE RefreshReads
  BY <1>2 DEF RefreshReads, Trains, TypeInv, AlertTypeOK, LocalsInv, Handling, Raising
<1>3. CASE RefreshReturns
  <2>1. event \in Events /\ Filter(answer, event)
    BY <1>3 DEF RefreshReturns, TypeInv, LocalsInv, Handling
  <2>2. QED
    BY <1>3, <2>1, FilterTypes DEF RefreshReturns, TypeInv, AlertTypeOK, LocalsInv, Handling, Raising
<1>4. CASE Match
  <2> DEFINE rows == {r \in corridor : r.train = event.train}
  <2>1. CASE rows = {}
    BY <1>4, <2>1, ReturnTypes DEF Match, TypeInv, AlertTypeOK, LocalsInv, Handling, Raising
  <2>2. CASE rows # {}
    <3>1. rows \subseteq Rows
      BY DEF TypeInv, AlertTypeOK
    <3>2. /\ user' = [sub |-> subscription, optedIn |-> optedIn]
          /\ matched' = rows /\ pc' = "holiday"
          /\ match' \in rows /\ todo' \subseteq rows
      BY <1>4, <2>2 DEF Match
    <3>3. UNCHANGED <<tables, cache, event, answer, skipped, precompute, published, pushed,
                      due, faults, edits>>
      BY <1>4, <2>2 DEF Match
    <3>4. event \in Events
      BY <1>4 DEF Match, TypeInv, LocalsInv, Handling
    <3> HIDE DEF rows
    <3>5. QED
      BY <3>1, <3>2, <3>3, <3>4 DEF TypeInv, AlertTypeOK, LocalsInv, Handling, Raising
  <2>3. QED
    BY <2>1, <2>2
<1>5. CASE Skip
  <2>1. CASE todo = {}
    BY <1>5, <2>1, ReturnTypes DEF Skip, TypeInv, AlertTypeOK, LocalsInv, Handling, Raising
  <2>2. CASE todo # {}
    BY <1>5, <2>2 DEF Skip, TypeInv, AlertTypeOK, LocalsInv, Handling, Raising
  <2>3. QED
    BY <2>1, <2>2
<1>6. CASE NotOnHoliday
  BY <1>6 DEF NotOnHoliday, TypeInv, AlertTypeOK, LocalsInv, Handling, Raising
<1>7. CASE Insert
  <2>1. KeyOf(match) \in Keys /\ pc \in Raising
    BY <1>7, KeyType DEF Insert, TypeInv, LocalsInv, Handling, Raising
  <2>2. CASE KeyOf(match) \in alerts
    <3>1. Advance(todo) /\ alerts' = alerts
      BY <1>7, <2>2 DEF Insert, InsertAlert
    <3>2. QED
      BY <1>7, <2>1, <3>1, AdvanceTypes DEF Insert, TypeInv, AlertTypeOK, LocalsInv, Handling, Raising
  <2>3. CASE KeyOf(match) \notin alerts
    BY <1>7, <2>1, <2>3 DEF Insert, InsertAlert, TypeInv, AlertTypeOK, LocalsInv, Handling, Raising
  <2>4. QED
    BY <2>2, <2>3
<1>8. CASE Publish
  <2>1. KeyOf(match) \in Keys /\ pc \in Raising
    BY <1>8, KeyType DEF Publish, TypeInv, LocalsInv, Handling, Raising
  <2>2. published' \in [Keys -> Nat]
    BY <1>8, <2>1 DEF Publish, Announced, TypeInv, AlertTypeOK
  <2>3. CASE user.optedIn /\ user.sub # None
    BY <1>8, <2>2, <2>3 DEF Publish, TypeInv, AlertTypeOK, LocalsInv, Handling, Raising
  <2>4. CASE ~ (user.optedIn /\ user.sub # None)
    <3>1. Advance(todo)
      BY <1>8, <2>4 DEF Publish
    <3>2. QED
      BY <1>8, <2>1, <2>2, <3>1, AdvanceTypes
         DEF Publish, TypeInv, AlertTypeOK, LocalsInv, Handling, Raising
  <2>5. QED
    BY <2>3, <2>4
<1>9. CASE Push
  <2>1. KeyOf(match) \in Keys /\ pc \in Raising
    BY <1>9, KeyType DEF Push, TypeInv, LocalsInv, Handling, Raising
  <2>2. CASE user.sub \in gone
    BY <1>9, <2>2 DEF Push, TypeInv, AlertTypeOK, LocalsInv, Handling, Raising
  <2>3. CASE user.sub \notin gone
    <3>1. Advance(todo) /\ pushed' \in {pushed, [pushed EXCEPT ![KeyOf(match)] = @ + 1]}
      BY <1>9, <2>3 DEF Push
    <3>2. pushed' \in [Keys -> Nat]
      BY <2>1, <3>1 DEF TypeInv, AlertTypeOK
    <3>3. QED
      BY <1>9, <2>1, <3>1, <3>2, AdvanceTypes
         DEF Push, TypeInv, AlertTypeOK, LocalsInv, Handling, Raising
  <2>4. QED
    BY <2>2, <2>3
<1>10. CASE Clear
  <2>1. pc \in Raising /\ Advance(todo)
    BY <1>10 DEF Clear, Raising
  <2>2. QED
    BY <1>10, <2>1, AdvanceTypes DEF Clear, TypeInv, AlertTypeOK, LocalsInv, Handling, Raising
<1>11. CASE Fail
  <2>1. ReturnToIdle /\ faults' \in 0..MaxFaults
    BY <1>11, Numbers DEF Fail, TypeInv, AlertTypeOK
  <2>2. QED
    BY <1>11, <2>1, ReturnTypes DEF Fail, TypeInv, AlertTypeOK, LocalsInv, Handling, Raising
<1>12. CASE Restart
  <2>1. ReturnToIdle /\ faults' \in 0..MaxFaults
    BY <1>12, Numbers DEF Restart, TypeInv, AlertTypeOK
  <2>2. QED
    BY <1>12, <2>1, ReturnTypes DEF Restart, TypeInv, AlertTypeOK, LocalsInv, Handling, Raising
<1>13. CASE StartPrecompute \/ Subscribe \/ SetPreferences
  <2>1. edits' \in 0..MaxEdits
    BY <1>13, Numbers DEF StartPrecompute, Subscribe, SetPreferences, Edit, TypeInv, AlertTypeOK
  <2>2. QED
    BY <1>13, <2>1 DEF StartPrecompute, Subscribe, SetPreferences, TypeInv, AlertTypeOK,
       LocalsInv, Handling, Raising
<1>14. CASE AddRow \/ Age \/ ExpireSubscription
  BY <1>14 DEF AddRow, Age, ExpireSubscription, TypeInv, AlertTypeOK, LocalsInv, Handling, Raising
<1>15. CASE Invalidate
  BY <1>15 DEF Invalidate, Trains, TypeInv, AlertTypeOK, LocalsInv, Handling, Raising
<1>16. CASE UNCHANGED alertVars
  BY <1>16 DEF alertVars, TypeInv, AlertTypeOK, LocalsInv, Handling, Raising
<1>17. QED
  BY <1>1, <1>2, <1>3, <1>4, <1>5, <1>6, <1>7, <1>8, <1>9, <1>10, <1>11, <1>12, <1>13,
     <1>14, <1>15, <1>16 DEF AlertNext

LEMMA AlertTypeInit == AlertInit => TypeInv
<1> SUFFICES ASSUME AlertInit PROVE TypeInv
  OBVIOUS
<1>1. user \in [sub : Subs \cup {None}, optedIn : BOOLEAN]
  BY DEF AlertInit, NoUser
<1>2. published \in [Keys -> Nat] /\ pushed \in [Keys -> Nat]
  BY DEF AlertInit
<1>3. faults \in 0..MaxFaults /\ edits \in 0..MaxEdits
  BY Numbers DEF AlertInit
<1>4. LocalsInv
  BY DEF AlertInit, LocalsInv, Handling, Raising
<1>5. optedIn \in BOOLEAN /\ corridor \subseteq Rows /\ subscription \in Subs \cup {None}
  BY DEF AlertInit
<1>6. QED
  BY <1>1, <1>2, <1>3, <1>4, <1>5 DEF AlertInit, TypeInv, AlertTypeOK

(* Every variable keeps its type, and the consumer has the event and the   *)
(* match that the step it is at needs.                                     *)
THEOREM AlertTypeCorrect == AlertSpec => []AlertTypeOK
<1>1. TypeInv /\ [AlertNext]_alertVars => TypeInv'
  BY AlertTypeStep
<1>2. TypeInv => AlertTypeOK
  BY DEF TypeInv
<1>3. QED
  BY <1>1, <1>2, AlertTypeInit, PTL DEF AlertSpec

-----------------------------------------------------------------------------
(* Alerts are raised once.                                                 *)

(* What is published has its row, and between the insert of the row and    *)
(* the push the consumer holds the only right to publish and push it.      *)
OnceInv ==
    /\ \A k \in Keys : /\ published[k] <= 1 /\ pushed[k] <= published[k]
                       /\ published[k] > 0 => k \in alerts
    /\ pc = "publish" => KeyOf(match) \in alerts /\ published[KeyOf(match)] = 0
    /\ pc = "push" => published[KeyOf(match)] = 1 /\ pushed[KeyOf(match)] = 0
    /\ pc = "clear" => KeyOf(match) \in alerts

LEMMA OnceStep == ASSUME TypeInv, OnceInv, [AlertNext]_alertVars PROVE OnceInv'
<1> USE DEF tables, cache, locals, counts
<1>1. ASSUME UNCHANGED <<alerts, published, pushed>>,
             pc' \notin {"publish", "push", "clear"}
      PROVE  OnceInv'
  BY <1>1 DEF OnceInv
<1>2. ASSUME UNCHANGED <<alerts, published, pushed, pc, match, event>>
      PROVE  OnceInv'
  BY <1>2 DEF OnceInv, KeyOf
<1>3. ASSUME NEW e \in Events, Receive(e)
      PROVE  UNCHANGED <<alerts, published, pushed>> /\ pc' \notin {"publish", "push", "clear"}
  <2>1. CASE tracked # {} /\ loaded
    BY <1>3, <2>1, FilterTypes DEF Receive
  <2>2. CASE ~ (tracked # {} /\ loaded)
    BY <1>3, <2>2 DEF Receive
  <2>3. QED
    BY <2>1, <2>2
<1>4. ASSUME RefreshReads \/ RefreshReturns \/ Match \/ Skip \/ NotOnHoliday \/ Fail \/ Restart
      PROVE  UNCHANGED <<alerts, published, pushed>> /\ pc' \notin {"publish", "push", "clear"}
  <2>1. CASE RefreshReturns
    <3>1. event \in Events /\ Filter(answer, event)
      BY <2>1 DEF RefreshReturns, TypeInv, LocalsInv, Handling
    <3>2. QED
      BY <2>1, <3>1, FilterTypes DEF RefreshReturns
  <2>2. CASE RefreshReads \/ NotOnHoliday
    BY <2>2 DEF RefreshReads, NotOnHoliday
  <2>3. CASE Match \/ Skip
    BY <2>3, ReturnTypes DEF Match, Skip
  <2>4. CASE Fail \/ Restart
    BY <2>4, ReturnTypes DEF Fail, Restart
  <2>5. QED
    BY <1>4, <2>1, <2>2, <2>3, <2>4
<1>5. ASSUME StartPrecompute \/ AddRow \/ Invalidate \/ Age \/ Subscribe \/ SetPreferences
                 \/ ExpireSubscription \/ UNCHANGED alertVars
      PROVE  UNCHANGED <<alerts, published, pushed, pc, match, event>>
  BY <1>5 DEF StartPrecompute, AddRow, Invalidate, Age, Subscribe, SetPreferences,
     ExpireSubscription, alertVars
<1>6. ASSUME Insert PROVE OnceInv'
  <2>1. pc \in Raising /\ KeyOf(match) \in Keys
    BY <1>6, KeyType DEF Insert, TypeInv, LocalsInv, Handling, Raising
  <2>2. CASE KeyOf(match) \in alerts
    <3>1. Advance(todo) /\ UNCHANGED <<alerts, published, pushed>>
      BY <1>6, <2>2 DEF Insert, InsertAlert
    <3>2. pc' \in {"idle", "holiday"}
      BY <2>1, <3>1, AdvanceTypes
    <3>3. QED
      BY <1>1, <3>1, <3>2
  <2>3. CASE KeyOf(match) \notin alerts
    <3>1. /\ pc' = "publish" /\ alerts' = alerts \cup {KeyOf(match)}
          /\ UNCHANGED <<event, match, published, pushed>>
      BY <1>6, <2>3 DEF Insert, InsertAlert
    <3>2. published[KeyOf(match)] = 0
      BY <2>1, <2>3 DEF OnceInv, TypeInv, AlertTypeOK
    <3>3. KeyOf(match)' = KeyOf(match)
      BY <3>1 DEF KeyOf
    <3>4. QED
      BY <3>1, <3>2, <3>3 DEF OnceInv
  <2>4. QED
    BY <2>2, <2>3
<1>7. ASSUME Publish PROVE OnceInv'
  <2>1. pc = "publish" /\ pc \in Raising /\ KeyOf(match) \in Keys
    BY <1>7, KeyType DEF Publish, TypeInv, LocalsInv, Handling, Raising
  <2> DEFINE k0 == KeyOf(match)
  <2>2. /\ published' = [published EXCEPT ![k0] = @ + 1]
        /\ UNCHANGED <<alerts, pushed>>
    BY <1>7 DEF Publish, Announced
  <2>3. published[k0] = 0 /\ k0 \in alerts /\ pushed[k0] = 0
    BY <2>1 DEF OnceInv, TypeInv, AlertTypeOK
  <2>4. pc' \in {"idle", "holiday"} \/ (pc' = "push" /\ UNCHANGED <<event, match>>)
    BY <1>7, <2>1, AdvanceTypes DEF Publish
  <2>5. pc' = "push" => KeyOf(match)' = k0
    BY <2>4 DEF KeyOf
  <2> HIDE DEF k0
  <2>6. \A k \in Keys : published'[k] = IF k = k0 THEN 1 ELSE published[k]
    BY <2>2, <2>3 DEF TypeInv, AlertTypeOK
  <2>7. \A k \in Keys : /\ published'[k] <= 1 /\ pushed'[k] <= published'[k]
                        /\ published'[k] > 0 => k \in alerts'
    BY <2>2, <2>3, <2>6 DEF OnceInv
  <2>8. k0 \in Keys
    BY <2>1 DEF k0
  <2>9. QED
    BY <2>2, <2>3, <2>4, <2>5, <2>6, <2>7, <2>8 DEF OnceInv
<1>8. ASSUME Push PROVE OnceInv'
  <2>1. pc = "push" /\ pc \in Raising /\ KeyOf(match) \in Keys
    BY <1>8, KeyType DEF Push, TypeInv, LocalsInv, Handling, Raising
  <2> DEFINE k0 == KeyOf(match)
  <2>2. published[k0] = 1 /\ pushed[k0] = 0 /\ UNCHANGED <<alerts, published>>
    BY <1>8, <2>1 DEF OnceInv, Push
  <2>3. CASE user.sub \in gone
    <3>1. pc' = "clear" /\ UNCHANGED <<pushed, match, event>>
      BY <1>8, <2>3 DEF Push
    <3>2. KeyOf(match)' = KeyOf(match) /\ KeyOf(match) \in alerts
      BY <2>1, <2>2, <3>1 DEF OnceInv, KeyOf
    <3>3. QED
      BY <2>2, <3>1, <3>2 DEF OnceInv
  <2>4. CASE user.sub \notin gone
    <3>1. Advance(todo) /\ pushed' \in {pushed, [pushed EXCEPT ![k0] = @ + 1]}
      BY <1>8, <2>4 DEF Push
    <3>2. pc' \in {"idle", "holiday"}
      BY <2>1, <3>1, AdvanceTypes
    <3> HIDE DEF k0
    <3>3. \A k \in Keys : pushed'[k] = pushed[k] \/ (k = k0 /\ pushed'[k] = 1)
      BY <2>2, <3>1 DEF TypeInv, AlertTypeOK
    <3>4. \A k \in Keys : pushed'[k] <= published'[k]
      BY <2>2, <3>3 DEF OnceInv
    <3>5. QED
      BY <2>2, <3>2, <3>4 DEF OnceInv
  <2>5. QED
    BY <2>3, <2>4
<1>9. ASSUME Clear PROVE OnceInv'
  <2>1. pc \in Raising /\ Advance(todo) /\ UNCHANGED <<alerts, published, pushed>>
    BY <1>9 DEF Clear, Raising
  <2>2. QED
    BY <1>1, <2>1, AdvanceTypes
<1>10. QED
  BY <1>1, <1>2, <1>3, <1>4, <1>5, <1>6, <1>7, <1>8, <1>9 DEF AlertNext

(* However often an event is delivered, an alert is published once at most *)
(* and pushed once at most.                                                *)
THEOREM AlertsAreRaisedOnce == AlertSpec => []AlertedOnce
<1>1. AlertInit => OnceInv
  BY DEF AlertInit, OnceInv
<1>2. TypeInv /\ OnceInv /\ [AlertNext]_alertVars => OnceInv'
  BY OnceStep
<1>3. OnceInv => AlertedOnce
  BY DEF OnceInv, AlertedOnce
<1>4. TypeInv /\ [AlertNext]_alertVars => TypeInv'
  BY AlertTypeStep
<1>5. QED
  BY <1>1, <1>2, <1>3, <1>4, AlertTypeInit, PTL DEF AlertSpec

-----------------------------------------------------------------------------
(* No match is passed over.                                                *)

Done(r) == r \in skipped \/ KeyOf(r) \in alerts

(* A match is still to do, is being handled, or is done.                   *)
LoopInv ==
    /\ pc \notin Raising => matched = {}
    /\ \A r \in matched : r \in todo \/ r = match \/ Done(r)
    /\ pc \in {"publish", "push", "clear"} => KeyOf(match) \in alerts

(* The steps that leave a match behind them, whose alert is there.         *)
Leaves == \/ Insert /\ KeyOf(match) \in alerts
          \/ Publish /\ ~ (user.optedIn /\ user.sub # None)
          \/ Push /\ user.sub \notin gone
          \/ Clear

LEMMA LeavesAdvance ==
    ASSUME LoopInv, Leaves
    PROVE  /\ Advance(todo) /\ pc \in Raising /\ alerts' = alerts
           /\ KeyOf(match) \in alerts /\ faults' = faults
BY DEF Leaves, Insert, InsertAlert, Publish, Push, Clear, LoopInv, Raising, tables

LEMMA LoopStep == ASSUME TypeInv, LoopInv, [AlertNext]_alertVars PROVE LoopInv'
<1> USE DEF tables, cache, locals, counts
<1>1. ASSUME ReturnToIdle PROVE LoopInv'
  BY <1>1 DEF ReturnToIdle, LoopInv, Raising
<1>2. ASSUME Leaves PROVE LoopInv'
  <2>1. /\ Advance(todo) /\ pc \in Raising /\ alerts' = alerts
        /\ KeyOf(match) \in alerts
    BY <1>2, LeavesAdvance
  <2>2. CASE todo = {}
    BY <1>1, <2>1, <2>2 DEF Advance
  <2>3. CASE todo # {}
    <3>1. /\ pc' = "holiday" /\ UNCHANGED <<event, matched, skipped>>
          /\ match' \in todo /\ todo' = todo \ {match'}
      BY <2>1, <2>3 DEF Advance
    <3>2. \A r \in matched : r \in todo' \/ r = match' \/ Done(r)
      BY <2>1, <3>1 DEF LoopInv, Done
    <3>3. \A r : KeyOf(r)' = KeyOf(r)
      BY <3>1 DEF KeyOf
    <3>4. \A r \in matched' : r \in todo' \/ r = match' \/ Done(r)'
      <4>1. TAKE r \in matched'
      <4>2. KeyOf(r)' = [commute |-> r.commute, train |-> r.train, kind |-> event'.kind]
        BY DEF KeyOf
      <4>3. KeyOf(r)' = KeyOf(r)
        BY <3>1, <4>2 DEF KeyOf
      <4>4. Done(r) => Done(r)'
        BY <2>1, <3>1, <4>3 DEF Done
      <4>5. QED
        BY <3>1, <3>2, <4>4
    <3>5. QED
      BY <3>1, <3>4 DEF LoopInv, Raising
  <2>4. QED
    BY <2>2, <2>3
<1>3. ASSUME UNCHANGED <<pc, alerts, event, match, todo, matched, skipped>> PROVE LoopInv'
  BY <1>3 DEF LoopInv, Done, KeyOf, Raising
<1>4. ASSUME NEW e \in Events, Receive(e) PROVE LoopInv'
  <2>1. pc = "idle" /\ matched = {}
    BY <1>4 DEF Receive, LoopInv, Raising
  <2>2. CASE tracked # {} /\ loaded
    <3>1. ReturnToIdle \/ (pc' = "match" /\ UNCHANGED matched)
      BY <1>4, <2>2 DEF Receive, Filter
    <3>2. QED
      BY <1>1, <2>1, <3>1 DEF LoopInv, Raising
  <2>3. CASE ~ (tracked # {} /\ loaded)
    BY <1>4, <2>1, <2>3 DEF Receive, LoopInv, Raising
  <2>4. QED
    BY <2>2, <2>3
<1>5. ASSUME RefreshReads PROVE LoopInv'
  BY <1>5 DEF RefreshReads, LoopInv, Raising
<1>6. ASSUME RefreshReturns PROVE LoopInv'
  <2>1. matched = {} /\ (ReturnToIdle \/ (pc' = "match" /\ UNCHANGED matched))
    BY <1>6 DEF RefreshReturns, Filter, LoopInv, Raising
  <2>2. QED
    BY <1>1, <2>1 DEF LoopInv, Raising
<1>7. ASSUME Match PROVE LoopInv'
  <2> DEFINE rows == {r \in corridor : r.train = event.train}
  <2>1. CASE rows = {}
    BY <1>1, <1>7, <2>1 DEF Match
  <2>2. CASE rows # {}
    <3>1. /\ matched' = rows /\ pc' = "holiday"
          /\ match' \in rows /\ todo' = rows \ {match'}
      BY <1>7, <2>2 DEF Match
    <3> HIDE DEF rows
    <3>2. QED
      BY <3>1 DEF LoopInv, Raising
  <2>3. QED
    BY <2>1, <2>2
<1>8. ASSUME Skip PROVE LoopInv'
  <2>1. CASE todo = {}
    BY <1>1, <1>8, <2>1 DEF Skip
  <2>2. CASE todo # {}
    <3>1. /\ pc' = "holiday" /\ skipped' = skipped \cup {match}
          /\ UNCHANGED <<event, matched, alerts>>
          /\ match' \in todo /\ todo' = todo \ {match'}
      BY <1>8, <2>2 DEF Skip
    <3>2. \A r \in matched : r \in todo' \/ r = match' \/ Done(r)'
      <4>1. TAKE r \in matched
      <4>2. KeyOf(r)' = KeyOf(r)
        BY <3>1 DEF KeyOf
      <4>3. QED
        BY <3>1, <4>2 DEF LoopInv, Done
    <3>3. QED
      BY <3>1, <3>2 DEF LoopInv, Raising
  <2>3. QED
    BY <2>1, <2>2
<1>9. ASSUME NotOnHoliday PROVE LoopInv'
  BY <1>9 DEF NotOnHoliday, LoopInv, Done, KeyOf, Raising
<1>10. ASSUME \/ Insert /\ KeyOf(match) \notin alerts
              \/ Publish /\ user.optedIn /\ user.sub # None
              \/ Push /\ user.sub \in gone
       PROVE  LoopInv'
  <2>1. /\ UNCHANGED <<event, match, todo, matched, skipped>>
        /\ pc' \in {"publish", "push", "clear"} /\ pc \in Raising
        /\ alerts \subseteq alerts' /\ KeyOf(match) \in alerts'
    <3>1. CASE Insert /\ KeyOf(match) \notin alerts
      BY <3>1 DEF Insert, InsertAlert, Raising
    <3>2. CASE Publish /\ user.optedIn /\ user.sub # None
      BY <3>2 DEF Publish, LoopInv, Raising
    <3>3. CASE Push /\ user.sub \in gone
      BY <3>3 DEF Push, LoopInv, Raising
    <3>4. QED
      BY <1>10, <3>1, <3>2, <3>3
  <2>2. \A r \in matched : r \in todo \/ r = match \/ Done(r)'
    <3>1. TAKE r \in matched
    <3>2. KeyOf(r)' = KeyOf(r)
      BY <2>1 DEF KeyOf
    <3>3. QED
      BY <2>1, <3>2 DEF LoopInv, Done
  <2>3. KeyOf(match)' = KeyOf(match)
    BY <2>1 DEF KeyOf
  <2>4. QED
    BY <2>1, <2>2, <2>3 DEF LoopInv, Raising
<1>11. ASSUME Fail \/ Restart PROVE LoopInv'
  BY <1>1, <1>11 DEF Fail, Restart
<1>12. ASSUME StartPrecompute \/ AddRow \/ Invalidate \/ Age \/ Subscribe \/ SetPreferences
                  \/ ExpireSubscription \/ UNCHANGED alertVars
       PROVE  LoopInv'
  BY <1>3, <1>12 DEF StartPrecompute, AddRow, Invalidate, Age, Subscribe, SetPreferences,
     ExpireSubscription, alertVars
<1>13. QED
  BY <1>2, <1>4, <1>5, <1>6, <1>7, <1>8, <1>9, <1>10, <1>11, <1>12 DEF AlertNext, Leaves

(* An event handled without a fault leaves none of its matches without an  *)
(* alert, but those it skipped for a holiday.                              *)
THEOREM MatchesAreHandled == AlertSpec => NoMatchPassedOver
<1>1. AlertInit => LoopInv
  BY DEF AlertInit, LoopInv, Raising
<1>2. TypeInv /\ LoopInv /\ [AlertNext]_alertVars => LoopInv'
  BY LoopStep
<1>3. TypeInv /\ LoopInv /\ [AlertNext]_alertVars =>
          [(pc' = "idle" /\ faults' = faults) =>
               \A r \in matched : \/ KeyOf(r) \in alerts'
                                  \/ r \in skipped
                                  \/ r = match /\ pc = "holiday"]_alertVars
  <2> SUFFICES ASSUME TypeInv, LoopInv, [AlertNext]_alertVars, pc' = "idle", faults' = faults,
                      NEW r \in matched
               PROVE  KeyOf(r) \in alerts' \/ r \in skipped \/ (r = match /\ pc = "holiday")
    OBVIOUS
  <2>1. pc \in Raising
    BY DEF LoopInv
  <2>2. CASE Leaves
    <3>1. Advance(todo) /\ alerts' = alerts /\ KeyOf(match) \in alerts
      BY <2>2, LeavesAdvance
    <3>2. todo = {}
      BY <3>1 DEF Advance
    <3>3. QED
      BY <3>1, <3>2 DEF LoopInv, Done
  <2>3. CASE Skip
    <3>1. todo = {} /\ pc = "holiday" /\ alerts' = alerts
      BY <2>3 DEF Skip, tables
    <3>2. QED
      BY <3>1 DEF LoopInv, Done
  <2>4. CASE UNCHANGED pc
    BY <2>1, <2>4 DEF Raising
  <2>5. CASE Fail \/ Restart
    <3>1. faults' = faults + 1 /\ faults \in Int
      BY <2>5 DEF Fail, Restart, TypeInv, AlertTypeOK
    <3>2. QED
      BY <3>1
  <2>6. QED
    BY <2>1, <2>2, <2>3, <2>4, <2>5
       DEF AlertNext, alertVars, locals, Leaves, Raising, Receive, RefreshReads, RefreshReturns, Match,
           NotOnHoliday, Insert, InsertAlert, Publish, Push, StartPrecompute, AddRow,
           Invalidate, Age, Subscribe, SetPreferences, ExpireSubscription
<1>4. TypeInv /\ [AlertNext]_alertVars => TypeInv'
  BY AlertTypeStep
<1>5. QED
  BY <1>1, <1>2, <1>3, <1>4, AlertTypeInit, PTL DEF AlertSpec, NoMatchPassedOver

-----------------------------------------------------------------------------
(* Only faults keep alerts silent.                                         *)

Budget == faults + (IF pc = "publish" THEN 1 ELSE 0)
SilentInv == IsFiniteSet(Unpublished) /\ Cardinality(Unpublished) <= Budget

LEMMA SilentStep == ASSUME TypeInv, OnceInv, SilentInv, [AlertNext]_alertVars PROVE SilentInv'
<1> USE DEF tables, cache, locals, counts
<1>1. faults \in Nat /\ IsFiniteSet(Unpublished) /\ Cardinality(Unpublished) \in Nat
  BY FS_CardinalityType DEF TypeInv, AlertTypeOK, SilentInv
<1>2. ASSUME UNCHANGED <<alerts, published>>, faults' \in Nat, Budget <= Budget'
      PROVE  SilentInv'
  <2>1. Unpublished' = Unpublished
    BY <1>2 DEF Unpublished
  <2>2. Budget \in Nat /\ Budget' \in Nat
    <3>1. \A n \in Nat : n + 1 \in Nat /\ n + 0 \in Nat
      OBVIOUS
    <3>2. /\ Budget = faults + 1 \/ Budget = faults + 0
          /\ Budget' = faults' + 1 \/ Budget' = faults' + 0
      BY DEF Budget
    <3>3. QED
      BY <1>1, <1>2, <3>1, <3>2
  <2>3. QED
    BY <1>1, <1>2, <2>1, <2>2 DEF SilentInv
<1>3. ASSUME UNCHANGED <<alerts, published, faults>>, pc # "publish" \/ pc' = "publish"
      PROVE  SilentInv'
  <2>1. Budget <= Budget'
    BY <1>1, <1>3 DEF Budget
  <2>2. QED
    BY <1>1, <1>2, <1>3, <2>1
<1>4. CASE Insert
  <2>1. pc = "insert" /\ KeyOf(match) \in Keys /\ UNCHANGED <<published, faults>>
    BY <1>4, KeyType DEF Insert, TypeInv, LocalsInv, Handling, Raising
  <2>2. CASE KeyOf(match) \in alerts
    BY <1>3, <1>4, <2>1, <2>2 DEF Insert, InsertAlert
  <2>3. CASE KeyOf(match) \notin alerts
    <3> DEFINE k0 == KeyOf(match)
    <3>1. alerts' = alerts \cup {k0} /\ pc' = "publish"
      BY <1>4, <2>3 DEF Insert, InsertAlert
    <3>2. published[k0] = 0 /\ k0 \notin Unpublished
      BY <2>1, <2>3 DEF OnceInv, TypeInv, AlertTypeOK, Unpublished
    <3> HIDE DEF k0
    <3>3. Unpublished' = Unpublished \cup {k0}
      BY <2>1, <3>1, <3>2 DEF Unpublished
    <3>4. /\ IsFiniteSet(Unpublished')
          /\ Cardinality(Unpublished') = Cardinality(Unpublished) + 1
      BY <1>1, <3>2, <3>3, FS_AddElement
    <3>5. Budget' = faults + 1 /\ Budget = faults
      BY <1>1, <2>1, <3>1 DEF Budget
    <3>6. QED
      BY <1>1, <3>4, <3>5 DEF SilentInv
  <2>4. QED
    BY <2>2, <2>3
<1>5. CASE Publish
  <2>1. pc = "publish" /\ KeyOf(match) \in Keys /\ pc \in Raising
    BY <1>5, KeyType DEF Publish, TypeInv, LocalsInv, Handling, Raising
  <2> DEFINE k0 == KeyOf(match)
  <2>2. published' = [published EXCEPT ![k0] = @ + 1] /\ UNCHANGED <<alerts, faults>>
    BY <1>5 DEF Publish, Announced
  <2>3. k0 \in Unpublished /\ published[k0] = 0
    BY <2>1 DEF OnceInv, Unpublished
  <2>4. pc' # "publish"
    BY <1>5, <2>1, AdvanceTypes DEF Publish
  <2> HIDE DEF k0
  <2>5. alerts \subseteq Keys /\ published \in [Keys -> Nat]
    BY DEF TypeInv, AlertTypeOK
  <2>6. \A k \in alerts : published'[k] = IF k = k0 THEN 1 ELSE published[k]
    BY <2>2, <2>3, <2>5
  <2>7. Unpublished' = Unpublished \ {k0}
    BY <2>2, <2>6 DEF Unpublished
  <2>8. /\ IsFiniteSet(Unpublished')
        /\ Cardinality(Unpublished') = Cardinality(Unpublished) - 1
    BY <1>1, <2>3, <2>7, FS_RemoveElement
  <2>9. Budget = faults + 1 /\ Budget' = faults
    BY <1>1, <2>1, <2>2, <2>4 DEF Budget
  <2>10. QED
    BY <1>1, <2>8, <2>9 DEF SilentInv
<1>6. CASE Fail \/ Restart
  <2>1. UNCHANGED <<alerts, published>> /\ faults' = faults + 1
    BY <1>6 DEF Fail, Restart
  <2>2. Budget <= Budget'
    BY <1>1, <2>1 DEF Budget
  <2>3. QED
    BY <1>1, <1>2, <2>1, <2>2
<1>7. CASE (\E e \in Events : Receive(e)) \/ RefreshReads \/ RefreshReturns \/ Match \/ Skip
           \/ NotOnHoliday \/ Push \/ Clear
  <2>1. UNCHANGED <<alerts, published, faults>> /\ pc # "publish"
    BY <1>7 DEF Receive, RefreshReads, RefreshReturns, Match, Skip, NotOnHoliday, Push, Clear
  <2>2. QED
    BY <1>3, <2>1
<1>8. CASE StartPrecompute \/ AddRow \/ Invalidate \/ Age \/ Subscribe \/ SetPreferences
           \/ ExpireSubscription \/ UNCHANGED alertVars
  <2>1. UNCHANGED <<alerts, published, faults, pc>>
    BY <1>8 DEF StartPrecompute, AddRow, Invalidate, Age, Subscribe, SetPreferences,
       ExpireSubscription, alertVars
  <2>2. QED
    BY <1>3, <2>1
<1>9. QED
  BY <1>4, <1>5, <1>6, <1>7, <1>8 DEF AlertNext

(* Each fault keeps one alert at most from being published.                *)
THEOREM FaultsSilenceOneEach == AlertSpec => []SilentAlertsAreFaults
<1>1. AlertInit => OnceInv /\ SilentInv
  <2> SUFFICES ASSUME AlertInit PROVE OnceInv /\ SilentInv
    OBVIOUS
  <2>1. Unpublished = {} /\ Budget = 0
    BY DEF AlertInit, Unpublished, Budget
  <2>2. SilentInv
    BY <2>1, FS_EmptySet DEF SilentInv
  <2>3. QED
    BY <2>2 DEF AlertInit, OnceInv
<1>2. TypeInv /\ OnceInv /\ [AlertNext]_alertVars => OnceInv'
  BY OnceStep
<1>3. TypeInv /\ OnceInv /\ SilentInv /\ [AlertNext]_alertVars => SilentInv'
  BY SilentStep
<1>4. SilentInv => SilentAlertsAreFaults
  BY DEF SilentInv, SilentAlertsAreFaults, Budget
<1>5. TypeInv /\ [AlertNext]_alertVars => TypeInv'
  BY AlertTypeStep
<1>6. QED
  BY <1>1, <1>2, <1>3, <1>4, <1>5, AlertTypeInit, PTL DEF AlertSpec

=============================================================================
