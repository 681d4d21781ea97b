---------------------------- MODULE MCTrainViews ----------------------------
(***************************************************************************)
(* Instances of TrainViews for TLC: a night train over midnight and the    *)
(* change of the clocks, with a point it only passes, and a train that     *)
(* comes back to where it started from.                                    *)
(***************************************************************************)
EXTENDS TrainViews

MCSsd == 100
\* At 01:00 UTC of the train's second day.
MCSummerFrom == (MCSsd + 1) * DayMinutes + 60
MCSummerTo == MCSummerFrom + 200 * DayMinutes

p(crs, time, calls, expected) ==
  [crs |-> crs, time |-> time, calls |-> calls, known |-> TRUE, expected |-> expected]
Night == <<p("A", 1430, TRUE, 15), p("B", 1437, TRUE, NoTime), p("P", 5, FALSE, NoTime),
           p("C", 50, TRUE, 20), p("D", 125, TRUE, 12)>>
Loop == <<p("A", 600, TRUE, NoTime), p("B", 605, TRUE, 3), p("C", 610, TRUE, -2), p("A", 615, TRUE, NoTime)>>
Unforeseen(r) == [i \in DOMAIN r |-> [r[i] EXCEPT !.expected = NoTime]]
Unknown(r, points) == [i \in DOMAIN r |-> [r[i] EXCEPT !.known = i \notin points]]

Plain(r) == [route |-> r, rivals |-> {}, linked |-> TRUE, tdLinked |-> TRUE, headcode |-> TRUE,
             byRid |-> FALSE, boarding |-> 2, portions |-> <<>>]
pp(crs, time) == [crs |-> crs, name |-> crs, st |-> time, at |-> NoTime, et |-> NoTime]
Portion == <<pp("C", 50), pp("E", 130)>>
MCScenarios ==
  {[Plain(Night) EXCEPT !.portions = <<Portion>>],
   [Plain(Unforeseen(Night)) EXCEPT !.byRid = TRUE, !.rivals = {-1, 1}],
   [Plain(Night) EXCEPT !.linked = FALSE, !.tdLinked = FALSE],
   [Plain(Unknown(Night, {1, 3})) EXCEPT !.rivals = {-1, 1}, !.tdLinked = FALSE, !.headcode = FALSE],
   Plain(Unknown(Night, {5})),
   [Plain(Unknown(Night, {5})) EXCEPT !.byRid = TRUE],
   Plain(Unknown(Night, {2, 3, 4, 5})),
   [Plain(Unknown(Night, {1, 2, 3, 4, 5})) EXCEPT !.linked = FALSE, !.tdLinked = FALSE],
   Plain(Loop)}

ASSUME MCTimetabled == \A s \in MCScenarios : Timetabled(s)
ASSUME MCToldApart ==
  \A s \in MCScenarios :
    Cardinality({i \in DOMAIN s.route : s.route[i].known /\ s.route[i].calls}) >= MinMatched => ToldApart(s)
ASSUME MCDivided == \A s \in MCScenarios : Divided(s) /\ ToldOnce(s)
=============================================================================
