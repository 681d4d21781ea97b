--------------------------- MODULE MCDarwinTrain ----------------------------
(***************************************************************************)
(* Small instances of DarwinTrain: a run by day, and one over midnight     *)
(* with its last timed stop on the next day.                               *)
(***************************************************************************)
EXTENDS DarwinTrain

Last == Largest(Timed)

ByDay == [s \in Timed |-> IF s = Last THEN 620 ELSE 600]
OverMidnight == [s \in Timed |-> IF s = Last THEN 10 ELSE 1430]

MCTimetables == {ByDay, OverMidnight}
=============================================================================
