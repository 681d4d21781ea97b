---------------------------- MODULE MCTimetable ----------------------------
(***************************************************************************)
(* Instances of Timetable for TLC: each file has an hour of its own.       *)
(***************************************************************************)
EXTENDS Timetable

MCMTime == [f \in Files |-> f]
=============================================================================
