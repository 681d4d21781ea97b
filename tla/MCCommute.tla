----------------------------- MODULE MCCommute -----------------------------
(***************************************************************************)
(* Instances of Commute for TLC: a grid with both windows, one without the *)
(* evening, and a date that is skipped or has its morning moved.           *)
(***************************************************************************)
EXTENDS Commute

NoWindow == [start |-> None, end |-> None]
Base == [id |-> 0, dayOfWeek |-> 0, work |-> "work", pins |-> <<>>,
         origin |-> [am |-> None, pm |-> None], dest |-> [am |-> None, pm |-> None],
         window |-> [am |-> [start |-> 0, end |-> 0], pm |-> [start |-> 1, end |-> 1]]]
MCTemplates == {Base}
MCOverrides == {[skipped |-> TRUE, work |-> None, window |-> [am |-> NoWindow, pm |-> NoWindow]]}
MCTrips == {[direction |-> "am", lasts |-> 1], [direction |-> "am", lasts |-> None]}
=============================================================================
