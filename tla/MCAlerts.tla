------------------------------ MODULE MCAlerts ------------------------------
(***************************************************************************)
(* Small instances of Alerts: a train that serves one commute in both      *)
(* directions and another commute in one, and a second train.              *)
(***************************************************************************)
EXTENDS Alerts, TLC

CONSTANTS c1, c2, t1, t2

MCRows == {[commute |-> c1, train |-> t1, dir |-> "am"],
           [commute |-> c1, train |-> t1, dir |-> "pm"],
           [commute |-> c2, train |-> t1, dir |-> "am"],
           [commute |-> c2, train |-> t2, dir |-> "pm"]}

(* The subscriptions are told apart by nothing but their names.            *)
Symmetry == Permutations(Subs)
=============================================================================
