--------------------------- MODULE MCNrPosition ----------------------------
(***************************************************************************)
(* Small instances of NrPosition over the promise chain: a few reports,    *)
(* about one TRUST train and one TD train, or about a single train.        *)
(***************************************************************************)
EXTENDS LockedPosition, TLC

(* Reports are told apart by their content and their ticket alone, and the *)
(* Darwin services by which row holds them: both may be permuted.          *)
Symmetry == Permutations(Callers) \cup Permutations(Rids)

(* A bound: the faults are tried where all reports are about a TRUST train *)
(* (the berth handler takes the same steps); without it the two keys and a *)
(* fault together take far more states.                                    *)
FaultsMeetTrustReports == faults > 0 => \A r \in Reports : key[r] \notin TdKeys
=============================================================================
