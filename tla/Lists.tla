-------------------------------- MODULE Lists --------------------------------
(***************************************************************************)
(* Array.filter and Array.sort by the indices they keep and put in order.  *)
(* They are SelectSeq and SortSeq of a test and a comparison; the prover   *)
(* has no definition of those two, so these stand where a proof reads the  *)
(* result.                                                                 *)
(***************************************************************************)
EXTENDS Integers, Sequences, FiniteSets

\* The elements of s whose index is in I, in their order.
Selected(s, I) ==
  LET upTo[n \in 0..Len(s)] ==
        IF n = 0 THEN <<>>
        ELSE IF n \in I THEN Append(upTo[n - 1], s[n]) ELSE upTo[n - 1]
  IN upTo[Len(s)]

\* The elements of s in the order of their indices that "before" gives, a set
\* of pairs that is a strict total order.
Sorted(s, before) ==
  [k \in DOMAIN s |->
     s[CHOOSE i \in DOMAIN s : Cardinality({j \in DOMAIN s : <<j, i>> \in before}) = k - 1]]

\* The stops, or the calls, of a list that have a station.
withCrs(points) == Selected(points, {i \in DOMAIN points : points[i].crs # ""})
=============================================================================
