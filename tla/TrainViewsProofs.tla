-------------------------- MODULE TrainViewsProofs --------------------------
(***************************************************************************)
(* Proofs about the views of one train, for any routes, runs, feeds, losses*)
(* and times.                                                              *)
(***************************************************************************)
EXTENDS TrainViews, NaturalsInduction, WellFoundedInduction, FiniteSetTheorems, TLAPS

-----------------------------------------------------------------------------
(* Smallest and largest numbers.                                           *)

LEMMA NatHasSmallest ==
    ASSUME NEW S \in SUBSET Nat, S # {}
    PROVE  \E x \in S : \A y \in S : x <= y
<1>1. PICK x \in S : \A y \in S : ~ (<<y, x>> \in OpToRel(<, Nat))
  BY NatLessThanWellFounded, WFMin
<1>2. \A y \in S : ~ (y < x)
  BY <1>1 DEF OpToRel
<1>3. QED
  BY <1>2

LEMMA BoundedHasLargest ==
    ASSUME NEW n \in Nat, NEW S \in SUBSET 0..n, S # {}
    PROVE  \E x \in S : \A y \in S : x >= y
<1> DEFINE D == {n - x : x \in S}
<1>1. D \in SUBSET Nat /\ D # {}
  <2>1. \A x \in S : x \in 0..n
    OBVIOUS
  <2>2. \A x \in S : n - x \in Nat
    BY <2>1
  <2>3. QED
    BY <2>2
<1>2. PICK d \in D : \A e \in D : d <= e
  BY <1>1, NatHasSmallest
<1>3. PICK x \in S : d = n - x
  BY <1>2
<1>4. \A y \in S : n - x <= n - y
  BY <1>2, <1>3
<1>5. \A y \in S : y \in Int
  OBVIOUS
<1>6. QED
  BY <1>3, <1>4, <1>5

LEMMA MinIsSmallest ==
    ASSUME NEW S \in SUBSET Nat, S # {}
    PROVE  Min(S) \in S /\ \A y \in S : Min(S) <= y
BY NatHasSmallest DEF Min

LEMMA MaxIsLargest ==
    ASSUME NEW n \in Nat, NEW S \in SUBSET 0..n, S # {}
    PROVE  Max(S) \in S /\ \A y \in S : Max(S) >= y
BY BoundedHasLargest DEF Max

(* Of the members of S the one that f makes the smallest, the first of two.*)
LEMMA NearestExists ==
    ASSUME NEW S \in SUBSET Nat, S # {}, NEW f \in [S -> Nat]
    PROVE  \E i \in S : \A j \in S : f[i] < f[j] \/ (f[i] = f[j] /\ i <= j)
<1> DEFINE V == {f[i] : i \in S}
<1>1. V \in SUBSET Nat /\ V # {}
  OBVIOUS
<1>2. PICK v \in V : \A w \in V : v <= w
  BY <1>1, NatHasSmallest
<1> DEFINE T == {i \in S : f[i] = v}
<1>3. T \in SUBSET Nat /\ T # {}
  BY <1>2
<1>4. PICK i \in T : \A j \in T : i <= j
  BY <1>3, NatHasSmallest
<1>5. \A j \in S : f[i] < f[j] \/ (f[i] = f[j] /\ i <= j)
  <2> SUFFICES ASSUME NEW j \in S PROVE f[i] < f[j] \/ (f[i] = f[j] /\ i <= j)
    OBVIOUS
  <2>1. f[i] = v /\ v <= f[j] /\ f[i] \in Nat /\ f[j] \in Nat
    BY <1>2, <1>4
  <2>2. CASE f[j] = v
    BY <1>4, <2>1, <2>2
  <2>3. CASE f[j] # v
    BY <2>1, <2>3
  <2>4. QED
    BY <2>2, <2>3
<1>6. QED
  BY <1>4, <1>5

LEMMA SeqFacts ==
    ASSUME NEW X, NEW s \in Seq(X)
    PROVE  Len(s) \in Nat /\ DOMAIN s = 1..Len(s)
OBVIOUS

LEMMA GapIsNat == ASSUME NEW a \in Int, NEW b \in Int PROVE Gap(a, b) \in Nat
BY DEF Gap

-----------------------------------------------------------------------------
(* Walks over a list: what holds of each prefix, and the function that a   *)
(* recursive definition over the prefixes defines.                         *)

LEMMA PrefixInduction ==
    ASSUME NEW N \in Nat, NEW S, 0 \in S, \A n \in 1..N : n - 1 \in S => n \in S
    PROVE  \A n \in 0..N : n \in S
<1> DEFINE Bad == {n \in 0..N : n \notin S}
<1>1. SUFFICES ASSUME Bad # {} PROVE FALSE
  OBVIOUS
<1>2. PICK m \in Bad : \A n \in Bad : m <= n
  <2>1. Bad \in SUBSET Nat
    OBVIOUS
  <2> HIDE DEF Bad
  <2>2. QED
    BY <1>1, <2>1, NatHasSmallest
<1>3. m \in 1..N /\ m - 1 \in 0..N /\ ~ (m <= m - 1)
  BY <1>2
<1>4. m - 1 \in S
  BY <1>2, <1>3
<1>5. QED
  BY <1>2, <1>3, <1>4

IsWalk(f, N, T, base, step) ==
    /\ f \in [0..N -> T]
    /\ f[0] = base
    /\ \A n \in 1..N : f[n] = step[<<n, f[n - 1]>>]

LEMMA PrefixFunction ==
    ASSUME NEW N \in Nat, NEW T, NEW base \in T, NEW step \in [(1..N) \X T -> T]
    PROVE  \E f : IsWalk(f, N, T, base, step)
<1> DEFINE Walk(f, m) == /\ f \in [0..m -> T]
                         /\ f[0] = base
                         /\ \A n \in 1..m : f[n] = step[<<n, f[n - 1]>>]
           S == {m \in 0..N : \E f : Walk(f, m)}
<1>1. 0 \in S
  <2> DEFINE g == [n \in 0..0 |-> base]
  <2>1. 0 \in 0..0 /\ 0 \in 0..N
    OBVIOUS
  <2>2. g \in [0..0 -> T] /\ g[0] = base /\ \A n \in 1..0 : g[n] = step[<<n, g[n - 1]>>]
    BY <2>1
  <2>3. Walk(g, 0)
    BY <2>2
  <2> HIDE DEF g, Walk
  <2>4. QED
    BY <2>1, <2>3
<1>2. \A m \in 1..N : m - 1 \in S => m \in S
  <2> SUFFICES ASSUME NEW m \in 1..N, m - 1 \in S PROVE m \in S
    OBVIOUS
  <2>1. PICK f : Walk(f, m - 1)
    OBVIOUS
  <2> DEFINE g == [n \in 0..m |-> IF n = m THEN step[<<m, f[m - 1]>>] ELSE f[n]]
  <2>2. f[m - 1] \in T
    BY <2>1
  <2>3. g \in [0..m -> T]
    <3>1. step[<<m, f[m - 1]>>] \in T
      BY <2>2
    <3>2. \A n \in 0..m : n # m => f[n] \in T
      BY <2>1
    <3>3. QED
      BY <3>1, <3>2
  <2>4. g[0] = base
    BY <2>1
  <2>5. \A n \in 1..m : g[n] = step[<<n, g[n - 1]>>]
    <3> SUFFICES ASSUME NEW n \in 1..m PROVE g[n] = step[<<n, g[n - 1]>>]
      OBVIOUS
    <3>1. g[n - 1] = f[n - 1]
      OBVIOUS
    <3>2. CASE n = m
      <4>1. g[m] = step[<<m, f[m - 1]>>]
        OBVIOUS
      <4> HIDE DEF g
      <4>2. QED
        BY <3>1, <3>2, <4>1
    <3>3. CASE n # m
      <4>1. n \in 1..m - 1 /\ g[n] = f[n]
        BY <3>3
      <4>2. QED
        BY <2>1, <3>1, <4>1
    <3>4. QED
      BY <3>2, <3>3
  <2>6. Walk(g, m)
    BY <2>3, <2>4, <2>5
  <2> HIDE DEF g, Walk
  <2>7. QED
    BY <2>6
<1> HIDE DEF S
<1>3. N \in S
  BY <1>1, <1>2, PrefixInduction
<1>4. QED
  BY <1>3 DEF S, IsWalk

-----------------------------------------------------------------------------
(* What the two list operators give.                                       *)

IsFilter(upTo, s, I, X) ==
    /\ upTo \in [0..Len(s) -> Seq(X)]
    /\ upTo[0] = <<>>
    /\ \A n \in 1..Len(s) : upTo[n] = IF n \in I THEN Append(upTo[n - 1], s[n]) ELSE upTo[n - 1]
    /\ Selected(s, I) = upTo[Len(s)]

LEMMA SelectedWalk ==
    ASSUME NEW X, NEW s \in Seq(X), NEW I
    PROVE  \E upTo : IsFilter(upTo, s, I, X)
<1>1. PICK N \in Nat : N = Len(s)
  OBVIOUS
<1>2. PICK T : T = Seq(X)
  OBVIOUS
<1>3. <<>> \in T /\ \A n \in 1..N : \A t \in T : Append(t, s[n]) \in T
  BY <1>1, <1>2
<1> DEFINE step == [p \in (1..N) \X T |-> IF p[1] \in I THEN Append(p[2], s[p[1]]) ELSE p[2]]
           body(f) == [n \in 0..N |-> IF n = 0 THEN <<>>
                                      ELSE IF n \in I THEN Append(f[n - 1], s[n]) ELSE f[n - 1]]
           upTo == CHOOSE f : f = body(f)
<1>4. step \in [(1..N) \X T -> T]
  <2> SUFFICES ASSUME NEW p \in (1..N) \X T
               PROVE  (IF p[1] \in I THEN Append(p[2], s[p[1]]) ELSE p[2]) \in T
    OBVIOUS
  <2>1. p[1] \in 1..N /\ p[2] \in T
    OBVIOUS
  <2>2. QED
    BY <1>3, <2>1
<1>5. PICK f : IsWalk(f, N, T, <<>>, step)
  <2> HIDE DEF step
  <2>1. QED
    BY <1>3, <1>4, PrefixFunction
<1>6. \A n \in 1..N : f[n] = IF n \in I THEN Append(f[n - 1], s[n]) ELSE f[n - 1]
  <2> SUFFICES ASSUME NEW n \in 1..N
               PROVE  f[n] = IF n \in I THEN Append(f[n - 1], s[n]) ELSE f[n - 1]
    OBVIOUS
  <2>1. n - 1 \in 0..N
    OBVIOUS
  <2>2. f[n - 1] \in T
    BY <1>5, <2>1 DEF IsWalk
  <2>3. <<n, f[n - 1]>> \in (1..N) \X T
    BY <2>2
  <2>4. step[<<n, f[n - 1]>>] = IF n \in I THEN Append(f[n - 1], s[n]) ELSE f[n - 1]
    BY <2>3
  <2> HIDE DEF step
  <2>5. QED
    BY <1>5, <2>4 DEF IsWalk
<1>7. f = body(f)
  <2>1. \A n \in 0..N : n # 0 => n \in 1..N
    OBVIOUS
  <2>2. \A n \in 0..N : f[n] = IF n = 0 THEN <<>>
                                ELSE IF n \in I THEN Append(f[n - 1], s[n]) ELSE f[n - 1]
    <3>1. f[0] = <<>>
      BY <1>5 DEF IsWalk
    <3>2. QED
      BY <1>6, <2>1, <3>1
  <2>3. f = [n \in 0..N |-> f[n]]
    BY <1>5 DEF IsWalk
  <2>4. QED
    BY <2>2, <2>3
<1>8. upTo = body(upTo)
  BY <1>7
<1>9. Selected(s, I) = upTo[N]
  BY <1>1 DEF Selected
<1> HIDE DEF upTo
<1>10. /\ upTo[0] = <<>>
       /\ \A n \in 1..N : upTo[n] = IF n \in I THEN Append(upTo[n - 1], s[n]) ELSE upTo[n - 1]
  <2>1. 0 \in 0..N /\ \A n \in 1..N : n \in 0..N /\ n # 0
    OBVIOUS
  <2>2. \A n \in 0..N : upTo[n] = IF n = 0 THEN <<>>
                                   ELSE IF n \in I THEN Append(upTo[n - 1], s[n]) ELSE upTo[n - 1]
    BY <1>8
  <2> HIDE DEF body
  <2>3. QED
    BY <2>1, <2>2
<1>11. upTo \in [0..N -> T]
  <2> DEFINE S == {n \in 0..N : upTo[n] \in T}
  <2>1. 0 \in S
    BY <1>3, <1>10
  <2>2. \A n \in 1..N : n - 1 \in S => n \in S
    <3> SUFFICES ASSUME NEW n \in 1..N, n - 1 \in S PROVE n \in S
      OBVIOUS
    <3>1. n \in 0..N /\ upTo[n - 1] \in T
      OBVIOUS
    <3>2. Append(upTo[n - 1], s[n]) \in T
      BY <1>3, <3>1
    <3>3. upTo[n] \in T
      BY <1>10, <3>1, <3>2
    <3>4. QED
      BY <3>1, <3>3
  <2> HIDE DEF S
  <2>3. \A n \in 0..N : n \in S
    BY <2>1, <2>2, PrefixInduction
  <2>4. upTo = [n \in 0..N |-> upTo[n]]
    BY <1>8
  <2>5. QED
    BY <2>3, <2>4 DEF S
<1>12. QED
  BY <1>1, <1>2, <1>9, <1>10, <1>11 DEF IsFilter

(* out is s at the indices f, which are those of I up to n, in their order.*)
IsSelection(f, out, s, I, n) ==
    /\ f \in [1..Len(out) -> (1..n) \cap I]
    /\ \A j, k \in 1..Len(out) : j < k => f[j] < f[k]
    /\ \A i \in (1..n) \cap I : \E k \in 1..Len(out) : f[k] = i
    /\ \A k \in 1..Len(out) : out[k] = s[f[k]]

LEMMA SelectionGrows ==
    ASSUME NEW X, NEW s \in Seq(X), NEW I, NEW n \in 1..Len(s), NEW out \in Seq(X), NEW f,
           IsSelection(f, out, s, I, n - 1), n \in I
    PROVE  \E g : IsSelection(g, Append(out, s[n]), s, I, n)
<1> DEFINE m == Len(out) + 1
           g == [k \in 1..m |-> IF k = m THEN n ELSE f[k]]
           new == Append(out, s[n])
<1>1. /\ Len(out) \in Nat /\ n \in Nat /\ s[n] \in X
      /\ Len(new) = m /\ new[m] = s[n] /\ \A k \in 1..Len(out) : new[k] = out[k]
  OBVIOUS
<1>2. \A k \in 1..m : k # m => k \in 1..Len(out)
  BY <1>1
<1>3. \A k \in 1..Len(out) : f[k] \in (1..n - 1) \cap I /\ f[k] \in 1..n /\ f[k] < n
  <2>1. \A k \in 1..Len(out) : f[k] \in (1..n - 1) \cap I
    BY DEF IsSelection
  <2>2. QED
    BY <1>1, <2>1
<1>4. g \in [1..m -> (1..n) \cap I]
  <2>1. \A k \in 1..m : (IF k = m THEN n ELSE f[k]) \in (1..n) \cap I
    BY <1>1, <1>2, <1>3
  <2>2. QED
    BY <2>1
<1>5. g[m] = n /\ \A k \in 1..Len(out) : g[k] = f[k]
  BY <1>1
<1> HIDE DEF g
<1>6. \A j, k \in 1..m : j < k => g[j] < g[k]
  <2> SUFFICES ASSUME NEW j \in 1..m, NEW k \in 1..m, j < k PROVE g[j] < g[k]
    OBVIOUS
  <2>1. j \in 1..Len(out) /\ g[j] = f[j]
    BY <1>1, <1>5
  <2>2. CASE k = m
    BY <1>3, <1>5, <2>1, <2>2
  <2>3. CASE k # m
    BY <1>2, <1>5, <2>1, <2>3 DEF IsSelection
  <2>4. QED
    BY <2>2, <2>3
<1>7. \A i \in (1..n) \cap I : \E k \in 1..m : g[k] = i
  <2> SUFFICES ASSUME NEW i \in (1..n) \cap I PROVE \E k \in 1..m : g[k] = i
    OBVIOUS
  <2>1. m \in 1..m
    BY <1>1
  <2>2. CASE i = n
    BY <1>5, <2>1, <2>2
  <2>3. CASE i # n
    <3>1. i \in (1..n - 1) \cap I
      BY <1>1, <2>3
    <3>2. PICK k \in 1..Len(out) : f[k] = i
      BY <3>1 DEF IsSelection
    <3>3. k \in 1..m
      BY <1>1
    <3>4. QED
      BY <1>5, <3>2, <3>3
  <2>4. QED
    BY <2>2, <2>3
<1>8. \A k \in 1..m : new[k] = s[g[k]]
  <2> SUFFICES ASSUME NEW k \in 1..m PROVE new[k] = s[g[k]]
    OBVIOUS
  <2>1. CASE k = m
    BY <1>1, <1>5, <2>1
  <2>2. CASE k # m
    <3>1. k \in 1..Len(out)
      BY <1>2, <2>2
    <3>2. out[k] = s[f[k]]
      BY <3>1 DEF IsSelection
    <3>3. QED
      BY <1>1, <1>5, <3>1, <3>2
  <2>3. QED
    BY <2>1, <2>2
<1> HIDE DEF new, m
<1>9. IsSelection(g, new, s, I, n)
  BY <1>1, <1>4, <1>6, <1>7, <1>8 DEF IsSelection
<1>10. QED
  BY <1>9 DEF new

LEMMA SelectedIndices ==
    ASSUME NEW X, NEW s \in Seq(X), NEW I
    PROVE  /\ Selected(s, I) \in Seq(X)
           /\ \E f : IsSelection(f, Selected(s, I), s, I, Len(s))
<1>0. PICK upTo : IsFilter(upTo, s, I, X)
  BY SelectedWalk
<1>1. /\ upTo \in [0..Len(s) -> Seq(X)]
      /\ upTo[0] = <<>>
      /\ \A n \in 1..Len(s) : upTo[n] = IF n \in I THEN Append(upTo[n - 1], s[n]) ELSE upTo[n - 1]
      /\ Selected(s, I) = upTo[Len(s)]
  BY <1>0 DEF IsFilter
<1> DEFINE S == {n \in 0..Len(s) : \E f : IsSelection(f, upTo[n], s, I, n)}
<1>2. Len(s) \in Nat
  OBVIOUS
<1>3. 0 \in S
  <2> DEFINE f == [k \in 1..0 |-> 0]
  <2>1. IsSelection(f, <<>>, s, I, 0)
    BY DEF IsSelection
  <2>2. 0 \in 0..Len(s)
    BY <1>2
  <2> HIDE DEF f
  <2>3. QED
    BY <1>1, <2>1, <2>2
<1>4. \A n \in 1..Len(s) : n - 1 \in S => n \in S
  <2> SUFFICES ASSUME NEW n \in 1..Len(s), n - 1 \in S PROVE n \in S
    OBVIOUS
  <2>1. n \in 0..Len(s) /\ n - 1 \in 0..Len(s)
    BY <1>2
  <2>2. PICK f : IsSelection(f, upTo[n - 1], s, I, n - 1)
    OBVIOUS
  <2>3. upTo[n - 1] \in Seq(X)
    BY <1>1, <2>1
  <2>4. CASE n \in I
    <3>1. \E g : IsSelection(g, Append(upTo[n - 1], s[n]), s, I, n)
      BY <2>2, <2>3, <2>4, SelectionGrows
    <3>2. upTo[n] = Append(upTo[n - 1], s[n])
      BY <1>1, <2>4
    <3>3. QED
      BY <2>1, <3>1, <3>2
  <2>5. CASE n \notin I
    <3>1. upTo[n] = upTo[n - 1]
      BY <1>1, <2>5
    <3>2. (1..n) \cap I = (1..n - 1) \cap I
      BY <1>2, <2>5
    <3>3. IsSelection(f, upTo[n], s, I, n)
      BY <2>2, <3>1, <3>2 DEF IsSelection
    <3>4. QED
      BY <2>1, <3>3
  <2>6. QED
    BY <2>4, <2>5
<1> HIDE DEF S
<1>5. \A n \in 0..Len(s) : n \in S
  BY <1>2, <1>3, <1>4, PrefixInduction
<1>6. Len(s) \in S
  BY <1>2, <1>5
<1>7. upTo[Len(s)] \in Seq(X)
  BY <1>1, <1>2
<1>8. QED
  BY <1>1, <1>6, <1>7 DEF S

(* Nothing is left out where every index is selected.                      *)
LEMMA SelectedAll ==
    ASSUME NEW X, NEW s \in Seq(X), NEW I, 1..Len(s) \subseteq I
    PROVE  Selected(s, I) = s
<1>0. PICK upTo : IsFilter(upTo, s, I, X)
  BY SelectedWalk
<1>1. /\ upTo \in [0..Len(s) -> Seq(X)]
      /\ upTo[0] = <<>>
      /\ \A n \in 1..Len(s) : upTo[n] = IF n \in I THEN Append(upTo[n - 1], s[n]) ELSE upTo[n - 1]
      /\ Selected(s, I) = upTo[Len(s)]
  BY <1>0 DEF IsFilter
<1> DEFINE S == {n \in 0..Len(s) : Len(upTo[n]) = n /\ \A k \in 1..n : upTo[n][k] = s[k]}
<1>2. Len(s) \in Nat
  OBVIOUS
<1>3. 0 \in S
  BY <1>1, <1>2
<1>4. \A n \in 1..Len(s) : n - 1 \in S => n \in S
  <2> SUFFICES ASSUME NEW n \in 1..Len(s), n - 1 \in S PROVE n \in S
    OBVIOUS
  <2>1. n \in 0..Len(s) /\ n - 1 \in 0..Len(s) /\ n \in I /\ s[n] \in X
    BY <1>2
  <2>2. upTo[n - 1] \in Seq(X) /\ upTo[n] = Append(upTo[n - 1], s[n])
    BY <1>1, <2>1
  <2>3. Len(upTo[n - 1]) = n - 1 /\ \A k \in 1..n - 1 : upTo[n - 1][k] = s[k]
    OBVIOUS
  <2>4. Len(upTo[n]) = n
    BY <2>1, <2>2, <2>3
  <2>5. \A k \in 1..n : upTo[n][k] = s[k]
    BY <2>1, <2>2, <2>3
  <2>6. QED
    BY <2>1, <2>4, <2>5
<1> HIDE DEF S
<1>5. \A n \in 0..Len(s) : n \in S
  BY <1>2, <1>3, <1>4, PrefixInduction
<1>6. Len(s) \in S
  BY <1>2, <1>5
<1>7. upTo[Len(s)] \in Seq(X)
  BY <1>1, <1>2
<1>8. QED
  BY <1>1, <1>6, <1>7 DEF S

(* What is in order already stays as it is.                                *)
LEMMA SortedInOrder ==
    ASSUME NEW X, NEW s \in Seq(X), NEW before,
           \A i, j \in 1..Len(s) : <<j, i>> \in before <=> j < i
    PROVE  Sorted(s, before) = s
<1>1. Len(s) \in Nat /\ DOMAIN s = 1..Len(s)
  OBVIOUS
<1>2. \A i \in 1..Len(s) : Cardinality({j \in 1..Len(s) : <<j, i>> \in before}) = i - 1
  <2> SUFFICES ASSUME NEW i \in 1..Len(s)
               PROVE  Cardinality({j \in 1..Len(s) : <<j, i>> \in before}) = i - 1
    OBVIOUS
  <2>1. {j \in 1..Len(s) : <<j, i>> \in before} = 1..(i - 1)
    BY <1>1
  <2>2. Cardinality(1..(i - 1)) = i - 1
    BY <1>1, FS_Interval
  <2>3. QED
    BY <2>1, <2>2
<1>3. \A k \in 1..Len(s) :
        (CHOOSE i \in 1..Len(s) : Cardinality({j \in 1..Len(s) : <<j, i>> \in before}) = k - 1) = k
  <2> SUFFICES ASSUME NEW k \in 1..Len(s)
               PROVE  (CHOOSE i \in 1..Len(s) : Cardinality({j \in 1..Len(s) : <<j, i>> \in before}) = k - 1) = k
    OBVIOUS
  <2> DEFINE card(i) == Cardinality({j \in 1..Len(s) : <<j, i>> \in before})
  <2>1. \A i \in 1..Len(s) : card(i) = i - 1
    BY <1>2
  <2> HIDE DEF card
  <2>2. (CHOOSE i \in 1..Len(s) : card(i) = k - 1) = k
    BY <1>1, <2>1
  <2>3. QED
    BY <2>2 DEF card
<1>4. Sorted(s, before) = [k \in 1..Len(s) |-> s[k]]
  <2> DEFINE place(k) == CHOOSE i \in 1..Len(s) : Cardinality({j \in 1..Len(s) : <<j, i>> \in before}) = k - 1
  <2>1. Sorted(s, before) = [k \in 1..Len(s) |-> s[place(k)]]
    BY <1>1 DEF Sorted
  <2>2. \A k \in 1..Len(s) : place(k) = k
    BY <1>3
  <2> HIDE DEF place
  <2>3. QED
    BY <2>1, <2>2
<1>5. QED
  BY <1>1, <1>4

-----------------------------------------------------------------------------
(* The train and what is known of it: whatever is reported, lost or held,  *)
(* every row of the tables is of a place where the train has been or, of   *)
(* another train's, of one where that was reported; there is one row of    *)
(* each feed; and Darwin has times only of points behind the train.        *)

Places == {p.crs : p \in ToSet(route)}
hasBeen(crs) == hasPassed(crs) \/ crs \in strays

ClockInv ==
    /\ scenario \in Scenarios
    /\ now \in Int
    /\ passed \in Seq(Int) /\ at <= Len(route)
    /\ acted \subseteq 1..at

RowInv(r) ==
    /\ r.at \in Int /\ r.td \in BOOLEAN /\ r.crs \in Places
    /\ hasBeen(r.crs)
    /\ r.rid \in {Ours, NoRid}
    /\ r.rid = Ours => /\ hasPassed(r.crs)
                       /\ r.trainId = IF r.td THEN "TD:" \o Headcode ELSE "TRUST"

PositionsInv ==
    /\ \A r \in positions : RowInv(r)
    /\ \A r, q \in positions : r.trainId = q.trainId /\ r.td = q.td => r = q

Entry == [rid : {Ours, NoRid}, crs : STRING \ {""}, at : Int, lateness : Int, td : BOOLEAN]

heardAt == {<<history[k].crs, history[k].at>> : k \in DOMAIN history}
wasThere(c) == \E i \in 1..at : c = <<route[i].crs, passed[i]>>
TablesInv ==
    /\ PositionsInv
    /\ history \in Seq(Entry)
    /\ \A c \in heardAt : wasThere(c)

WorldInv == ClockInv /\ TablesInv

LEMMA PointFacts ==
    ASSUME NEW p \in Point
    PROVE  /\ p.crs \in STRING /\ p.crs # "" /\ p.time \in Int /\ p.time # NoTime
           /\ p.calls \in BOOLEAN /\ p.known \in BOOLEAN /\ p.expected \in Int
<1>1. p.crs \in STRING \ {""} /\ p.calls \in BOOLEAN /\ p.known \in BOOLEAN /\ p.expected \in Int
  BY DEF Point
<1>2. p.time \in 0..(DayMinutes - 1)
  BY DEF Point
<1>3. \A x \in 0..(DayMinutes - 1) : x \in Int /\ x # NoTime
  BY DEF DayMinutes, NoTime
<1>4. p.time \in Int /\ p.time # NoTime
  BY <1>2, <1>3
<1>5. p.crs \in STRING
  BY <1>1
<1>6. p.crs # ""
  BY <1>1
<1>7. QED
  BY <1>1, <1>4, <1>5, <1>6

(* What the assumption says of the route at hand.                          *)
LEMMA RouteFacts ==
    ASSUME ClockInv
    PROVE  /\ route \in Seq(Point) /\ Len(route) \in Nat /\ Len(route) > 1
           /\ \A i \in 1..Len(route) : /\ route[i].crs \in STRING /\ route[i].crs # ""
                                       /\ route[i].time \in Int /\ route[i].time # NoTime
                                       /\ route[i].calls \in BOOLEAN /\ route[i].known \in BOOLEAN
                                       /\ route[i].expected \in Int
           /\ at \in Nat
<1>1. scenario.route \in Seq(Point) /\ Len(scenario.route) > 1
  BY TrainViewsAssumption DEF ClockInv
<1>2. \A p \in Point : /\ p.crs \in STRING /\ p.crs # "" /\ p.time \in Int /\ p.time # NoTime
                       /\ p.calls \in BOOLEAN /\ p.known \in BOOLEAN /\ p.expected \in Int
  BY PointFacts
<1>3. \A i \in 1..Len(route) : route[i] \in Point
  BY <1>1 DEF route
<1>4. at \in Nat
  BY DEF ClockInv, at
<1>5. Len(route) \in Nat
  BY <1>1 DEF route
<1>6. QED
  BY <1>1, <1>2, <1>3, <1>4, <1>5 DEF route

LEMMA InstantIsInt ==
    ASSUME NEW day \in Int, NEW hhmm \in Int
    PROVE  londonWallToInstant(day, hhmm) \in Int
BY TrainViewsAssumption DEF londonWallToInstant, londonOffsetMinutes, DayMinutes

LEMMA BookedIsInt ==
    ASSUME ClockInv, NEW i \in 1..Len(route)
    PROVE  bookedAt(i) \in Int
<1>1. route[i].time \in Int /\ Ssd \in Int
  <2>1. Ssd \in Nat
    BY TrainViewsAssumption
  <2>2. route[i].time \in Int
    BY RouteFacts
  <2>3. QED
    BY <2>1, <2>2
<1>2. Ssd + (IF route[i].time < route[1].time THEN 1 ELSE 0) \in Int
  BY <1>1
<1>3. QED
  BY <1>1, <1>2, InstantIsInt DEF bookedAt, bookedOn, bookedDay

LEMMA TextIsInt ==
    ASSUME NEW t \in Int
    PROVE  ukHhmm(t) \in Int
<1>1. PICK q \in Int : q = londonOffsetMinutes(t)
  BY DEF londonOffsetMinutes
<1>2. (t + q) % 1440 \in Int
  BY <1>1
<1>3. QED
  BY <1>1, <1>2 DEF ukHhmm, DayMinutes, NoTime

LEMMA ExpectedIsInt ==
    ASSUME ClockInv, NEW i \in 1..Len(route)
    PROVE  expectedAt(i) \in Int /\ ukHhmm(expectedAt(i)) \in Int
<1>1. bookedAt(i) \in Int /\ route[i].expected \in Int
  BY BookedIsInt, RouteFacts
<1>2. expectedAt(i) \in Int
  BY <1>1 DEF expectedAt, NoTime
<1>3. QED
  BY <1>2, TextIsInt

LEMMA PassedIsInt ==
    ASSUME ClockInv, NEW i \in acted
    PROVE  passed[i] \in Int /\ ukHhmm(passed[i]) \in Int
<1>1. passed[i] \in Int
  BY DEF ClockInv, at
<1>2. QED
  BY <1>1, TextIsInt

(* Where it has been it has been for good.                                 *)
LEMMA PlacesStay ==
    ASSUME ClockInv, scenario' = scenario, strays \subseteq strays',
           \/ passed' = passed
           \/ \E time \in Int : passed' = Append(passed, time)
    PROVE  /\ route' = route /\ Places' = Places
           /\ at' \in Nat /\ at <= at'
           /\ \A crs : hasPassed(crs) => hasPassed(crs)'
           /\ \A c : wasThere(c) => wasThere(c)'
           /\ \A r : RowInv(r) => RowInv(r)'
           /\ \A i \in 1..at : passed'[i] = passed[i]
<1>1. route' = route /\ Places' = Places
  BY DEF route, Places
<1>2. at \in Nat /\ at' \in Nat /\ at <= at' /\ \A i \in 1..at : passed'[i] = passed[i]
  BY DEF ClockInv, at
<1>3. \A crs : hasPassed(crs) => hasPassed(crs)'
  <2> SUFFICES ASSUME NEW crs, hasPassed(crs) PROVE hasPassed(crs)'
    OBVIOUS
  <2>1. PICK i \in 1..at : route[i].crs = crs
    BY DEF hasPassed
  <2>2. i \in 1..at'
    BY <1>2
  <2>3. \E j \in 1..at' : route'[j].crs = crs
    BY <1>1, <2>1, <2>2
  <2>4. QED
    BY <2>3 DEF hasPassed
<1>4. \A r : RowInv(r) => RowInv(r)'
  <2> SUFFICES ASSUME NEW r, RowInv(r) PROVE RowInv(r)'
    OBVIOUS
  <2>1. hasBeen(r.crs)'
    BY <1>3 DEF RowInv, hasBeen
  <2>2. QED
    BY <1>1, <1>3, <2>1 DEF RowInv
<1>5. \A c : wasThere(c) => wasThere(c)'
  <2> SUFFICES ASSUME NEW c, wasThere(c) PROVE wasThere(c)'
    OBVIOUS
  <2>1. PICK i \in 1..at : c = <<route[i].crs, passed[i]>>
    BY DEF wasThere
  <2>2. i \in 1..at' /\ c = <<route'[i].crs, passed'[i]>>
    BY <1>1, <1>2, <2>1
  <2>3. QED
    BY <2>2 DEF wasThere
<1>6. QED
  BY <1>1, <1>2, <1>3, <1>4, <1>5

LEMMA InitWorld == ASSUME Init PROVE WorldInv
<1>1. scenario \in Scenarios /\ passed \in Seq(Int) /\ at = 0
  BY DEF Init, at
<1>2. Len(route) > 1 /\ route \in Seq(Point)
  BY <1>1, TrainViewsAssumption DEF route
<1>3. 1 \in 1..Len(route) /\ 1 \in DOMAIN route
  BY <1>2
<1>4. route[1].time \in Int
  <2>1. route[1] \in Point
    BY <1>2, <1>3
  <2>2. QED
    BY <2>1, PointFacts
<1>5. now \in Int
  <2>1. Ssd + (IF route[1].time < route[1].time THEN 1 ELSE 0) \in Int
    BY <1>4, TrainViewsAssumption
  <2>2. QED
    BY <1>4, <2>1, InstantIsInt DEF Init, bookedAt, bookedOn, bookedDay
<1>6. ClockInv
  BY <1>1, <1>2, <1>5 DEF Init, ClockInv
<1>7. TablesInv
  <2>1. positions = {} /\ history = <<>> /\ DOMAIN history = {}
    BY DEF Init
  <2>2. PositionsInv
    BY <2>1 DEF PositionsInv
  <2>3. history \in Seq(Entry) /\ heardAt = {}
    BY <2>1 DEF heardAt
  <2>4. QED
    BY <2>2, <2>3 DEF TablesInv
<1>8. QED
  BY <1>6, <1>7 DEF WorldInv

(* The rows of a step replace those of their feeds.                        *)
LEMMA ReplacedInv ==
    ASSUME PositionsInv, NEW rows, positions' = replaced(rows),
           \A r : RowInv(r) => RowInv(r)',
           \A n \in rows : RowInv(n)',
           \A n, m \in rows : n.trainId = m.trainId /\ n.td = m.td => n = m
    PROVE  PositionsInv'
<1>1. \A r \in positions' : r \in rows \/ (r \in positions /\ \A n \in rows : n.trainId # r.trainId)
  BY DEF replaced
<1>2. \A r \in positions' : RowInv(r)'
  BY <1>1 DEF PositionsInv
<1>3. \A r, q \in positions' : r.trainId = q.trainId /\ r.td = q.td => r = q
  <2> SUFFICES ASSUME NEW r \in positions', NEW q \in positions',
                      r.trainId = q.trainId, r.td = q.td
               PROVE  r = q
    OBVIOUS
  <2>1. CASE r \in rows /\ q \in rows
    BY <2>1
  <2>2. CASE r \notin rows /\ q \notin rows
    BY <1>1, <2>2 DEF PositionsInv
  <2>3. CASE r \in rows /\ q \notin rows
    BY <1>1, <2>3
  <2>4. CASE r \notin rows /\ q \in rows
    BY <1>1, <2>4
  <2>5. QED
    BY <2>1, <2>2, <2>3, <2>4
<1>4. QED
  BY <1>2, <1>3 DEF PositionsInv

(* The rows and the entries that a move may leave, and when.               *)
entryOf(r) == [rid |-> r.rid, crs |-> r.crs, at |-> r.at, lateness |-> r.lateness, td |-> r.td]
IsMove(j, crs, time, late, trust, td, rows, one, two) ==
    /\ j = at + 1 /\ j \in 1..Len(route) /\ crs = route[j].crs
    /\ time \in Int /\ late \in Int
    /\ trust.trainId = "TRUST" /\ td.trainId = "TD:" \o Headcode
    /\ trust.td = FALSE /\ td.td = TRUE
    /\ trust.rid \in {Ours, NoRid} /\ td.rid \in {Ours, NoRid}
    /\ trust.crs = crs /\ td.crs = crs /\ trust.at = time /\ td.at = time
    /\ trust.lateness = late /\ td.lateness = NoTime
    /\ rows \subseteq {trust, td} /\ positions' = replaced(rows)
    /\ one = IF trust \in rows THEN <<entryOf(trust)>> ELSE <<>>
    /\ two = IF td \in rows THEN <<entryOf(td)>> ELSE <<>>
    /\ history' = (history \o one) \o two
    /\ acted \subseteq acted' /\ acted' \subseteq acted \cup {j}
    /\ now' = time /\ passed' = Append(passed, time) /\ scenario' = scenario /\ strays' = strays

LEMMA MoveLeaves ==
    ASSUME ClockInv, Move
    PROVE  \E j, crs, time, late, trust, td, rows, one, two :
             IsMove(j, crs, time, late, trust, td, rows, one, two)
<1> DEFINE i == at + 1
           time == now + (IF at = 0 THEN 0 ELSE bookedAt(i) - bookedAt(at))
           event == IF ~route[i].calls THEN "PASS" ELSE IF i = Len(route) THEN "ARRIVAL" ELSE "DEPARTURE"
           late == time - bookedAt(i)
           rid(linked) == IF linked THEN Ours ELSE NoRid
           trust == row("TRUST", FALSE, Headcode, rid(scenario.linked), route[i].crs, event, time, late)
           td == row("TD:" \o Headcode, TRUE, Headcode, rid(scenario.tdLinked), route[i].crs, event, time, NoTime)
           feeds == {"trust", "td"} \cup (IF route[i].calls /\ route[i].known THEN {"darwin"} ELSE {})
<1>1. /\ at < Len(route) /\ now' = time /\ passed' = Append(passed, time)
      /\ scenario' = scenario /\ strays' = strays
  BY DEF Move
<1>2. PICK lost \in SUBSET feeds :
        LET rows == (IF "trust" \in lost THEN {} ELSE {trust}) \cup (IF "td" \in lost THEN {} ELSE {td})
        IN /\ positions' = replaced(rows)
           /\ history' = history \o (IF trust \in rows THEN <<entryOf(trust)>> ELSE <<>>)
                                \o (IF td \in rows THEN <<entryOf(td)>> ELSE <<>>)
           /\ acted' = IF "darwin" \in feeds \ lost THEN acted \cup {i} ELSE acted
  BY DEF Move, entryOf
<1> DEFINE rows == (IF "trust" \in lost THEN {} ELSE {trust}) \cup (IF "td" \in lost THEN {} ELSE {td})
           one == IF trust \in rows THEN <<entryOf(trust)>> ELSE <<>>
           two == IF td \in rows THEN <<entryOf(td)>> ELSE <<>>
<1>3. /\ positions' = replaced(rows)
      /\ history' = (history \o one) \o two
      /\ acted \subseteq acted' /\ acted' \subseteq acted \cup {i}
  BY <1>2
<1>4. rows \subseteq {trust, td}
  OBVIOUS
<1>5. i \in 1..Len(route)
  <2>1. at \in Nat /\ Len(route) \in Nat
    BY RouteFacts
  <2>2. QED
    BY <1>1, <2>1
<1>6. bookedAt(i) \in Int
  BY <1>5, BookedIsInt
<1>7. time \in Int
  <2>1. now \in Int
    BY DEF ClockInv
  <2>2. CASE at = 0
    BY <2>1, <2>2
  <2>3. CASE at # 0
    <3>1. at \in Nat /\ Len(route) \in Nat
      BY RouteFacts
    <3>2. at \in 1..Len(route)
      BY <1>1, <2>3, <3>1
    <3>3. bookedAt(at) \in Int
      BY <3>2, BookedIsInt
    <3> HIDE DEF i
    <3>4. QED
      BY <1>6, <2>1, <2>3, <3>3
  <2>4. QED
    BY <2>2, <2>3
<1>8. late \in Int
  BY <1>6, <1>7
<1>9. /\ trust.trainId = "TRUST" /\ trust.td = FALSE /\ trust.rid \in {Ours, NoRid}
      /\ trust.crs = route[i].crs /\ trust.at = time /\ trust.lateness = late
  BY DEF row
<1>10. /\ td.trainId = "TD:" \o Headcode /\ td.td = TRUE /\ td.rid \in {Ours, NoRid}
       /\ td.crs = route[i].crs /\ td.at = time /\ td.lateness = NoTime
  BY DEF row
<1>11. i = at + 1
  OBVIOUS
<1>12. one = (IF trust \in rows THEN <<entryOf(trust)>> ELSE <<>>)
       /\ two = (IF td \in rows THEN <<entryOf(td)>> ELSE <<>>)
  OBVIOUS
<1> HIDE DEF i, time, event, late, rid, trust, td, feeds, rows, one, two
<1>13. IsMove(i, route[i].crs, time, late, trust, td, rows, one, two)
  BY <1>1, <1>3, <1>4, <1>5, <1>7, <1>8, <1>9, <1>10, <1>11, <1>12 DEF IsMove
<1>14. QED
  BY <1>13

LEMMA MoveWorld == ASSUME WorldInv, Move PROVE WorldInv'
<1>1. ClockInv /\ TablesInv /\ PositionsInv
  BY DEF WorldInv, TablesInv
<1>2. PICK j, crs, time, late, trust, td, rows, one, two :
        IsMove(j, crs, time, late, trust, td, rows, one, two)
  BY <1>1, MoveLeaves
<1>3. at \in Nat /\ Len(route) \in Nat /\ DOMAIN route = 1..Len(route)
  <2>1. route \in Seq(Point) /\ at \in Nat
    BY <1>1, RouteFacts
  <2>2. QED
    BY <2>1
<1>4. \A i \in 1..Len(route) : route[i].crs \in STRING /\ route[i].crs # ""
  BY <1>1, RouteFacts
<1>5. j \in 1..Len(route) /\ j = at + 1 /\ time \in Int /\ crs = route[j].crs
  BY <1>2 DEF IsMove
<1>6. crs \in STRING /\ crs # "" /\ crs \in Places
  BY <1>3, <1>4, <1>5 DEF Places, ToSet
<1>7. scenario' = scenario /\ strays' = strays /\ passed' = Append(passed, time) /\ now' = time
  BY <1>2 DEF IsMove
<1>8. /\ route' = route /\ Places' = Places
      /\ \A c : wasThere(c) => wasThere(c)'
      /\ \A r : RowInv(r) => RowInv(r)'
  BY <1>1, <1>5, <1>7, PlacesStay
<1>9. passed \in Seq(Int)
  BY <1>1 DEF ClockInv
<1>10. passed' \in Seq(Int) /\ at' = j /\ passed'[j] = time
  BY <1>5, <1>9, <1>7 DEF at
<1>11. hasPassed(crs)' /\ wasThere(<<crs, time>>)'
  <2>1. j \in 1..at'
    BY <1>3, <1>5, <1>10
  <2>2. route'[j].crs = crs /\ passed'[j] = time
    BY <1>5, <1>8, <1>10
  <2>3. QED
    BY <2>1, <2>2 DEF hasPassed, wasThere
<1>12. ClockInv'
  <2>1. acted' \subseteq 1..j
    <3>1. acted \subseteq 1..at /\ acted' \subseteq acted \cup {j}
      BY <1>1, <1>2 DEF ClockInv, IsMove
    <3>2. QED
      BY <1>3, <1>5, <3>1
  <2>2. j <= Len(route')
    BY <1>3, <1>5, <1>8
  <2>3. scenario' \in Scenarios /\ now' \in Int
    BY <1>1, <1>7, <1>5 DEF ClockInv
  <2>4. QED
    BY <1>10, <2>1, <2>2, <2>3 DEF ClockInv
<1>13. RowInv(trust)' /\ RowInv(td)'
  <2>1. /\ trust.at \in Int /\ trust.td = FALSE /\ trust.crs = crs
        /\ trust.rid \in {Ours, NoRid} /\ trust.trainId = "TRUST"
    BY <1>2 DEF IsMove
  <2>2. /\ td.at \in Int /\ td.td = TRUE /\ td.crs = crs
        /\ td.rid \in {Ours, NoRid} /\ td.trainId = "TD:" \o Headcode
    BY <1>2 DEF IsMove
  <2>3. crs \in Places'
    BY <1>6, <1>8
  <2>4. RowInv(trust)'
    BY <1>11, <2>3, <2>1 DEF RowInv, hasBeen
  <2>5. RowInv(td)'
    BY <1>11, <2>3, <2>2 DEF RowInv, hasBeen
  <2>6. QED
    BY <2>4, <2>5
<1>14. PositionsInv'
  <2>1. trust.td # td.td /\ rows \subseteq {trust, td} /\ positions' = replaced(rows)
    BY <1>2 DEF IsMove
  <2>2. \A n \in rows : RowInv(n)'
    BY <1>13, <2>1
  <2>3. \A n, m \in rows : n.trainId = m.trainId /\ n.td = m.td => n = m
    BY <2>1
  <2>4. QED
    BY <1>1, <1>8, <2>1, <2>2, <2>3, ReplacedInv
<1>15. history' \in Seq(Entry) /\ \A c \in heardAt' : c \in heardAt \/ c = <<crs, time>>
  <2>1. entryOf(trust) \in Entry /\ entryOf(td) \in Entry
    <3>1. /\ trust.rid \in {Ours, NoRid} /\ td.rid \in {Ours, NoRid}
          /\ trust.crs \in STRING \ {""} /\ td.crs \in STRING \ {""}
          /\ trust.td \in BOOLEAN /\ td.td \in BOOLEAN
      BY <1>2, <1>6 DEF IsMove
    <3>2. /\ trust.at \in Int /\ td.at \in Int /\ trust.lateness \in Int /\ td.lateness \in Int
      BY <1>2 DEF IsMove, NoTime
    <3>3. QED
      BY <3>1, <3>2 DEF Entry, entryOf
  <2>2. /\ entryOf(trust).crs = crs /\ entryOf(td).crs = crs
        /\ entryOf(trust).at = time /\ entryOf(td).at = time
    BY <1>2 DEF entryOf, IsMove
  <2>3. one \in {<<entryOf(trust)>>, <<>>} /\ two \in {<<entryOf(td)>>, <<>>}
    BY <1>2 DEF IsMove
  <2>4. PICK a, b : a = entryOf(trust) /\ b = entryOf(td)
    OBVIOUS
  <2>6. history' = (history \o one) \o two /\ history \in Seq(Entry)
    BY <1>1, <1>2 DEF IsMove, TablesInv
  <2>5. one \in Seq(Entry) /\ two \in Seq(Entry)
    <3>1. PICK E : E = Entry
      OBVIOUS
    <3>2. a \in E /\ b \in E
      BY <2>1, <2>4, <3>1
    <3>3. <<a>> \in Seq(E) /\ <<b>> \in Seq(E) /\ <<>> \in Seq(E)
      BY <3>2
    <3>4. one \in {<<a>>, <<>>} /\ two \in {<<b>>, <<>>}
      BY <2>3, <2>4
    <3>5. QED
      BY <3>1, <3>3, <3>4
  <2>7. history' \in Seq(Entry)
    BY <2>5, <2>6
  <2>8. \A k \in 1..Len(history') :
          (k \in 1..Len(history) /\ history'[k] = history[k]) \/ history'[k] \in {a, b}
    BY <2>3, <2>4, <2>6
  <2>9. DOMAIN history' = 1..Len(history') /\ DOMAIN history = 1..Len(history)
    BY <2>6, <2>7
  <2>10. \A c \in heardAt' : c \in heardAt \/ c = <<crs, time>>
    BY <2>2, <2>4, <2>8, <2>9 DEF heardAt
  <2>11. QED
    BY <2>7, <2>10
<1>16. \A c \in heardAt' : wasThere(c)'
  BY <1>1, <1>8, <1>11, <1>15 DEF TablesInv
<1>17. QED
  BY <1>12, <1>14, <1>15, <1>16 DEF WorldInv, TablesInv

LEMMA StrayWorld ==
    ASSUME WorldInv, NEW crs \in Places, NEW headcode \in {Headcode, "2B02"}, Stray(crs, headcode)
    PROVE  WorldInv'
<1>1. ClockInv /\ TablesInv /\ PositionsInv
  BY DEF WorldInv, TablesInv
<1>2. PICK r : r = row("TD:" \o headcode, TRUE, headcode, NoRid, crs, "PASS", now, NoTime)
  OBVIOUS
<1>3. /\ positions' = replaced({r}) /\ strays' = strays \cup {crs}
      /\ scenario' = scenario /\ now' = now /\ passed' = passed /\ acted' = acted /\ history' = history
  BY <1>2 DEF Stray
<1>4. /\ route' = route /\ Places' = Places
      /\ \A c : wasThere(c) => wasThere(c)'
      /\ \A q : RowInv(q) => RowInv(q)'
  BY <1>1, <1>3, PlacesStay
<1>5. now \in Int
  BY <1>1 DEF ClockInv
<1>6. r.at \in Int /\ r.td = TRUE /\ r.crs = crs /\ r.rid = NoRid
  BY <1>2, <1>5 DEF row
<1>7. RowInv(r)'
  <2>1. crs \in strays' /\ crs \in Places'
    BY <1>3, <1>4
  <2>2. NoRid # Ours
    BY DEF NoRid, Ours
  <2>3. QED
    BY <1>6, <2>1, <2>2 DEF RowInv, hasBeen
<1>8. PositionsInv'
  <2>1. PICK rows : rows = {r}
    OBVIOUS
  <2>2. QED
    BY <1>1, <1>3, <1>4, <1>7, <2>1, ReplacedInv
<1>9. ClockInv'
  BY <1>1, <1>3 DEF ClockInv, at, route
<1>10. history' \in Seq(Entry) /\ heardAt' = heardAt
  BY <1>1, <1>3 DEF TablesInv, heardAt
<1>11. \A c \in heardAt' : wasThere(c)'
  BY <1>1, <1>4, <1>10 DEF TablesInv
<1>12. QED
  BY <1>8, <1>9, <1>10, <1>11 DEF WorldInv, TablesInv

LEMMA SameWorld ==
    ASSUME WorldInv, scenario' = scenario, now' \in Int, passed' = passed, acted' = acted,
           positions' = positions, history' = history, strays' = strays
    PROVE  WorldInv'
<1>1. ClockInv'
  BY DEF WorldInv, ClockInv, at, route
<1>2. \A r : RowInv(r) <=> RowInv(r)'
  BY DEF RowInv, hasBeen, hasPassed, Places, at, route
<1>3. PositionsInv'
  BY <1>2 DEF WorldInv, TablesInv, PositionsInv
<1>4. heardAt' = heardAt /\ \A c : wasThere(c) <=> wasThere(c)'
  BY DEF heardAt, wasThere, at, route
<1>5. history' \in Seq(Entry) /\ \A c \in heardAt' : wasThere(c)'
  BY <1>4 DEF WorldInv, TablesInv
<1>6. QED
  BY <1>1, <1>3, <1>5 DEF WorldInv, TablesInv

LEMMA StepWorld == ASSUME WorldInv, [Next]_vars PROVE WorldInv'
<1>1. now \in Int /\ Pause \in Int
  BY TrainViewsAssumption DEF WorldInv, ClockInv
<1>2. CASE Move
  BY <1>2, MoveWorld
<1>3. CASE Held
  <2>1. now + Pause \in Int
    BY <1>1
  <2>2. QED
    BY <1>3, <2>1, SameWorld DEF Held
<1>4. CASE Deactivate
  BY <1>1, <1>4, SameWorld DEF Deactivate
<1>5. CASE \E crs \in StrayAt \cap {p.crs : p \in ToSet(route)}, headcode \in {Headcode, "2B02"} :
             Stray(crs, headcode)
  BY <1>5, StrayWorld DEF Places
<1>6. CASE LoadRuns \/ LoadHistory \/ LoadPosition \/ LoadDescriber
  <2>1. UNCHANGED world
    BY <1>6 DEF LoadRuns, LoadHistory, LoadPosition, LoadDescriber
  <2>2. QED
    BY <1>1, <2>1, SameWorld DEF world
<1>7. CASE UNCHANGED vars
  BY <1>1, <1>7, SameWorld DEF vars, world
<1>8. QED
  BY <1>2, <1>3, <1>4, <1>5, <1>6, <1>7 DEF Next

(* Every row and every entry is of where the train has been, whatever is   *)
(* lost on the way, or of another train reported there.                    *)
THEOREM WorldIsReported == Spec => []WorldInv
<1>1. Init => WorldInv
  BY InitWorld
<1>2. WorldInv /\ [Next]_vars => WorldInv'
  BY StepWorld
<1>3. QED
  BY <1>1, <1>2, PTL DEF Spec

-----------------------------------------------------------------------------
(* The run as Darwin has it: its stops are those it knows, in their order. *)

LEMMA KnownFacts ==
    ASSUME ClockInv
    PROVE  /\ known \in Seq(1..Len(route)) /\ Len(known) \in Nat
           /\ \A k \in 1..Len(known) : known[k] \in 1..Len(route) /\ route[known[k]].known
           /\ \A j, k \in 1..Len(known) : j < k => known[j] < known[k]
           /\ \A i \in 1..Len(route) : route[i].known => \E k \in 1..Len(known) : known[k] = i
<1> DEFINE N == Len(route)
           s == [i \in DOMAIN route |-> i]
           I == {i \in DOMAIN route : route[i].known}
<1>1. N \in Nat /\ DOMAIN route = 1..N
  <2>1. route \in Seq(Point)
    BY RouteFacts
  <2>2. QED
    BY <2>1
<1>2. s \in Seq(1..N) /\ Len(s) = N /\ \A i \in 1..N : s[i] = i
  BY <1>1
<1>3. \A i : i \in I <=> i \in 1..N /\ route[i].known
  BY <1>1
<1>4. known = Selected(s, I)
  BY DEF known
<1> HIDE DEF s, I, N
<1>5. known \in Seq(1..N)
  BY <1>2, <1>4, SelectedIndices
<1>6. PICK f : IsSelection(f, known, s, I, N)
  BY <1>2, <1>4, SelectedIndices
<1>7. \A k \in 1..Len(known) : f[k] \in (1..N) \cap I /\ known[k] = f[k]
  BY <1>2, <1>6 DEF IsSelection
<1>8. /\ \A j, k \in 1..Len(known) : j < k => known[j] < known[k]
      /\ \A i \in (1..N) \cap I : \E k \in 1..Len(known) : known[k] = i
  BY <1>6, <1>7 DEF IsSelection
<1>9. \A k \in 1..Len(known) : known[k] \in 1..N /\ route[known[k]].known
  BY <1>3, <1>7
<1>10. \A i \in 1..N : route[i].known => \E k \in 1..Len(known) : known[k] = i
  BY <1>3, <1>8
<1>11. Len(known) \in Nat
  BY <1>5, SeqFacts
<1>12. QED
  BY <1>5, <1>8, <1>9, <1>10, <1>11 DEF N

(* A run whose stops are in order is read as it stands.                    *)
HasStations(s) == \A i \in 1..Len(s) : s[i].crs # ""
InOrder(s) == /\ \A i \in 1..Len(s) : s[i].seq \in Int /\ firstTime(s[i]) \in Int
              /\ \A i, j \in 1..Len(s) : i < j => s[i].seq < s[j].seq

LEMMA StopsInOrder ==
    ASSUME NEW X, NEW s \in Seq(X), HasStations(s), InOrder(s)
    PROVE  withCrs(s) = s /\ orderedStops(s) = s /\ orderRunStops(s) = s
<1>1. Len(s) \in Nat /\ DOMAIN s = 1..Len(s)
  OBVIOUS
<1>2. withCrs(s) = s
  <2>1. PICK I : I = {i \in DOMAIN s : s[i].crs # ""}
    OBVIOUS
  <2>2. 1..Len(s) \subseteq I
    BY <1>1, <2>1 DEF HasStations
  <2>3. withCrs(s) = Selected(s, I)
    BY <2>1 DEF withCrs
  <2>4. QED
    BY <2>2, <2>3, SelectedAll
<1>3. PICK before : before = {ij \in (DOMAIN s) \X (DOMAIN s) :
                                LET a == s[ij[1]]
                                    b == s[ij[2]]
                                IN a.seq < b.seq \/ (a.seq = b.seq /\ ij[1] < ij[2])}
  OBVIOUS
<1>4. \A i, j \in 1..Len(s) : <<j, i>> \in before <=> j < i
  <2> SUFFICES ASSUME NEW i \in 1..Len(s), NEW j \in 1..Len(s)
               PROVE  <<j, i>> \in before <=> j < i
    OBVIOUS
  <2>1. <<j, i>> \in before <=> s[j].seq < s[i].seq \/ (s[j].seq = s[i].seq /\ j < i)
    BY <1>1, <1>3
  <2>2. PICK a, b : a = s[i].seq /\ b = s[j].seq
    OBVIOUS
  <2>3. a \in Int /\ b \in Int /\ (i < j => a < b) /\ (j < i => b < a) /\ (i = j => a = b)
    BY <2>2 DEF InOrder
  <2>4. i \in Nat /\ j \in Nat
    BY <1>1
  <2>5. QED
    BY <2>1, <2>2, <2>3, <2>4
<1>5. orderedStops(s) = Sorted(s, before)
  BY <1>2, <1>3 DEF orderedStops
<1>6. Sorted(s, before) = s
  BY <1>4, SortedInOrder
<1> DEFINE less(a, b) == a.seq < b.seq \/ (a.seq = b.seq /\ firstTime(a) < firstTime(b))
<1>7. PICK sooner : sooner = {ij \in (DOMAIN s) \X (DOMAIN s) :
                                LET a == s[ij[1]]
                                    b == s[ij[2]]
                                IN less(a, b) \/ (~less(b, a) /\ ij[1] < ij[2])}
  OBVIOUS
<1>8. \A i, j \in 1..Len(s) : <<j, i>> \in sooner <=> j < i
  <2> SUFFICES ASSUME NEW i \in 1..Len(s), NEW j \in 1..Len(s)
               PROVE  <<j, i>> \in sooner <=> j < i
    OBVIOUS
  <2>1. <<j, i>> \in sooner <=> less(s[j], s[i]) \/ (~less(s[i], s[j]) /\ j < i)
    BY <1>1, <1>7
  <2>2. PICK a, b, x, y : a = s[i].seq /\ b = s[j].seq /\ x = firstTime(s[i]) /\ y = firstTime(s[j])
    OBVIOUS
  <2>3. /\ a \in Int /\ b \in Int /\ x \in Int /\ y \in Int
        /\ (i < j => a < b) /\ (j < i => b < a) /\ (i = j => a = b /\ x = y)
    BY <2>2 DEF InOrder
  <2>4. i \in Nat /\ j \in Nat
    BY <1>1
  <2>5. <<j, i>> \in sooner <=> (b < a \/ (b = a /\ y < x)) \/ (~(a < b \/ (a = b /\ x < y)) /\ j < i)
    BY <2>1, <2>2
  <2>6. QED
    BY <2>3, <2>4, <2>5
<1>9. orderRunStops(s) = Sorted(s, sooner)
  BY <1>7 DEF orderRunStops
<1>10. Sorted(s, sooner) = s
  BY <1>8, SortedInOrder
<1>11. QED
  BY <1>2, <1>5, <1>6, <1>9, <1>10

(* What is common to the runs' stops: they are the points Darwin knows.    *)
TimesAreInts(x) ==
    /\ x.actual \in Int /\ x.estArr \in Int /\ x.estDep \in Int
    /\ x.schedArr \in Int /\ x.schedDep \in Int /\ x.schedPass \in Int
IsRunStops(s) ==
    /\ \E X : s \in Seq(X)
    /\ Len(s) = Len(known)
    /\ \A k \in 1..Len(known) : /\ s[k].crs = route[known[k]].crs /\ s[k].crs # ""
                                /\ s[k].seq = known[k]
                                /\ firstTime(s[k]) = route[known[k]].time
                                /\ TimesAreInts(s[k])

LEMMA StopRowTime ==
    ASSUME ClockInv, NEW i \in 1..Len(route), NEW actual, NEW estimate
    PROVE  /\ firstTime(stopRow(i, actual, estimate)) = route[i].time
           /\ actual \in Int /\ estimate \in Int => TimesAreInts(stopRow(i, actual, estimate))
<1>1. PICK N \in Nat : N = Len(route) /\ N > 1
  BY RouteFacts
<1>2. route[i].time # NoTime /\ route[i].calls \in BOOLEAN
  BY RouteFacts
<1>3. i < N \/ i > 1
  BY <1>1
<1>4. firstTime(stopRow(i, actual, estimate)) = route[i].time
  BY <1>1, <1>2, <1>3 DEF firstTime, stopRow
<1>5. route[i].time \in Int /\ NoTime \in Int
  <2>1. route[i].time \in Int
    BY RouteFacts
  <2>2. QED
    BY <2>1 DEF NoTime
<1>6. actual \in Int /\ estimate \in Int => TimesAreInts(stopRow(i, actual, estimate))
  BY <1>5 DEF TimesAreInts, stopRow
<1>7. QED
  BY <1>4, <1>6

LEMMA StopRows ==
    ASSUME ClockInv, NEW actual, NEW estimate, NEW s,
           \A k \in 1..Len(known) : actual[known[k]] \in Int /\ estimate[known[k]] \in Int,
           s = [k \in DOMAIN known |-> stopRow(known[k], actual[known[k]], estimate[known[k]])]
    PROVE  IsRunStops(s)
<1> DEFINE rowOf(k) == stopRow(known[k], actual[known[k]], estimate[known[k]])
<1>1. known \in Seq(1..Len(route)) /\ Len(known) \in Nat /\ DOMAIN known = 1..Len(known)
  BY KnownFacts, SeqFacts
<1>2. s = [k \in 1..Len(known) |-> rowOf(k)]
  BY <1>1
<1>3. \A k \in 1..Len(known) : rowOf(k).crs = route[known[k]].crs /\ rowOf(k).seq = known[k]
  BY DEF stopRow
<1>4. \A k \in 1..Len(known) : known[k] \in 1..Len(route)
  BY KnownFacts
<1>5. \A k \in 1..Len(known) : firstTime(rowOf(k)) = route[known[k]].time /\ TimesAreInts(rowOf(k))
  BY <1>4, StopRowTime
<1> HIDE DEF rowOf
<1>6. s \in Seq({rowOf(k) : k \in 1..Len(known)})
  BY <1>1, <1>2
<1>7. Len(s) = Len(known)
  BY <1>1, <1>2
<1>8. \A i \in 1..Len(route) : route[i].crs # ""
  BY RouteFacts
<1>9. QED
  BY <1>2, <1>3, <1>4, <1>5, <1>6, <1>7, <1>8 DEF IsRunStops

LEMMA RunStops ==
    ASSUME ClockInv, NEW r \in runs \cup {ourRun}
    PROVE  IsRunStops(r.stops)
<1>1. CASE r = ourRun
  <2>1. PICK actual, estimate :
          /\ actual = [i \in Int |-> IF i \in acted THEN ukHhmm(passed[i]) ELSE NoTime]
          /\ estimate = [i \in Int |-> IF i \in acted THEN NoTime ELSE ukHhmm(expectedAt(i))]
    OBVIOUS
  <2>2. \A k \in DOMAIN known : known[k] \in Int
    BY KnownFacts, SeqFacts
  <2>3. ourRun.stops = [k \in DOMAIN known |-> stopRow(known[k], actual[known[k]], estimate[known[k]])]
    BY <2>1, <2>2 DEF ourRun
  <2>4. \A k \in 1..Len(known) : actual[known[k]] \in Int /\ estimate[known[k]] \in Int
    <3> SUFFICES ASSUME NEW k \in 1..Len(known)
                 PROVE  actual[known[k]] \in Int /\ estimate[known[k]] \in Int
      OBVIOUS
    <3>1. PICK i : i = known[k] /\ i \in 1..Len(route) /\ i \in Int /\ NoTime \in Int
      BY KnownFacts DEF NoTime
    <3>2. ukHhmm(expectedAt(i)) \in Int /\ (i \in acted => ukHhmm(passed[i]) \in Int)
      BY <3>1, ExpectedIsInt, PassedIsInt
    <3>3. /\ actual[i] = (IF i \in acted THEN ukHhmm(passed[i]) ELSE NoTime)
          /\ estimate[i] = (IF i \in acted THEN NoTime ELSE ukHhmm(expectedAt(i)))
      BY <2>1, <3>1
    <3>4. QED
      BY <3>1, <3>2, <3>3
  <2>5. QED
    BY <1>1, <2>3, <2>4, StopRows
<1>2. CASE r # ourRun
  <2>1. PICK day : r = rival(day)
    BY <1>2 DEF runs
  <2>2. PICK actual, none :
          /\ actual = [i \in Int |-> IF day < 0 /\ route[i].calls THEN route[i].time ELSE NoTime]
          /\ none = [i \in Int |-> NoTime]
    OBVIOUS
  <2>3. \A k \in DOMAIN known : known[k] \in Int
    BY KnownFacts, SeqFacts
  <2>4. r.stops = [k \in DOMAIN known |-> stopRow(known[k], actual[known[k]], none[known[k]])]
    BY <2>1, <2>2, <2>3 DEF rival
  <2>5. \A k \in 1..Len(known) : actual[known[k]] \in Int /\ none[known[k]] \in Int
    <3>1. \A k \in 1..Len(known) : known[k] \in 1..Len(route) /\ known[k] \in Int
      BY KnownFacts
    <3>2. \A i \in 1..Len(route) : route[i].time \in Int
      BY RouteFacts
    <3>3. NoTime \in Int
      BY DEF NoTime
    <3>4. QED
      BY <2>2, <3>1, <3>2, <3>3
  <2>6. QED
    BY <2>4, <2>5, StopRows
<1>3. QED
  BY <1>1, <1>2

LEMMA StopIsRow ==
    ASSUME ClockInv, NEW r \in runs \cup {ourRun}, NEW k \in 1..Len(known)
    PROVE  \E actual, estimate : r.stops[k] = stopRow(known[k], actual, estimate)
<1>1. k \in DOMAIN known
  BY KnownFacts, SeqFacts
<1>2. CASE r = ourRun
  BY <1>1, <1>2 DEF ourRun
<1>3. CASE r # ourRun
  <2>1. PICK day : r = rival(day)
    BY <1>3 DEF runs
  <2>2. QED
    BY <1>1, <2>1 DEF rival
<1>4. QED
  BY <1>2, <1>3

(* Darwin's actual times of our run are those it was given.                *)
LEMMA OurActuals ==
    ASSUME ClockInv, NEW k \in 1..Len(known), ourRun.stops[k].actual # NoTime
    PROVE  known[k] \in acted
<1>1. k \in DOMAIN known
  BY KnownFacts, SeqFacts
<1>2. QED
  BY <1>1 DEF ourRun, stopRow

LEMMA RunStopsInOrder ==
    ASSUME ClockInv, NEW s, IsRunStops(s)
    PROVE  withCrs(s) = s /\ orderedStops(s) = s /\ orderRunStops(s) = s
<1>1. PICK X : s \in Seq(X)
  BY DEF IsRunStops
<1>2. HasStations(s)
  BY DEF IsRunStops, HasStations
<1>3. \A k \in 1..Len(known) : known[k] \in Int /\ known[k] \in 1..Len(route)
  BY KnownFacts
<1>4. \A i \in 1..Len(route) : route[i].time \in Int
  BY RouteFacts
<1>5. InOrder(s)
  <2>1. \A j, k \in 1..Len(known) : j < k => known[j] < known[k]
    BY KnownFacts
  <2>2. Len(s) = Len(known) /\ \A k \in 1..Len(known) : s[k].seq = known[k]
    BY DEF IsRunStops
  <2>3. \A k \in 1..Len(known) : firstTime(s[k]) \in Int
    BY <1>3, <1>4 DEF IsRunStops
  <2>4. QED
    BY <1>3, <2>1, <2>2, <2>3 DEF InOrder
<1>6. QED
  BY <1>1, <1>2, <1>5, StopsInOrder

(* The path on the map is all of them, if they are two or more.            *)
LEMMA OurPath ==
    ASSUME ClockInv
    PROVE  pathOf(ourRun.stops, Places) = IF Len(known) > 1 THEN ourRun.stops ELSE <<>>
<1>1. PICK s : s = ourRun.stops
  OBVIOUS
<1>2. IsRunStops(s)
  BY <1>1, RunStops
<1>3. PICK X : s \in Seq(X)
  BY <1>2 DEF IsRunStops
<1>4. Len(s) = Len(known) /\ DOMAIN s = 1..Len(known)
  <2>1. DOMAIN s = 1..Len(s)
    BY <1>3, SeqFacts
  <2>2. Len(s) = Len(known)
    BY <1>2 DEF IsRunStops
  <2>3. QED
    BY <2>1, <2>2
<1>5. \A k \in 1..Len(known) : s[k].crs \in Places
  <2> SUFFICES ASSUME NEW k \in 1..Len(known) PROVE s[k].crs \in Places
    OBVIOUS
  <2>1. route \in Seq(Point) /\ known[k] \in 1..Len(route)
    BY RouteFacts, KnownFacts
  <2>2. route[known[k]] \in ToSet(route)
    BY <2>1 DEF ToSet
  <2>3. s[k].crs = route[known[k]].crs
    BY <1>2 DEF IsRunStops
  <2>4. QED
    BY <2>2, <2>3 DEF Places
<1>6. PICK I : I = {i \in DOMAIN s : s[i].crs \in Places}
  OBVIOUS
<1>7. 1..Len(s) \subseteq I
  BY <1>4, <1>5, <1>6
<1>8. Selected(s, I) = s
  BY <1>3, <1>7, SelectedAll
<1>9. orderedStops(s) = s
  BY <1>2, RunStopsInOrder
<1>10. QED
  BY <1>1, <1>4, <1>6, <1>8, <1>9 DEF pathOf

(* The map finds the run among the runs, which have other names.           *)
LEMMA OurRunFound ==
    ASSUME known # <<>>
    PROVE  {q \in runs : q.rid = Ours} = {ourRun}
<1>1. ourRun.rid = Ours
  BY DEF ourRun
<1>2. \A day : rival(day).rid # Ours
  BY DEF rival, Ours
<1>3. QED
  BY <1>1, <1>2 DEF runs

-----------------------------------------------------------------------------
(* The map.                                                                *)

ownRows == {r \in positions : r.rid = Ours /\ r.at >= now - FreshMinutes}
ourStops == LET own == {q \in runs : q.rid = Ours}
            IN IF own = {} THEN <<>> ELSE (CHOOSE q \in own : TRUE).stops
ourPath == pathOf(ourStops, Places)
ourTrain(r) == toTrain(r, ourPath, darwinFrontIdx(ourStops, ourPath), Corridors, now)
newest(r) == \A q \in ownRows : r.at > q.at \/ (r.at = q.at /\ (r.td \/ ~q.td))

(* The front is a number, and the visit nearest to it is a visit.          *)
LEMMA FrontIsInt ==
    ASSUME NEW X, NEW path \in Seq(X), NEW stops
    PROVE  darwinFrontIdx(stops, path) \in Int
<1>1. PICK S : /\ darwinFrontIdx(stops, path) = Max({1} \cup S)
               /\ S \subseteq DOMAIN path
  <2> DEFINE waiting == Selected(orderedStops(stops), {i \in DOMAIN orderedStops(stops) :
                                                         orderedStops(stops)[i].actual = NoTime})
             S == {i \in DOMAIN path : waiting # <<>> /\ path[i].seq = Head(waiting).seq}
  <2>1. darwinFrontIdx(stops, path) = Max({1} \cup S)
    BY DEF darwinFrontIdx
  <2>2. S \subseteq DOMAIN path
    OBVIOUS
  <2> HIDE DEF S
  <2>3. QED
    BY <2>1, <2>2
<1>2. Len(path) \in Nat /\ DOMAIN path = 1..Len(path)
  BY SeqFacts
<1>3. PICK n \in Nat : n = Len(path) + 1
  BY <1>2
<1>4. {1} \cup S \in SUBSET (0..n) /\ {1} \cup S # {}
  BY <1>1, <1>2, <1>3
<1>5. Max({1} \cup S) \in {1} \cup S
  BY <1>4, MaxIsLargest
<1>6. QED
  BY <1>1, <1>4, <1>5

LEMMA NearestVisit ==
    ASSUME NEW X, NEW path \in Seq(X), NEW crs, NEW front \in Int,
           \E k \in 1..Len(path) : path[k].crs = crs
    PROVE  /\ findCurrentPathIndex(path, crs, front) \in 1..Len(path)
           /\ path[findCurrentPathIndex(path, crs, front)].crs = crs
<1>1. Len(path) \in Nat /\ DOMAIN path = 1..Len(path)
  BY SeqFacts
<1>2. PICK visits : visits = {i \in DOMAIN path : path[i].crs = crs}
  OBVIOUS
<1>3. visits # {} /\ visits \in SUBSET Nat
  BY <1>1, <1>2
<1>4. PICK f : f = [i \in visits |-> Gap(i, front)]
  OBVIOUS
<1>5. f \in [visits -> Nat]
  <2>1. \A i \in visits : i \in Int
    BY <1>3
  <2>2. \A i \in visits : Gap(i, front) \in Nat
    BY <2>1, GapIsNat
  <2>3. QED
    BY <1>4, <2>2
<1>6. \E i \in visits : \A j \in visits : f[i] < f[j] \/ (f[i] = f[j] /\ i <= j)
  BY <1>3, <1>5, NearestExists
<1>7. \E i \in visits : \A j \in visits :
        Gap(i, front) < Gap(j, front) \/ (Gap(i, front) = Gap(j, front) /\ i <= j)
  BY <1>4, <1>6
<1>8. findCurrentPathIndex(path, crs, front) =
        CHOOSE i \in visits : \A j \in visits :
          Gap(i, front) < Gap(j, front) \/ (Gap(i, front) = Gap(j, front) /\ i <= j)
  BY <1>2, <1>3 DEF findCurrentPathIndex
<1>9. findCurrentPathIndex(path, crs, front) \in visits
  BY <1>7, <1>8
<1>10. QED
  BY <1>1, <1>2, <1>9

LEMMA TrainOfRow ==
    ASSUME NEW r
    PROVE  /\ ourTrain(r).rid = r.rid /\ ourTrain(r).at = r.at /\ ourTrain(r).crs = r.crs
           /\ ourTrain(r).td = r.td
BY DEF ourTrain, toTrain

(* On the map is the newest row of the run.                                *)
LEMMA OnMapIs ==
    ASSUME WorldInv
    PROVE  onMap = {ourTrain(r) : r \in {q \in ownRows : newest(q)}}
<1> DEFINE rows == {r \in positions : r.at >= now - FreshMinutes /\ r.crs \in Places}
           stopsOf(rid) == LET own == {q \in runs : q.rid = rid}
                           IN IF own = {} THEN <<>> ELSE (CHOOSE q \in own : TRUE).stops
           path(r) == pathOf(stopsOf(r.rid), Places)
           train(r) == toTrain(r, path(r), darwinFrontIdx(stopsOf(r.rid), path(r)), Corridors, now)
           trains == {train(r) : r \in rows}
<1>1. onMap = {t \in dedupeByPhysicalTrain(trains) : t.rid = Ours}
  BY DEF onMap, getLiveTrains, Places
<1>2. \A r : /\ train(r).rid = r.rid /\ train(r).at = r.at /\ train(r).td = r.td
  BY DEF toTrain
<1>3. \A r : r.rid = Ours => train(r) = ourTrain(r)
  BY DEF ourTrain, ourPath, ourStops
<1>4. \A r : r \in ownRows <=> r \in rows /\ r.rid = Ours
  BY DEF ownRows, WorldInv, TablesInv, PositionsInv, RowInv
<1> HIDE DEF train
<1>5. \A a \in trains : a.rid = Ours =>
        (a \in dedupeByPhysicalTrain(trains) <=>
           \A b \in trains : b.rid = Ours => a.at > b.at \/ (a.at = b.at /\ (a.td \/ ~b.td)))
  <2>1. Ours # ""
    BY DEF Ours
  <2> HIDE DEF trains
  <2>2. QED
    BY <2>1 DEF dedupeByPhysicalTrain
<1>6. \A t : t \in onMap => t \in {ourTrain(r) : r \in {q \in ownRows : newest(q)}}
  <2> SUFFICES ASSUME NEW t \in onMap
               PROVE  \E r \in ownRows : newest(r) /\ t = ourTrain(r)
    OBVIOUS
  <2>1. t \in trains /\ t.rid = Ours /\ t \in dedupeByPhysicalTrain(trains)
    BY <1>1 DEF dedupeByPhysicalTrain
  <2>2. PICK r \in rows : t = train(r)
    BY <2>1
  <2>3. r.rid = Ours /\ t = ourTrain(r) /\ r \in ownRows
    BY <1>2, <1>3, <1>4, <2>1, <2>2
  <2>4. ASSUME NEW q \in ownRows
        PROVE  r.at > q.at \/ (r.at = q.at /\ (r.td \/ ~q.td))
    <3>1. train(q) \in trains /\ train(q).rid = Ours
      BY <1>2, <1>4
    <3>2. t.at > train(q).at \/ (t.at = train(q).at /\ (t.td \/ ~train(q).td))
      BY <1>5, <2>1, <3>1
    <3>3. QED
      BY <1>2, <2>2, <3>2
  <2>5. QED
    BY <2>3, <2>4 DEF newest
<1>7. ASSUME NEW r \in ownRows, newest(r)
      PROVE  ourTrain(r) \in onMap
  <2>1. r \in rows /\ r.rid = Ours
    BY <1>4
  <2>2. train(r) \in trains /\ train(r).rid = Ours
    BY <1>2, <2>1
  <2>3. ASSUME NEW b \in trains, b.rid = Ours
        PROVE  train(r).at > b.at \/ (train(r).at = b.at /\ (train(r).td \/ ~b.td))
    <3>1. PICK q \in rows : b = train(q)
      OBVIOUS
    <3>2. q \in ownRows
      BY <1>2, <1>4, <2>3, <3>1
    <3>3. QED
      BY <1>2, <1>7, <3>1, <3>2 DEF newest
  <2>4. train(r) \in dedupeByPhysicalTrain(trains)
    BY <1>5, <2>2, <2>3
  <2>5. QED
    BY <1>1, <1>3, <2>1, <2>2, <2>4
<1>8. QED
  BY <1>6, <1>7

(* There is such a row, and one only.                                      *)
LEMMA NewestOf ==
    ASSUME PositionsInv, NEW rows, rows \subseteq {r \in positions : r.rid = Ours}, rows # {}
    PROVE  \E r \in rows : /\ \A q \in rows : q.at < r.at \/ (q.at = r.at /\ (r.td \/ ~q.td))
                           /\ \A p \in rows :
                                (\A q \in rows : q.at < p.at \/ (q.at = p.at /\ (p.td \/ ~q.td))) => p = r
<1>1. \A r \in rows : r.at \in Int /\ r.td \in BOOLEAN
  BY DEF PositionsInv, RowInv
<1>2. \A r, q \in rows : r.td = q.td => r = q
  BY DEF PositionsInv, RowInv
<1>3. PICK r \in rows : \A q \in rows : q.at < r.at \/ (q.at = r.at /\ (r.td \/ ~q.td))
  <2>1. PICK r \in rows : TRUE
    OBVIOUS
  <2>2. CASE \A q \in rows : q.at < r.at \/ (q.at = r.at /\ (r.td \/ ~q.td))
    BY <2>2
  <2>3. CASE \E q \in rows : ~(q.at < r.at \/ (q.at = r.at /\ (r.td \/ ~q.td)))
    <3>1. PICK q \in rows : ~(q.at < r.at \/ (q.at = r.at /\ (r.td \/ ~q.td)))
      BY <2>3
    <3>2. r # q /\ \A p \in rows : p = r \/ p = q
      BY <1>1, <1>2, <3>1
    <3>3. \A p \in rows : p.at < q.at \/ (p.at = q.at /\ (q.td \/ ~p.td))
      BY <1>1, <3>1, <3>2
    <3>4. QED
      BY <3>3
  <2>4. QED
    BY <2>2, <2>3
<1>4. \A p \in rows : (\A q \in rows : q.at < p.at \/ (q.at = p.at /\ (p.td \/ ~q.td))) => p = r
  BY <1>1, <1>2, <1>3
<1>5. QED
  BY <1>3, <1>4

LEMMA NewestExists ==
    ASSUME WorldInv, ownRows # {}
    PROVE  \E r \in ownRows : newest(r) /\ \A q \in ownRows : newest(q) => q = r
<1>1. PositionsInv
  BY DEF WorldInv, TablesInv
<1>2. ownRows \subseteq {r \in positions : r.rid = Ours}
  BY DEF ownRows
<1>3. PICK r \in ownRows :
        /\ \A q \in ownRows : q.at < r.at \/ (q.at = r.at /\ (r.td \/ ~q.td))
        /\ \A p \in ownRows : (\A q \in ownRows : q.at < p.at \/ (q.at = p.at /\ (p.td \/ ~q.td))) => p = r
  BY <1>1, <1>2, NewestOf
<1>4. \A p, q \in ownRows : p.at > q.at <=> q.at < p.at
  BY <1>1 DEF ownRows, PositionsInv, RowInv
<1>5. QED
  BY <1>3, <1>4 DEF newest

(* The list of the train's calls marks the place of its row.               *)
IsKnownAt(crs) == crs # "" /\ \E k \in ToSet(known) : route[k].crs = crs

LEMMA PathMarks ==
    ASSUME WorldInv, Len(known) > 1, NEW r, IsKnownAt(r.crs)
    PROVE  {route[known[k]].crs : k \in {j \in DOMAIN ourTrain(r).path : ourTrain(r).path[j] = "current"}}
             = {r.crs}
<1>1. ClockInv
  BY DEF WorldInv
<1>2. known # <<>> /\ Len(known) \in Nat /\ DOMAIN known = 1..Len(known)
  <2>1. known \in Seq(1..Len(route)) /\ Len(known) \in Nat
    BY <1>1, KnownFacts
  <2>2. DOMAIN known = 1..Len(known)
    BY <2>1
  <2>3. known # <<>>
    BY <2>1
  <2>4. QED
    BY <2>1, <2>2, <2>3
<1>3. ourStops = ourRun.stops
  BY <1>2, OurRunFound DEF ourStops
<1>4. PICK s : s = ourRun.stops
  OBVIOUS
<1>5. IsRunStops(s)
  BY <1>1, <1>4, RunStops
<1>6. PICK X : s \in Seq(X)
  BY <1>5 DEF IsRunStops
<1>7. DOMAIN s = 1..Len(known) /\ Len(s) = Len(known) /\ s # <<>>
  <2>1. DOMAIN s = 1..Len(s)
    BY <1>6, SeqFacts
  <2>2. Len(s) = Len(known)
    BY <1>5 DEF IsRunStops
  <2>3. s # <<>>
    BY <1>6, <2>2
  <2>4. QED
    BY <2>1, <2>2, <2>3
<1>8. \A k \in 1..Len(known) : s[k].crs = route[known[k]].crs
  BY <1>5 DEF IsRunStops
<1>9. ourPath = s
  BY <1>1, <1>3, <1>4, OurPath DEF ourPath
<1>10. PICK front \in Int : front = darwinFrontIdx(ourStops, s)
  BY <1>6, FrontIsInt
<1>11. \E k \in 1..Len(s) : s[k].crs = r.crs
  <2>1. PICK k \in 1..Len(known) : route[known[k]].crs = r.crs
    BY <1>2 DEF ToSet, IsKnownAt
  <2>2. QED
    BY <1>7, <1>8, <2>1
<1>12. PICK x : x = findCurrentPathIndex(s, r.crs, front)
  OBVIOUS
<1>13. x \in 1..Len(s) /\ s[x].crs = r.crs
  <2>1. PICK crs : crs = r.crs
    OBVIOUS
  <2>2. \E k \in 1..Len(s) : s[k].crs = crs
    BY <1>11, <2>1
  <2>3. /\ findCurrentPathIndex(s, crs, front) \in 1..Len(s)
        /\ s[findCurrentPathIndex(s, crs, front)].crs = crs
    BY <1>6, <2>2, NearestVisit
  <2>4. QED
    BY <1>12, <2>1, <2>3
<1>14. x # NoIndex
  <2>1. x \in 1..Len(known) /\ Len(known) \in Nat
    BY <1>2, <1>7, <1>13
  <2>2. QED
    BY <2>1 DEF NoIndex
<1>15. ourTrain(r).path = [i \in DOMAIN s |-> IF i < x THEN "departed" ELSE IF i = x THEN "current" ELSE "upcoming"]
  BY <1>7, <1>9, <1>10, <1>12, <1>14 DEF ourTrain, toTrain, IsKnownAt
<1>16. {j \in DOMAIN ourTrain(r).path : ourTrain(r).path[j] = "current"} = {x}
  <2>1. DOMAIN s = 1..Len(known) /\ Len(known) \in Nat /\ x \in 1..Len(known)
    BY <1>2, <1>7, <1>13
  <2>2. \A j \in 1..Len(known) :
          (IF j < x THEN "departed" ELSE IF j = x THEN "current" ELSE "upcoming") = "current" <=> j = x
    BY <2>1
  <2>3. QED
    BY <1>15, <2>1, <2>2
<1>17. route[known[x]].crs = r.crs
  BY <1>7, <1>8, <1>13
<1>18. QED
  BY <1>16, <1>17

LEMMA MapFollows == ASSUME WorldInv PROVE MapFollowsNewest
<1>1. CASE ownRows = {}
  <2>1. onMap = {}
    BY <1>1, OnMapIs
  <2>2. Cardinality(onMap) = 0
    BY <2>1, FS_EmptySet
  <2>3. QED
    BY <1>1, <2>1, <2>2 DEF MapFollowsNewest, ownRows
<1>2. CASE ownRows # {}
  <2>1. PICK r \in ownRows : newest(r) /\ \A q \in ownRows : newest(q) => q = r
    BY <1>2, NewestExists
  <2>2. onMap = {ourTrain(r)}
    BY <2>1, OnMapIs
  <2>3. PICK t : t = ourTrain(r)
    OBVIOUS
  <2>4. onMap = {t} /\ Cardinality(onMap) = 1
    BY <2>2, <2>3, FS_Singleton
  <2>5. r.at = t.at /\ r.crs = t.crs
    BY <2>3, TrainOfRow
  <2>6. \A q \in ownRows : q.at <= t.at
    <3>1. \A q \in ownRows : q.at \in Int
      BY DEF ownRows, WorldInv, TablesInv, PositionsInv, RowInv
    <3>2. QED
      BY <2>1, <2>5, <3>1 DEF newest
  <2>7. Len(known) > 1 /\ (\E k \in ToSet(known) : route[k].crs = t.crs) =>
          {route[known[k]].crs : k \in {j \in DOMAIN t.path : t.path[j] = "current"}} = {t.crs}
    <3>1. r.crs # ""
      <4>1. r.crs \in Places /\ ClockInv
        BY DEF ownRows, WorldInv, TablesInv, PositionsInv, RowInv
      <4>2. \A i \in DOMAIN route : route[i].crs # ""
        BY <4>1, RouteFacts, SeqFacts
      <4>3. QED
        BY <4>1, <4>2 DEF Places, ToSet
    <3>2. QED
      BY <2>3, <2>5, <3>1, PathMarks DEF IsKnownAt
  <2>8. QED
    BY <1>2, <2>1, <2>4, <2>5, <2>6, <2>7 DEF MapFollowsNewest, ownRows
<1>3. QED
  BY <1>1, <1>2

(* The map has the train once, where the newest of its reports has it,     *)
(* whatever runs of other days there are, and whichever feeds know it.     *)
THEOREM MapFollowsReports == Spec => []MapFollowsNewest
<1>1. WorldInv => MapFollowsNewest
  BY MapFollows
<1>2. QED
  BY <1>1, WorldIsReported, PTL

-----------------------------------------------------------------------------
(* Times: what is read as a time of a day is dated by a number.            *)

LEMMA DateIsInt ==
    ASSUME NEW t \in Int
    PROVE  londonDateKey(t) \in Int
<1>1. PICK o \in Int : o = londonOffsetMinutes(t)
  BY DEF londonOffsetMinutes
<1>2. (t + o) \div 1440 \in Int
  OBVIOUS
<1>3. QED
  BY <1>1, <1>2 DEF londonDateKey, DayMinutes

LEMMA ShiftedIsInt ==
    ASSUME NEW anchor \in Int, NEW s \in Int
    PROVE  shiftedLondonDate(anchor, s) \in Int
<1>1. PICK d \in Int : d = londonDateKey(anchor)
  BY DateIsInt
<1>2. d * 1440 + 1440 \div 2 + s * 1440 \in Int
  OBVIOUS
<1>3. londonDateKey(d * 1440 + 1440 \div 2 + s * 1440) \in Int
  BY <1>2, DateIsInt
<1>4. QED
  BY <1>1, <1>3 DEF shiftedLondonDate, DayMinutes

LEMMA IsoIsInt ==
    ASSUME NEW hhmm \in Int, NEW anchor \in Int
    PROVE  hhmmToIso(hhmm, anchor) \in Int
<1> DEFINE instant(s) == londonWallToInstant(shiftedLondonDate(anchor, s), hhmm)
           instants == {instant(s) : s \in -1..1}
           distance(t) == Gap(t, anchor)
           nearest(t) == \A u \in instants : distance(t) < distance(u) \/ (distance(t) = distance(u) /\ t <= u)
<1>1. \A s \in -1..1 : instant(s) \in Int
  <2> SUFFICES ASSUME NEW s \in -1..1 PROVE instant(s) \in Int
    OBVIOUS
  <2>1. shiftedLondonDate(anchor, s) \in Int
    BY ShiftedIsInt
  <2>2. QED
    BY <2>1, InstantIsInt
<1>2. PICK x \in Int, y \in Int, z \in Int : x = instant(-1) /\ y = instant(0) /\ z = instant(1)
  <2>1. -1 \in -1..1 /\ 0 \in -1..1 /\ 1 \in -1..1
    OBVIOUS
  <2>2. QED
    BY <1>1, <2>1
<1>3. instants = {x, y, z}
  <2>1. -1..1 = {-1, 0, 1}
    OBVIOUS
  <2> HIDE DEF instant
  <2>2. QED
    BY <1>2, <2>1
<1>4. \E t \in instants : nearest(t)
  <2>1. PICK a \in Nat, b \in Nat, c \in Nat : a = distance(x) /\ b = distance(y) /\ c = distance(z)
    BY GapIsNat
  <2> HIDE DEF instants, distance
  <2>2. PICK t \in {x, y, z} : \A u \in {x, y, z} :
          distance(t) < distance(u) \/ (distance(t) = distance(u) /\ t <= u)
    <3>1. CASE (a < b \/ (a = b /\ x <= y)) /\ (a < c \/ (a = c /\ x <= z))
      <4>1. \A u \in {x, y, z} : distance(x) < distance(u) \/ (distance(x) = distance(u) /\ x <= u)
        BY <2>1, <3>1
      <4>2. QED
        BY <4>1
    <3>2. CASE (b < a \/ (b = a /\ y <= x)) /\ (b < c \/ (b = c /\ y <= z))
      <4>1. \A u \in {x, y, z} : distance(y) < distance(u) \/ (distance(y) = distance(u) /\ y <= u)
        BY <2>1, <3>2
      <4>2. QED
        BY <4>1
    <3>3. CASE (c < a \/ (c = a /\ z <= x)) /\ (c < b \/ (c = b /\ z <= y))
      <4>1. \A u \in {x, y, z} : distance(z) < distance(u) \/ (distance(z) = distance(u) /\ z <= u)
        BY <2>1, <3>3
      <4>2. QED
        BY <4>1
    <3>4. QED
      BY <3>1, <3>2, <3>3
  <2>3. QED
    BY <1>3, <2>2
<1>5. (CHOOSE t \in instants : nearest(t)) \in Int
  <2> HIDE DEF nearest, instants
  <2>1. PICK t : t = (CHOOSE u \in instants : nearest(u))
    OBVIOUS
  <2>2. t \in instants
    BY <1>4, <2>1
  <2>3. t \in Int
    BY <1>3, <2>2
  <2>4. QED
    BY <2>1, <2>3
<1>6. CASE hhmm = NoTime
  BY <1>6 DEF hhmmToIso, NoTime
<1>7. CASE hhmm # NoTime
  BY <1>5, <1>7 DEF hhmmToIso
<1>8. QED
  BY <1>6, <1>7

LEMMA PatternIsInt ==
    ASSUME NEW n \in Nat, NEW times \in [1..n -> Int], NEW anchor \in Int
    PROVE  /\ DOMAIN resolvePatternTimes(times, anchor) = 1..n
           /\ \A i \in 1..n : resolvePatternTimes(times, anchor)[i] \in Int
<1> DEFINE dated == {i \in DOMAIN times : times[i] # NoTime}
           before(i, j) == i < j /\ \A k \in dated : ~(i < k /\ k < j)
           midnights(i) == {j \in dated : j <= i /\ \E k \in dated : before(k, j) /\ times[j] < times[k]}
           first == CHOOSE i \in dated : \A j \in dated : i <= j
           firstIso == hhmmToIso(times[first], anchor)
<1>1. DOMAIN times = 1..n
  OBVIOUS
<1>2. resolvePatternTimes(times, anchor) =
        [i \in 1..n |-> IF i \notin dated THEN NoTime
                        ELSE londonWallToInstant(shiftedLondonDate(firstIso, Cardinality(midnights(i))), times[i])]
  BY <1>1 DEF resolvePatternTimes
<1>3. \A i \in 1..n : Cardinality(midnights(i)) \in Nat
  <2> SUFFICES ASSUME NEW i \in 1..n PROVE Cardinality(midnights(i)) \in Nat
    OBVIOUS
  <2>1. midnights(i) \subseteq 1..n
    BY <1>1
  <2>2. IsFiniteSet(1..n)
    BY FS_Interval
  <2> HIDE DEF midnights
  <2>3. IsFiniteSet(midnights(i))
    BY <2>1, <2>2, FS_Subset
  <2>4. QED
    BY <2>3, FS_CardinalityType
<1>4. dated # {} => firstIso \in Int
  <2> SUFFICES ASSUME dated # {} PROVE firstIso \in Int
    OBVIOUS
  <2>1. dated \in SUBSET Nat
    BY <1>1
  <2>2. \E i \in dated : \A j \in dated : i <= j
    BY <2>1, NatHasSmallest
  <2>3. first \in dated
    BY <2>2
  <2>4. times[first] \in Int
    BY <1>1, <2>3
  <2> HIDE DEF first
  <2>5. QED
    BY <2>4, IsoIsInt
<1>5. \A i \in 1..n : i \in dated =>
        londonWallToInstant(shiftedLondonDate(firstIso, Cardinality(midnights(i))), times[i]) \in Int
  <2> SUFFICES ASSUME NEW i \in 1..n, i \in dated
               PROVE  londonWallToInstant(shiftedLondonDate(firstIso, Cardinality(midnights(i))), times[i]) \in Int
    OBVIOUS
  <2>1. firstIso \in Int /\ Cardinality(midnights(i)) \in Int /\ times[i] \in Int
    BY <1>3, <1>4
  <2> HIDE DEF firstIso, midnights
  <2>2. shiftedLondonDate(firstIso, Cardinality(midnights(i))) \in Int
    BY <2>1, ShiftedIsInt
  <2>3. QED
    BY <2>1, <2>2, InstantIsInt
<1>6. NoTime \in Int
  BY DEF NoTime
<1> HIDE DEF dated, firstIso, midnights
<1>7. QED
  BY <1>2, <1>5, <1>6

-----------------------------------------------------------------------------
(* Times of day and the instants they mean.                                *)

LEMMA OffsetIs ==
    ASSUME NEW t \in Int
    PROVE  londonOffsetMinutes(t) \in {0, 60}
BY DEF londonOffsetMinutes

LEMMA MinutesOfDays ==
    ASSUME NEW t \in Int
    PROVE  /\ t \div 1440 \in Int /\ t % 1440 \in 0..1439
           /\ t = (t \div 1440) * 1440 + (t % 1440)
OBVIOUS

LEMMA DayOfMinute ==
    ASSUME NEW t \in Int, NEW d \in Int, d * 1440 <= t, t < d * 1440 + 1440
    PROVE  t \div 1440 = d
OBVIOUS

(* An instant that a clock on the wall shows twice, the second time: the   *)
(* hour before London's clocks went back.                                  *)
ShownTwice(t) == SummerTo - 60 <= t /\ t < SummerTo

(* A time of day and the day it is on give back the instant they were read *)
(* from, over both changes of the clocks (londonWallToInstant of           *)
(* uk-time.ts, which reads the offset twice); not in the hour that the     *)
(* clocks go through twice, of which it gives the second.                  *)
THEOREM TimesReadBack ==
    ASSUME TrainViewsAssumption, NEW t \in Int, t # NoTime, ~ShownTwice(t)
    PROVE  /\ ukHhmm(t) \in 0..1439 /\ londonDateKey(t) \in Int
           /\ londonWallToInstant(londonDateKey(t), ukHhmm(t)) = t
<1> DEFINE n == t + londonOffsetMinutes(t)
<1>1. SummerFrom \in Int /\ SummerTo \in Int
  BY DEF TrainViewsAssumption
<1>2. n \in Int
  BY OffsetIs
<1>3. londonDateKey(t) = n \div 1440 /\ ukHhmm(t) = n % 1440
  BY DEF londonDateKey, ukHhmm, DayMinutes
<1> HIDE DEF n
<1>4. londonDateKey(t) * 1440 + ukHhmm(t) = n /\ londonDateKey(t) \in Int /\ ukHhmm(t) \in 0..1439
  BY <1>2, <1>3, MinutesOfDays
<1>5. londonWallToInstant(londonDateKey(t), ukHhmm(t)) = n - londonOffsetMinutes(n - londonOffsetMinutes(n))
  BY <1>4 DEF londonWallToInstant, DayMinutes
<1>6. n - londonOffsetMinutes(n - londonOffsetMinutes(n)) = t
  BY <1>1 DEF n, londonOffsetMinutes, ShownTwice
<1>7. QED
  BY <1>4, <1>5, <1>6

LEMMA ShiftedDay ==
    ASSUME NEW a \in Int, NEW s \in Int
    PROVE  /\ londonDateKey(a) \in Int
           /\ shiftedLondonDate(a, s) = londonDateKey(a) + s
<1> DEFINE d == londonDateKey(a)
<1>1. d \in Int
  BY OffsetIs, MinutesOfDays DEF londonDateKey, DayMinutes
<1> HIDE DEF d
<1> DEFINE noon == d * 1440 + 720 + s * 1440
<1>2. noon \in Int
  BY <1>1
<1>3. PICK o \in {0, 60} : o = londonOffsetMinutes(noon)
  BY <1>2, OffsetIs
<1>4. (noon + o) \div 1440 = d + s
  <2>1. (d + s) \in Int /\ (noon + o) \in Int
    BY <1>1, <1>2
  <2>2. (d + s) * 1440 <= noon + o /\ noon + o < (d + s) * 1440 + 1440
    BY <1>1
  <2> HIDE DEF noon
  <2>3. QED
    BY <2>1, <2>2, DayOfMinute
<1>5. 1440 \div 2 = 720
  OBVIOUS
<1>6. shiftedLondonDate(a, s) = (noon + londonOffsetMinutes(noon)) \div 1440
  BY <1>5 DEF shiftedLondonDate, d, londonDateKey, DayMinutes
<1>7. QED
  BY <1>1, <1>3, <1>4, <1>6 DEF d

(* The same reading of another day.                                        *)
LEMMA SameReading ==
    ASSUME TrainViewsAssumption, NEW t \in Int, t # NoTime, NEW k \in Int
    PROVE  \E e \in {-60, 0, 60} :
             /\ londonWallToInstant(londonDateKey(t) + k, ukHhmm(t)) = t + e + k * 1440
             /\ k = -1 /\ (t < SummerFrom \/ t >= SummerFrom + 1500) => e <= 0
             /\ k = 1 /\ (t >= SummerFrom \/ t < SummerFrom - 1500) => e >= 0
<1>1. SummerFrom \in Int /\ SummerTo \in Int
  BY DEF TrainViewsAssumption
<1>2. PICK o \in {0, 60} : o = londonOffsetMinutes(t)
  BY OffsetIs
<1>3. PICK naive \in Int : naive = t + o + k * 1440
  OBVIOUS
<1>4. PICK d, h \in Int : d = londonDateKey(t) /\ h = ukHhmm(t) /\ d * 1440 + h = t + o
  <2>1. t + o \in Int
    OBVIOUS
  <2>2. londonDateKey(t) = (t + o) \div 1440 /\ ukHhmm(t) = (t + o) % 1440
    BY <1>2 DEF londonDateKey, ukHhmm, DayMinutes
  <2>3. QED
    BY <2>1, <2>2, MinutesOfDays
<1>5. (d + k) * 1440 + h = naive
  <2>1. (d + k) * 1440 = d * 1440 + k * 1440
    OBVIOUS
  <2>2. PICK u, v \in Int : u = d * 1440 /\ v = k * 1440
    OBVIOUS
  <2>3. u + h = t + o /\ naive = t + o + v
    BY <1>3, <1>4, <2>2
  <2>4. u + v + h = naive
    BY <2>3
  <2>5. QED
    BY <2>1, <2>2, <2>4
<1>6. PICK g \in {0, 60} : g = londonOffsetMinutes(naive)
  BY OffsetIs
<1>7. PICK q \in {0, 60} : q = londonOffsetMinutes(naive - g)
  BY OffsetIs
<1>8. londonWallToInstant(londonDateKey(t) + k, ukHhmm(t)) = t + (o - q) + k * 1440
  <2>1. londonWallToInstant(d + k, h) = naive - q
    BY <1>5, <1>6, <1>7 DEF londonWallToInstant, DayMinutes
  <2>2. QED
    BY <1>3, <1>4, <2>1
<1>9. k = -1 /\ (t < SummerFrom \/ t >= SummerFrom + 1500) => o - q <= 0
  BY <1>1, <1>2, <1>3, <1>6, <1>7 DEF londonOffsetMinutes
<1>10. k = 1 /\ (t >= SummerFrom \/ t < SummerFrom - 1500) => o - q >= 0
  BY <1>1, <1>2, <1>3, <1>6, <1>7 DEF londonOffsetMinutes
<1>11. o - q \in {-60, 0, 60}
  OBVIOUS
<1>12. QED
  BY <1>8, <1>9, <1>10, <1>11

(* A time of day alone is dated by what is nearest (hhmmToIso of           *)
(* uk-time.ts): it gives back every instant less than half a day from its  *)
(* anchor, less the half of an hour where the clocks go forward between an *)
(* instant and the same reading of the day before it or after it.          *)
THEOREM NearestDay ==
    ASSUME TrainViewsAssumption, NEW t \in Int, t # NoTime, ~ShownTwice(t),
           NEW a \in Int, DatedFrom(a, t)
    PROVE  hhmmToIso(ukHhmm(t), a) = t
<1> DEFINE hh == ukHhmm(t)
           D == londonDateKey(t)
           A == londonDateKey(a)
           instant(s) == londonWallToInstant(shiftedLondonDate(a, s), hh)
           distance(s) == Gap(instant(s), a)
<1>1. hh \in 0..1439 /\ D \in Int /\ londonWallToInstant(D, hh) = t
  BY TimesReadBack
<1>2. A \in Int /\ \A s \in Int : shiftedLondonDate(a, s) = A + s
  BY ShiftedDay
<1>3. \E q \in {0, 60} : D * 1440 + hh = t + q
  <2>1. PICK q \in {0, 60} : q = londonOffsetMinutes(t)
    BY OffsetIs
  <2>2. t + q \in Int
    OBVIOUS
  <2>3. D = (t + q) \div 1440 /\ hh = (t + q) % 1440
    BY <2>1 DEF londonDateKey, ukHhmm, DayMinutes
  <2>4. QED
    BY <2>2, <2>3, MinutesOfDays
<1>4. \E p \in {0, 60}, m \in 0..1439 : A * 1440 + m = a + p
  <2>1. PICK p \in {0, 60} : p = londonOffsetMinutes(a)
    BY OffsetIs
  <2>2. a + p \in Int
    OBVIOUS
  <2>3. A = (a + p) \div 1440
    BY <2>1 DEF londonDateKey, DayMinutes
  <2>4. QED
    BY <2>2, <2>3, MinutesOfDays
<1>5. \A r \in -1..1 : r # D - A => \E k \in Int : k # 0 /\ r = (D + k) - A
  <2> SUFFICES ASSUME NEW r \in -1..1, r # D - A
               PROVE  \E k \in Int : k # 0 /\ r = (D + k) - A
    OBVIOUS
  <2> HIDE DEF D, A, hh
  <2>0. r \in Int /\ D \in Int /\ A \in Int
    BY <1>1, <1>2
  <2>1. (A + r) - D \in Int /\ (A + r) - D # 0 /\ r = (D + ((A + r) - D)) - A
    BY <2>0
  <2>2. QED
    BY <2>1
<1>6. \A k \in Int : k # 0 => \E e \in {-60, 0, 60} :
        /\ londonWallToInstant(D + k, hh) = t + e + k * 1440
        /\ k = -1 /\ (t < SummerFrom \/ t >= SummerFrom + 1500) => e <= 0
        /\ k = 1 /\ (t >= SummerFrom \/ t < SummerFrom - 1500) => e >= 0
  BY SameReading
<1> HIDE DEF D, A, hh
<1>7. /\ SummerFrom \in Int
      /\ t - a < 720 /\ a - t < 720
      /\ \/ t - a < 690 /\ a - t < 690
         \/ /\ a <= t => t < SummerFrom \/ t >= SummerFrom + 1500
            /\ t < a => t >= SummerFrom \/ t < SummerFrom - 1500
  BY DEF DatedFrom, Gap, TrainViewsAssumption
<1>8. D - A \in -1..1
  <2>1. PICK p \in {0, 60}, m \in 0..1439 : A * 1440 + m = a + p
    BY <1>4
  <2>2. PICK q \in {0, 60} : D * 1440 + hh = t + q
    BY <1>3
  <2>3. PICK x, y, h \in Int : x = D * 1440 /\ y = A * 1440 /\ h = hh
    BY <1>1, <1>2
  <2>4. 0 <= q /\ q <= 60 /\ 0 <= p /\ p <= 60 /\ 0 <= h /\ h <= 1439 /\ 0 <= m /\ m <= 1439
    BY <1>1, <2>1, <2>2, <2>3
  <2>5. x + h = t + q /\ y + m = a + p /\ p \in Int /\ m \in Int /\ q \in Int
    BY <1>1, <1>2, <2>1, <2>2, <2>3
  <2>6. x < y + 2880
    BY <1>7, <2>4, <2>5
  <2>7. y < x + 2880
    BY <1>7, <2>4, <2>5
  <2>8. D - A < 2 /\ A - D < 2
    BY <1>1, <1>2, <2>3, <2>6, <2>7
  <2>9. QED
    BY <1>1, <1>2, <2>8
<1>9. instant(D - A) = t
  <2>1. D - A \in Int /\ A + (D - A) = D
    BY <1>1, <1>2
  <2>2. QED
    BY <1>1, <1>2, <2>1
<1>10. PICK g \in Int : g = Gap(t, a) /\ g = IF t < a THEN a - t ELSE t - a
  <2>1. (IF t < a THEN a - t ELSE t - a) \in Int
    OBVIOUS
  <2>2. Gap(t, a) = IF t < a THEN a - t ELSE t - a
    BY DEF Gap
  <2>3. QED
    BY <2>1, <2>2
<1>11. \A r \in -1..1 : r # D - A => distance(r) \in Int /\ distance(r) > g
  <2> SUFFICES ASSUME NEW r \in -1..1, r # D - A
               PROVE  distance(r) \in Int /\ distance(r) > g
    OBVIOUS
  <2>1. PICK k \in Int : k # 0 /\ r = (D + k) - A
    BY <1>5
  <2>2. instant(r) = londonWallToInstant(D + k, hh)
    <3>1. r \in Int /\ A + r = D + k
      BY <1>1, <1>2, <2>1
    <3>2. QED
      BY <1>2, <3>1
  <2>3. PICK e \in {-60, 0, 60} :
          /\ londonWallToInstant(D + k, hh) = t + e + k * 1440
          /\ k = -1 /\ (t < SummerFrom \/ t >= SummerFrom + 1500) => e <= 0
          /\ k = 1 /\ (t >= SummerFrom \/ t < SummerFrom - 1500) => e >= 0
    BY <1>6, <2>1
  <2>4. PICK x \in Int : x = instant(r) /\ x = t + e + k * 1440
    BY <2>2, <2>3
  <2>5. distance(r) = IF x < a THEN a - x ELSE x - a
    BY <2>4 DEF Gap
  <2>6. -60 <= e /\ e <= 60 /\ e \in Int
    BY <2>3
  <2>7. CASE k = -1
    <3>1. x = t + e - 1440 /\ (t < SummerFrom \/ t >= SummerFrom + 1500 => e <= 0)
      BY <2>3, <2>4, <2>7
    <3>2. x < a /\ a - x > g
      BY <1>7, <1>10, <2>6, <3>1
    <3>3. QED
      BY <2>5, <3>2
  <2>8. CASE k = 1
    <3>1. x = t + e + 1440 /\ (t >= SummerFrom \/ t < SummerFrom - 1500 => e >= 0)
      BY <2>3, <2>4, <2>8
    <3>2. x > a /\ x - a > g
      BY <1>7, <1>10, <2>6, <3>1
    <3>3. QED
      BY <2>5, <3>2
  <2>9. CASE k > 1
    <3>1. x >= t + 2820
      BY <2>4, <2>6, <2>9
    <3>2. x > a /\ x - a > g
      BY <1>7, <1>10, <3>1
    <3>3. QED
      BY <2>5, <3>2
  <2>10. CASE k < -1
    <3>1. x <= t - 2820
      BY <2>4, <2>6, <2>10
    <3>2. x < a /\ a - x > g
      BY <1>7, <1>10, <3>1
    <3>3. QED
      BY <2>5, <3>2
  <2>11. QED
    BY <2>1, <2>7, <2>8, <2>9, <2>10
<1>12. distance(D - A) = g
  BY <1>9, <1>10
<1> DEFINE instants == {instant(s) : s \in -1..1}
           away(u) == Gap(u, a)
           nearest(u) == \A v \in instants : away(u) < away(v) \/ (away(u) = away(v) /\ u <= v)
<1>13. t \in instants /\ away(t) = g
  BY <1>8, <1>9, <1>10
<1>14. \A u \in instants : u # t => away(u) \in Int /\ away(u) > g
  <2> SUFFICES ASSUME NEW u \in instants, u # t
               PROVE  away(u) \in Int /\ away(u) > g
    OBVIOUS
  <2>1. PICK s \in -1..1 : u = instant(s)
    OBVIOUS
  <2>2. s # D - A
    BY <1>9, <2>1
  <2>3. QED
    BY <1>11, <2>1, <2>2
<1>15. (CHOOSE u \in instants : nearest(u)) = t
  <2> HIDE DEF instants, away
  <2>1. nearest(t)
    BY <1>10, <1>13, <1>14
  <2>2. \A u \in instants : nearest(u) => u = t
    BY <1>10, <1>13, <1>14
  <2> HIDE DEF nearest
  <2>3. QED
    BY <1>13, <2>1, <2>2
<1>16. hh # NoTime
  BY <1>1 DEF NoTime
<1>17. hhmmToIso(hh, a) = (CHOOSE u \in instants : nearest(u))
  BY <1>16 DEF hhmmToIso
<1>18. QED
  BY <1>15, <1>17 DEF hh

(* The clock in London, as a number of minutes that never goes back while  *)
(* its hands do.                                                           *)
OnTheClock(t) == t + londonOffsetMinutes(t)

LEMMA ClockIs ==
    ASSUME NEW t \in Int, t # NoTime
    PROVE  /\ OnTheClock(t) \in Int /\ londonDateKey(t) \in Int /\ ukHhmm(t) \in 0..1439
           /\ OnTheClock(t) = londonDateKey(t) * 1440 + ukHhmm(t)
<1>1. PICK n \in Int : n = OnTheClock(t)
  BY OffsetIs DEF OnTheClock
<1>2. londonDateKey(t) = n \div 1440 /\ ukHhmm(t) = n % 1440
  BY <1>1 DEF londonDateKey, ukHhmm, DayMinutes, OnTheClock
<1>3. n \div 1440 \in Int /\ n % 1440 \in 0..1439 /\ n = (n \div 1440) * 1440 + (n % 1440)
  BY MinutesOfDays
<1>4. QED
  BY <1>1, <1>2, <1>3

(* An instant always reads as a time.                                      *)
LEMMA InstantReads ==
    ASSUME NEW t \in Int, t # NoTime
    PROVE  ukHhmm(t) # NoTime
<1>1. OnTheClock(t) \in Int /\ londonDateKey(t) \in Int /\ ukHhmm(t) \in 0..1439
  BY ClockIs
<1>2. \A h \in 0..1439 : h # NoTime
  BY DEF NoTime
<1>3. QED
  BY <1>1, <1>2

(* Less than a day on by the clock it is another day where the hands are   *)
(* behind.                                                                 *)
LEMMA NextDay ==
    ASSUME NEW t \in Int, t # NoTime, NEW u \in Int, u # NoTime,
           OnTheClock(t) <= OnTheClock(u), OnTheClock(u) < OnTheClock(t) + 1440
    PROVE  londonDateKey(u) = londonDateKey(t) + (IF ukHhmm(u) < ukHhmm(t) THEN 1 ELSE 0)
<1>1. PICK n, m, d, e, h, k \in Int : /\ n = OnTheClock(t) /\ m = OnTheClock(u)
                                     /\ d = londonDateKey(t) /\ e = londonDateKey(u)
                                     /\ h = ukHhmm(t) /\ k = ukHhmm(u)
  <2>1. OnTheClock(t) \in Int /\ londonDateKey(t) \in Int /\ ukHhmm(t) \in Int
    <3>1. OnTheClock(t) \in Int /\ londonDateKey(t) \in Int /\ ukHhmm(t) \in 0..1439
      BY ClockIs
    <3>2. QED
      BY <3>1
  <2>2. OnTheClock(u) \in Int /\ londonDateKey(u) \in Int /\ ukHhmm(u) \in Int
    <3>1. OnTheClock(u) \in Int /\ londonDateKey(u) \in Int /\ ukHhmm(u) \in 0..1439
      BY ClockIs
    <3>2. QED
      BY <3>1
  <2>3. QED
    BY <2>1, <2>2
<1>2. n = d * 1440 + h /\ 0 <= h /\ h <= 1439
  <2>1. ukHhmm(t) \in 0..1439 /\ OnTheClock(t) = londonDateKey(t) * 1440 + ukHhmm(t)
    BY ClockIs
  <2>2. QED
    BY <1>1, <2>1
<1>3. m = e * 1440 + k /\ 0 <= k /\ k <= 1439
  <2>1. ukHhmm(u) \in 0..1439 /\ OnTheClock(u) = londonDateKey(u) * 1440 + ukHhmm(u)
    BY ClockIs
  <2>2. QED
    BY <1>1, <2>1
<1>4. n <= m /\ m < n + 1440
  BY <1>1
<1>5. (e - d) * 1440 = (m - n) + (h - k)
  BY <1>2, <1>3
<1>6. e = d + (IF k < h THEN 1 ELSE 0)
  <2>1. CASE k < h
    <3>1. (e - d) * 1440 > 0 /\ (e - d) * 1440 < 2880
      BY <1>2, <1>3, <1>4, <1>5, <2>1
    <3>2. e - d = 1
      BY <3>1
    <3>3. QED
      BY <2>1, <3>2
  <2>2. CASE ~(k < h)
    <3>1. (e - d) * 1440 > 0 - 1440 /\ (e - d) * 1440 < 1440
      BY <1>2, <1>3, <1>4, <1>5, <2>2
    <3>2. e - d = 0
      BY <3>1
    <3>3. QED
      BY <2>2, <3>2
  <2>3. QED
    BY <2>1, <2>2
<1>7. QED
  BY <1>1, <1>6

(* Of the indices K the one that comes before j.                           *)
JustBefore(K, i, j) == i < j /\ \A k \in K : ~(i < k /\ k < j)
Midnights(K, times, i) ==
  {j \in K : j <= i /\ \E k \in K : JustBefore(K, k, j) /\ times[j] < times[k]}

OneMoreMidnight(K, times, k, i) ==
  /\ Cardinality(Midnights(K, times, i)) \in Nat
  /\ Cardinality(Midnights(K, times, i)) =
       Cardinality(Midnights(K, times, k)) + (IF times[i] < times[k] THEN 1 ELSE 0)

LEMMA OneIsBefore ==
    ASSUME NEW n \in Nat, NEW K \in SUBSET (1..n), NEW i \in K, NEW f \in K, f < i
    PROVE  \E k \in K : JustBefore(K, k, i)
<1> DEFINE B == {k \in K : k < i}
<1>1. B \in SUBSET (0..n) /\ B # {}
  <2>1. \A j \in K : j \in 0..n
    OBVIOUS
  <2>2. f \in B
    OBVIOUS
  <2>3. QED
    BY <2>1, <2>2
<1>2. PICK k \in B : \A j \in B : k >= j
  BY <1>1, BoundedHasLargest
<1>3. \A j \in K : j \in Int
  OBVIOUS
<1>4. QED
  BY <1>2, <1>3 DEF JustBefore

(* At each known time there is one midnight more, or none.                 *)
LEMMA MidnightsGrow ==
    ASSUME NEW n \in Nat, NEW K \in SUBSET (1..n), NEW times \in [1..n -> Int],
           NEW i \in K, NEW k \in K, JustBefore(K, k, i)
    PROVE  OneMoreMidnight(K, times, k, i)
<1> DEFINE M(j) == Midnights(K, times, j)
<1>1. \A j \in K : j \in Int
  OBVIOUS
<1>2. \A j \in K : IsFiniteSet(M(j)) /\ Cardinality(M(j)) \in Nat
  <2> SUFFICES ASSUME NEW j \in K PROVE IsFiniteSet(M(j)) /\ Cardinality(M(j)) \in Nat
    OBVIOUS
  <2>1. M(j) \subseteq 1..n
    BY DEF Midnights
  <2>2. IsFiniteSet(1..n)
    BY FS_Interval
  <2>3. QED
    BY <2>1, <2>2, FS_Subset, FS_CardinalityType
<1>3. \A j \in K : j <= i <=> j <= k \/ j = i
  BY <1>1 DEF JustBefore
<1>4. i \in M(i) <=> times[i] < times[k]
  <2>1. \A q \in K : JustBefore(K, q, i) => q = k
    BY <1>1 DEF JustBefore
  <2>2. QED
    BY <1>1, <2>1 DEF Midnights
<1>5. i \notin M(k)
  BY <1>1 DEF Midnights, JustBefore
<1>6. \A j \in K : j # i => (j \in M(i) <=> j \in M(k))
  BY <1>3 DEF Midnights
<1>7. M(i) \subseteq K /\ M(k) \subseteq K
  BY DEF Midnights
<1> HIDE DEF M
<1>8. CASE times[i] < times[k]
  <2>1. M(i) = M(k) \cup {i}
    BY <1>4, <1>6, <1>7, <1>8
  <2>2. Cardinality(M(i)) = Cardinality(M(k)) + 1
    BY <1>2, <1>5, <2>1, FS_AddElement
  <2>3. QED
    BY <1>2, <1>8, <2>2 DEF M, OneMoreMidnight
<1>9. CASE ~(times[i] < times[k])
  <2>1. \A j \in K : j \in M(i) <=> j \in M(k)
    BY <1>4, <1>5, <1>6, <1>9
  <2>2. M(i) = M(k)
    BY <1>7, <2>1
  <2>3. QED
    BY <1>2, <1>9, <2>2 DEF M, OneMoreMidnight
<1>10. QED
  BY <1>8, <1>9

(* Known times K of a list, the first of them f, that were read from the   *)
(* instants b, and the day that follows for each of them.                  *)
IsKnown(n, times, K, f) ==
  /\ n \in Nat /\ times \in [1..n -> Int]
  /\ K = {i \in 1..n : times[i] # NoTime} /\ f \in K /\ \A i \in K : f <= i
IsPattern(n, times, b, K, f) ==
  /\ IsKnown(n, times, K, f) /\ b \in [1..n -> Int]
  /\ \A i \in K : times[i] = ukHhmm(b[i]) /\ b[i] # NoTime /\ ~ShownTwice(b[i])
  /\ \A i, j \in K : JustBefore(K, i, j) =>
       OnTheClock(b[i]) <= OnTheClock(b[j]) /\ OnTheClock(b[j]) < OnTheClock(b[i]) + 1440
DayFollows(times, b, K, f, i) ==
  /\ Cardinality(Midnights(K, times, i)) \in Nat
  /\ londonDateKey(b[i]) = londonDateKey(b[f]) + Cardinality(Midnights(K, times, i))

(* The day of a known time is as many days after that of the first as the  *)
(* hands have gone past midnight.                                          *)
LEMMA MidnightsAreDays ==
    ASSUME NEW n, NEW times, NEW b, NEW K, NEW f, IsPattern(n, times, b, K, f), NEW i \in K
    PROVE  DayFollows(times, b, K, f, i)
<1> DEFINE P(j) == DayFollows(times, b, K, f, j)
           Wrong == {j \in K : ~P(j)}
<1>1. /\ n \in Nat /\ K \in SUBSET (1..n) /\ f \in K /\ K \subseteq Nat
      /\ times \in [1..n -> Int] /\ \A j \in K : j \in Int /\ f <= j /\ b[j] \in Int
  <2>1. /\ n \in Nat /\ K \in SUBSET (1..n) /\ f \in K
        /\ times \in [1..n -> Int] /\ b \in [1..n -> Int] /\ \A j \in K : f <= j
    BY DEF IsPattern, IsKnown
  <2>2. QED
    BY <2>1
<1>2. /\ \A j \in K : times[j] = ukHhmm(b[j]) /\ b[j] # NoTime
      /\ \A j, k \in K : JustBefore(K, k, j) =>
           OnTheClock(b[k]) <= OnTheClock(b[j]) /\ OnTheClock(b[j]) < OnTheClock(b[k]) + 1440
  BY DEF IsPattern, IsKnown
<1>3. \A j, k \in K : JustBefore(K, k, j) => OneMoreMidnight(K, times, k, j)
  BY <1>1, MidnightsGrow
<1>4. SUFFICES \A j \in K : P(j)
  OBVIOUS
<1>5. SUFFICES ASSUME Wrong # {} PROVE FALSE
  <2> HIDE DEF P
  <2>1. QED
    OBVIOUS
<1>6. Wrong \in SUBSET Nat /\ Wrong \subseteq K /\ \A j \in K : j \in Wrong <=> ~P(j)
  <2> HIDE DEF P
  <2>1. \A j \in K : j \in Nat
    BY <1>1
  <2>2. Wrong \subseteq K /\ \A j \in K : j \in Wrong <=> ~P(j)
    OBVIOUS
  <2>3. QED
    BY <2>1, <2>2
<1> HIDE DEF Wrong
<1>7. PICK j \in Wrong : \A k \in Wrong : j <= k
  <2>1. Wrong \in SUBSET Nat
    BY <1>6
  <2>2. \E j \in Wrong : \A k \in Wrong : j <= k
    BY ONLY <1>5, <2>1, NatHasSmallest
  <2>3. QED
    BY <2>2
<1>8. j \in K
  BY <1>6
<1>9. ~P(j)
  <2> HIDE DEF P
  <2>1. QED
    BY <1>6, <1>8
<1>10. CASE j = f
  <2>1. Midnights(K, times, f) = {}
    <3>1. SUFFICES ASSUME NEW q \in Midnights(K, times, f) PROVE FALSE
      OBVIOUS
    <3>2. q \in K /\ q <= f /\ \E k \in K : k < q
      BY DEF Midnights, JustBefore
    <3>3. PICK k \in K : k < q
      BY <3>2
    <3>4. k \in Int /\ q \in Int /\ f \in Int /\ f <= k
      BY ONLY <1>1, <3>2, <3>3
    <3>5. QED
      BY ONLY <3>2, <3>3, <3>4
  <2>2. Cardinality(Midnights(K, times, f)) = 0
    BY <2>1, FS_EmptySet
  <2>3. londonDateKey(b[f]) \in Int
    BY <1>1, <1>2, ClockIs
  <2>4. P(f)
    BY <2>2, <2>3 DEF DayFollows
  <2>5. QED
    BY <1>9, <1>10, <2>4
<1>11. CASE j # f
  <2>1. f < j
    BY <1>1, <1>8, <1>11
  <2>2. PICK k \in K : JustBefore(K, k, j)
    <3>1. \E k \in K : JustBefore(K, k, j)
      BY <1>1, <1>8, <2>1, OneIsBefore
    <3>2. QED
      BY <3>1
  <2>3. k \notin Wrong
    <3>1. k < j /\ k \in Int /\ j \in Int
      BY <1>1, <1>8, <2>2 DEF JustBefore
    <3>2. QED
      BY <1>7, <3>1
  <2>4. P(k)
    <3> HIDE DEF P
    <3>1. QED
      BY <1>6, <2>3
  <2>5. londonDateKey(b[j]) = londonDateKey(b[k]) + (IF ukHhmm(b[j]) < ukHhmm(b[k]) THEN 1 ELSE 0)
    <3>1. b[j] \in Int /\ b[k] \in Int /\ b[j] # NoTime /\ b[k] # NoTime
      BY <1>1, <1>2, <1>8
    <3>2. OnTheClock(b[k]) <= OnTheClock(b[j]) /\ OnTheClock(b[j]) < OnTheClock(b[k]) + 1440
      BY <1>2, <1>8, <2>2
    <3>3. QED
      BY <3>1, <3>2, NextDay
  <2>6. times[j] = ukHhmm(b[j]) /\ times[k] = ukHhmm(b[k])
    BY <1>2, <1>8
  <2>7. /\ Cardinality(Midnights(K, times, j)) \in Nat
        /\ Cardinality(Midnights(K, times, j)) =
             Cardinality(Midnights(K, times, k)) + (IF times[j] < times[k] THEN 1 ELSE 0)
    BY <1>3, <1>8, <2>2 DEF OneMoreMidnight
  <2>8. PICK x, y \in Nat : x = Cardinality(Midnights(K, times, k)) /\ y = Cardinality(Midnights(K, times, j))
    BY <2>4, <2>7 DEF DayFollows
  <2>9. londonDateKey(b[f]) \in Int
    BY <1>1, <1>2, ClockIs
  <2>10. londonDateKey(b[j]) = londonDateKey(b[f]) + y
    <3>1. PICK z \in {0, 1} : z = IF times[j] < times[k] THEN 1 ELSE 0
      OBVIOUS
    <3>2. y = x + z
      BY <2>7, <2>8, <3>1
    <3>3. londonDateKey(b[j]) = londonDateKey(b[k]) + z
      BY <2>5, <2>6, <3>1
    <3>4. londonDateKey(b[k]) = londonDateKey(b[f]) + x
      BY <2>4, <2>8 DEF DayFollows
    <3>5. QED
      BY <2>9, <3>2, <3>3, <3>4
  <2>11. P(j)
    BY <2>7, <2>8, <2>10 DEF DayFollows
  <2>12. QED
    BY <1>9, <2>11
<1>12. QED
  BY <1>10, <1>11

(* What resolvePatternTimes does, by the known times K and the first, f.   *)
PatternOf(n, times, K, iso) ==
  [i \in 1..n |-> IF i \notin K THEN NoTime
     ELSE londonWallToInstant(shiftedLondonDate(iso, Cardinality(Midnights(K, times, i))), times[i])]

LEMMA PatternIs ==
    ASSUME NEW n, NEW times, NEW K, NEW f, IsKnown(n, times, K, f), NEW a
    PROVE  resolvePatternTimes(times, a) = PatternOf(n, times, K, hhmmToIso(times[f], a))
<1>1. /\ n \in Nat /\ times \in [1..n -> Int] /\ f \in K /\ \A i \in K : f <= i /\ i \in Int
      /\ K = {i \in 1..n : times[i] # NoTime}
  BY DEF IsKnown
<1>2. (CHOOSE i \in K : \A j \in K : i <= j) = f
  <2>1. \A i \in K : (\A j \in K : i <= j) => i = f
    BY <1>1
  <2>2. QED
    BY <1>1, <2>1
<1>3. DOMAIN times = 1..n
  BY <1>1
<1> DEFINE nights(i) == {j \in K : j <= i /\ \E k \in K : (k < j /\ \A m \in K : ~(k < m /\ m < j))
                                                            /\ times[j] < times[k]}
<1>4. resolvePatternTimes(times, a) =
        [i \in DOMAIN times |->
           IF i \notin K THEN NoTime
           ELSE londonWallToInstant(shiftedLondonDate(hhmmToIso(times[CHOOSE k \in K : \A j \in K : k <= j], a),
                                                      Cardinality(nights(i))), times[i])]
  <2>1. K = {i \in DOMAIN times : times[i] # NoTime}
    BY <1>1, <1>3
  <2>2. QED
    BY ONLY <2>1 DEF resolvePatternTimes
<1>5. \A i \in 1..n : nights(i) = Midnights(K, times, i)
  BY ONLY DEF Midnights, JustBefore
<1> HIDE DEF nights
<1>6. QED
  BY ONLY <1>2, <1>3, <1>4, <1>5 DEF PatternOf

(* A pattern of times of day, some of them unknown, is dated right over    *)
(* any number of midnights (resolvePatternTimes of uk-time.ts): it gives   *)
(* back the instants they were read from, if the first of them is less     *)
(* than half a day from the anchor and less than a day, by the clock,      *)
(* passes from one known time to the next.                                 *)
THEOREM PatternIsDated ==
    ASSUME TrainViewsAssumption, NEW n, NEW times, NEW b, NEW K, NEW f,
           IsPattern(n, times, b, K, f), NEW a \in Int, DatedFrom(a, b[f])
    PROVE  resolvePatternTimes(times, a) = [i \in 1..n |-> IF i \in K THEN b[i] ELSE NoTime]
<1>1. /\ n \in Nat /\ times \in [1..n -> Int] /\ f \in K
      /\ K = {i \in 1..n : times[i] # NoTime} /\ \A i \in K : f <= i
  BY DEF IsPattern, IsKnown
<1>2. \A i \in K : b[i] \in Int /\ b[i] # NoTime /\ ~ShownTwice(b[i]) /\ times[i] = ukHhmm(b[i])
  <2>1. b \in [1..n -> Int] /\ K \subseteq 1..n
    BY <1>1 DEF IsPattern, IsKnown
  <2>2. \A i \in K : b[i] \in Int
    BY <2>1
  <2>3. QED
    BY <2>2 DEF IsPattern, IsKnown
<1>3. hhmmToIso(times[f], a) = b[f]
  BY <1>1, <1>2, NearestDay
<1> DEFINE M(i) == Cardinality(Midnights(K, times, i))
<1>4. \A i \in K : M(i) \in Nat /\ londonDateKey(b[i]) = londonDateKey(b[f]) + M(i)
  BY MidnightsAreDays DEF DayFollows
<1>5. resolvePatternTimes(times, a) = PatternOf(n, times, K, b[f])
  BY <1>3, PatternIs DEF IsPattern
<1> HIDE DEF M
<1>6. \A i \in K : londonWallToInstant(shiftedLondonDate(b[f], M(i)), times[i]) = b[i]
  <2> SUFFICES ASSUME NEW i \in K
               PROVE  londonWallToInstant(shiftedLondonDate(b[f], M(i)), times[i]) = b[i]
    OBVIOUS
  <2>1. b[f] \in Int /\ M(i) \in Int
    BY <1>1, <1>2, <1>4
  <2>2. shiftedLondonDate(b[f], M(i)) = londonDateKey(b[i])
    BY <1>4, <2>1, ShiftedDay
  <2>3. times[i] = ukHhmm(b[i]) /\ b[i] \in Int /\ b[i] # NoTime /\ ~ShownTwice(b[i])
    BY <1>2
  <2>4. QED
    BY <2>2, <2>3, TimesReadBack
<1>7. QED
  BY <1>5, <1>6 DEF M, PatternOf

(* What is booked is read back from the clock, but for the hour that the   *)
(* clocks leave out.                                                       *)
leftOut(d, h) == SummerFrom <= d * 1440 + h /\ d * 1440 + h < SummerFrom + 60

LEMMA WallReadsBack ==
    ASSUME NEW d \in Nat, NEW h \in Int, 0 <= h, h < 1440, ~leftOut(d, h)
    PROVE  /\ londonWallToInstant(d, h) \in Int
           /\ londonWallToInstant(d, h) # NoTime /\ ~ShownTwice(londonWallToInstant(d, h))
           /\ OnTheClock(londonWallToInstant(d, h)) = d * 1440 + h
           /\ londonDateKey(londonWallToInstant(d, h)) = d /\ ukHhmm(londonWallToInstant(d, h)) = h
<1>1. SummerFrom \in Int /\ SummerTo \in Int /\ SummerFrom + 60 <= SummerTo
  BY TrainViewsAssumption
<1>2. PICK n \in Nat : n = d * 1440 + h
  OBVIOUS
<1>3. PICK t : t = londonWallToInstant(d, h)
  OBVIOUS
<1>4. t = n - londonOffsetMinutes(n - londonOffsetMinutes(n))
  BY <1>2, <1>3 DEF londonWallToInstant, DayMinutes
<1>5. ~(SummerFrom <= n /\ n < SummerFrom + 60)
  BY <1>2 DEF leftOut
<1>6. t \in Int /\ t >= -60
  BY <1>1, <1>4 DEF londonOffsetMinutes
<1>7. ~(SummerTo - 60 <= t /\ t < SummerTo) /\ t + londonOffsetMinutes(t) = n
  BY <1>1, <1>4, <1>5 DEF londonOffsetMinutes
<1>8. t # NoTime
  BY <1>6 DEF NoTime
<1>9. n \div 1440 = d /\ n % 1440 = h
  BY <1>2
<1>10. londonDateKey(t) = d /\ ukHhmm(t) = h
  BY <1>7, <1>8, <1>9 DEF londonDateKey, ukHhmm, DayMinutes
<1>11. OnTheClock(t) = d * 1440 + h
  BY <1>2, <1>7 DEF OnTheClock
<1>12. QED
  BY <1>3, <1>6, <1>7, <1>8, <1>10, <1>11 DEF ShownTwice

(* The route by the clock.                                                 *)
clockOf(i) == bookedDay(route, i) * 1440 + route[i].time

LEMMA TimesOfDay ==
    ASSUME ClockInv
    PROVE  \A i \in 1..Len(route) : route[i].time \in Int /\ 0 <= route[i].time /\ route[i].time < 1440
<1>1. scenario.route \in Seq(Point)
  BY TrainViewsAssumption DEF ClockInv
<1>2. \A i \in 1..Len(route) : route[i] \in Point
  BY <1>1 DEF route
<1>4. \A p \in Point : p.time \in 0..(DayMinutes - 1)
  BY DEF Point
<1>5. SUFFICES ASSUME NEW i \in 1..Len(route)
               PROVE  route[i].time \in Int /\ 0 <= route[i].time /\ route[i].time < 1440
  OBVIOUS
<1>6. PICK p \in Point : p = route[i]
  BY <1>2
<1>7. p.time \in 0..(DayMinutes - 1)
  BY <1>4
<1>8. PICK h : h = p.time
  OBVIOUS
<1>9. h \in Int /\ 0 <= h /\ h < 1440
  <2>1. h \in 0..(DayMinutes - 1)
    BY ONLY <1>7, <1>8
  <2>2. QED
    BY ONLY <2>1 DEF DayMinutes
<1>10. QED
  BY <1>6, <1>8, <1>9

LEMMA ClockOrder ==
    ASSUME ClockInv, Timetabled(scenario), NEW i \in 1..Len(route), NEW j \in 1..Len(route), i < j
    PROVE  /\ clockOf(i) \in Nat /\ clockOf(j) \in Nat
           /\ clockOf(i) <= clockOf(j) /\ clockOf(j) < clockOf(i) + 1440
<1>1. PICK first \in Int, x \in Int, y \in Int :
        /\ first = route[1].time /\ x = route[i].time /\ y = route[j].time
        /\ 0 <= first /\ first < 1440 /\ 0 <= x /\ x < 1440 /\ 0 <= y /\ y < 1440
  <2>1. 1 \in 1..Len(route)
    <3>1. Len(route) \in Nat /\ Len(route) > 1
      BY RouteFacts
    <3>2. QED
      BY ONLY <3>1
  <2>2. \A k \in 1..Len(route) : route[k].time \in Int /\ 0 <= route[k].time /\ route[k].time < 1440
    BY ONLY ClockInv, TimesOfDay
  <2>3. /\ route[1].time \in Int /\ 0 <= route[1].time /\ route[1].time < 1440
        /\ route[i].time \in Int /\ 0 <= route[i].time /\ route[i].time < 1440
        /\ route[j].time \in Int /\ 0 <= route[j].time /\ route[j].time < 1440
    BY <2>1, <2>2
  <2>4. QED
    BY ONLY <2>3
<1>3. PICK s \in Nat : s = Ssd
  BY TrainViewsAssumption
<1>4. PICK d \in Nat : d = s * 1440 /\ (s + 1) * 1440 = d + 1440
  <2>1. (s + 1) * 1440 = s * 1440 + 1440
    OBVIOUS
  <2>2. QED
    BY <2>1
<1>5. PICK u \in Nat : u = clockOf(i) /\ u = (IF x < first THEN d + 1440 ELSE d) + x
  <2>1. clockOf(i) = (s + (IF x < first THEN 1 ELSE 0)) * 1440 + x
    BY ONLY <1>1, <1>3 DEF clockOf, bookedDay
  <2>2. CASE x < first
    <3>1. clockOf(i) = (s + 1) * 1440 + x
      BY ONLY <2>1, <2>2
    <3>2. clockOf(i) = d + 1440 + x
      BY ONLY <1>4, <3>1
    <3>3. QED
      BY <1>1, <2>2, <3>2
  <2>3. CASE ~(x < first)
    <3>1. clockOf(i) = d + x
      BY <1>4, <2>1, <2>3
    <3>2. QED
      BY <1>1, <2>3, <3>1
  <2>4. QED
    BY ONLY <2>2, <2>3
<1>6. PICK v \in Nat : v = clockOf(j) /\ v = (IF y < first THEN d + 1440 ELSE d) + y
  <2>1. clockOf(j) = (s + (IF y < first THEN 1 ELSE 0)) * 1440 + y
    BY ONLY <1>1, <1>3 DEF clockOf, bookedDay
  <2>2. CASE y < first
    <3>1. clockOf(j) = (s + 1) * 1440 + y
      BY ONLY <2>1, <2>2
    <3>2. clockOf(j) = d + 1440 + y
      BY ONLY <1>4, <3>1
    <3>3. QED
      BY <1>1, <2>2, <3>2
  <2>3. CASE ~(y < first)
    <3>1. clockOf(j) = d + y
      BY <1>4, <2>1, <2>3
    <3>2. QED
      BY <1>1, <2>3, <3>1
  <2>4. QED
    BY ONLY <2>2, <2>3
<1>7. clockOf(i) <= clockOf(j)
  <2>1. i \in DOMAIN route /\ j \in DOMAIN route
    <3>1. route \in Seq(Point)
      BY ONLY ClockInv, RouteFacts
    <3>2. DOMAIN route = 1..Len(route)
      BY <3>1, SeqFacts
    <3>3. QED
      BY <3>2
  <2>2. QED
    BY <2>1 DEF Timetabled, clockOf, route, DayMinutes
<1>8. u <= v /\ v < u + 1440
  <2>1. u <= v
    BY ONLY <1>5, <1>6, <1>7
  <2>2. 0 <= first /\ first < 1440 /\ 0 <= x /\ x < 1440 /\ 0 <= y /\ y < 1440
    BY <1>1
  <2>3. /\ u = (IF x < first THEN d + 1440 ELSE d) + x
        /\ v = (IF y < first THEN d + 1440 ELSE d) + y
    BY <1>5, <1>6
  <2>4. CASE x < first
    <3>1. u = d + 1440 + x
      BY ONLY <2>3, <2>4, d \in Nat, x \in Int
    <3>2. CASE y < first
      <4>1. v = d + 1440 + y
        BY <2>3, <3>2
      <4>2. QED
        BY <2>1, <2>2, <3>1, <4>1
    <3>3. CASE ~(y < first)
      <4>1. v = d + y
        BY <2>3, <3>3
      <4>2. QED
        BY <2>1, <2>2, <3>1, <4>1
    <3>4. QED
      BY <3>2, <3>3
  <2>5. CASE ~(x < first)
    <3>1. u = d + x
      BY <2>3, <2>5
    <3>2. CASE y < first
      <4>1. v = d + 1440 + y
        BY <2>3, <3>2
      <4>2. QED
        BY <2>1, <2>2, <2>5, <3>1, <3>2, <4>1
    <3>3. CASE ~(y < first)
      <4>1. v = d + y
        BY <2>3, <3>3
      <4>2. QED
        BY <2>1, <2>2, <3>1, <4>1
    <3>4. QED
      BY <3>2, <3>3
  <2>6. QED
    BY <2>4, <2>5
<1>9. QED
  BY ONLY <1>5, <1>6, <1>8

LEMMA BookedFacts ==
    ASSUME ClockInv, Timetabled(scenario), NEW i \in 1..Len(route)
    PROVE  /\ bookedAt(i) \in Int /\ bookedAt(i) # NoTime /\ ~ShownTwice(bookedAt(i))
           /\ OnTheClock(bookedAt(i)) = clockOf(i) /\ ukHhmm(bookedAt(i)) = route[i].time
<1>1. route[i].time \in Int /\ 0 <= route[i].time /\ route[i].time < 1440
  BY TimesOfDay
<1>2. PICK d \in Nat : d = bookedDay(route, i)
  BY TrainViewsAssumption DEF bookedDay
<1>3. i \in DOMAIN route
  <2>1. route \in Seq(Point)
    BY RouteFacts
  <2>2. DOMAIN route = 1..Len(route)
    BY <2>1, SeqFacts
  <2>3. QED
    BY <2>2
<1>4. ~(SummerFrom <= d * 1440 + route[i].time /\ d * 1440 + route[i].time < SummerFrom + 60)
  BY <1>2, <1>3 DEF Timetabled, route, DayMinutes
<1>5. bookedAt(i) = londonWallToInstant(d, route[i].time)
  BY <1>2 DEF bookedAt, bookedOn
<1>6. clockOf(i) = d * 1440 + route[i].time
  BY <1>2 DEF clockOf
<1>7. PICK h \in Int : h = route[i].time /\ 0 <= h /\ h < 1440
  BY <1>1
<1>8. PICK t : t = londonWallToInstant(d, h)
  OBVIOUS
<1>9. t \in Int /\ t # NoTime /\ ~ShownTwice(t) /\ OnTheClock(t) = d * 1440 + h /\ ukHhmm(t) = h
  <2>1. ~leftOut(d, h)
    BY ONLY <1>4, <1>7 DEF leftOut
  <2>2. QED
    BY <1>7, <2>1, <1>8, WallReadsBack
<1>10. QED
  BY ONLY <1>5, <1>6, <1>7, <1>8, <1>9

LEMMA BookedOrder ==
    ASSUME ClockInv, Timetabled(scenario), NEW i \in 1..Len(route), NEW j \in 1..Len(route), i <= j
    PROVE  bookedAt(i) <= bookedAt(j)
<1>1. PICK t, u \in Int : t = bookedAt(i) /\ u = bookedAt(j)
  BY BookedFacts
<1>2. OnTheClock(t) <= OnTheClock(u) /\ ~ShownTwice(u)
  <2>1. CASE i = j
    <3>1. OnTheClock(t) \in Int
      BY OffsetIs DEF OnTheClock
    <3>2. QED
      BY <1>1, <2>1, <3>1, BookedFacts
  <2>2. CASE i # j
    <3>1. i < j
      <4>1. i \in Int /\ j \in Int
        OBVIOUS
      <4>2. QED
        BY <2>2, <4>1
    <3>2. clockOf(i) <= clockOf(j)
      BY <3>1, ClockOrder
    <3>3. QED
      BY <1>1, <3>2, BookedFacts
  <2>3. QED
    BY <2>1, <2>2
<1>3. SummerFrom \in Int /\ SummerTo \in Int
  BY TrainViewsAssumption
<1>4. t <= u
  BY <1>2, <1>3 DEF OnTheClock, ShownTwice, londonOffsetMinutes
<1>5. QED
  BY <1>1, <1>4

(* Points of the route, in their order, are dated for when the train is    *)
(* booked there.                                                           *)
LEMMA RoutePattern ==
    ASSUME ClockInv, Timetabled(scenario), NEW n \in Nat, n > 0, NEW f \in [1..n -> 1..Len(route)],
           \A i, j \in 1..n : i < j => f[i] < f[j],
           NEW times, times = [i \in 1..n |-> route[f[i]].time],
           NEW a \in Int, DatedFrom(a, bookedAt(f[1]))
    PROVE  \A i \in 1..n : resolvePatternTimes(times, a)[i] = bookedAt(f[i])
<1>1. PICK b : b = [i \in 1..n |-> bookedAt(f[i])]
  OBVIOUS
<1>2. \A i \in 1..n : /\ b[i] \in Int /\ b[i] # NoTime /\ ~ShownTwice(b[i])
                      /\ OnTheClock(b[i]) = clockOf(f[i]) /\ ukHhmm(b[i]) = route[f[i]].time
  <2> SUFFICES ASSUME NEW i \in 1..n
               PROVE  /\ b[i] \in Int /\ b[i] # NoTime /\ ~ShownTwice(b[i])
                      /\ OnTheClock(b[i]) = clockOf(f[i]) /\ ukHhmm(b[i]) = route[f[i]].time
    OBVIOUS
  <2>1. f[i] \in 1..Len(route) /\ b[i] = bookedAt(f[i])
    BY <1>1
  <2>2. QED
    BY <2>1, BookedFacts
<1>3. \A i \in 1..n : times[i] = route[f[i]].time /\ times[i] \in Int /\ times[i] # NoTime
  <2> SUFFICES ASSUME NEW i \in 1..n
               PROVE  times[i] = route[f[i]].time /\ times[i] \in Int /\ times[i] # NoTime
    OBVIOUS
  <2>1. f[i] \in 1..Len(route)
    OBVIOUS
  <2>2. QED
    BY <2>1, RouteFacts
<1>4. IsKnown(n, times, 1..n, 1)
  <2>1. times \in [1..n -> Int]
    BY <1>3
  <2>2. 1..n = {i \in 1..n : times[i] # NoTime}
    BY <1>3
  <2>3. 1 \in 1..n /\ \A i \in 1..n : 1 <= i
    OBVIOUS
  <2>4. QED
    BY ONLY n \in Nat, <2>1, <2>2, <2>3 DEF IsKnown
<1>5. \A i, j \in 1..n : JustBefore(1..n, i, j) =>
        OnTheClock(b[i]) <= OnTheClock(b[j]) /\ OnTheClock(b[j]) < OnTheClock(b[i]) + 1440
  <2> SUFFICES ASSUME NEW i \in 1..n, NEW j \in 1..n, JustBefore(1..n, i, j)
               PROVE  OnTheClock(b[i]) <= OnTheClock(b[j]) /\ OnTheClock(b[j]) < OnTheClock(b[i]) + 1440
    OBVIOUS
  <2>1. i < j
    BY DEF JustBefore
  <2>2. f[i] < f[j] /\ f[i] \in 1..Len(route) /\ f[j] \in 1..Len(route)
    BY <2>1
  <2>3. clockOf(f[i]) <= clockOf(f[j]) /\ clockOf(f[j]) < clockOf(f[i]) + 1440
    BY <2>2, ClockOrder
  <2>4. QED
    BY <1>2, <2>3
<1>6. IsPattern(n, times, b, 1..n, 1)
  <2>1. b \in [1..n -> Int]
    BY <1>1, <1>2
  <2>2. \A i \in 1..n : times[i] = ukHhmm(b[i]) /\ b[i] # NoTime /\ ~ShownTwice(b[i])
    BY <1>2, <1>3
  <2>3. QED
    BY ONLY <1>4, <1>5, <2>1, <2>2 DEF IsPattern
<1>7. DatedFrom(a, b[1])
  BY <1>1
<1>8. resolvePatternTimes(times, a) = [i \in 1..n |-> IF i \in 1..n THEN b[i] ELSE NoTime]
  <2>1. \A K, g : IsPattern(n, times, b, K, g) /\ DatedFrom(a, b[g]) =>
          resolvePatternTimes(times, a) = [i \in 1..n |-> IF i \in K THEN b[i] ELSE NoTime]
    BY ONLY a \in Int, PatternIsDated, TrainViewsAssumption
  <2>2. QED
    BY <1>6, <1>7, <2>1
<1>9. QED
  BY <1>1, <1>8

-----------------------------------------------------------------------------
(* The calls of a page are points of the route.                            *)

Marks == {"", "departed", "current", "upcoming"}
Call == [crs : STRING, name : STRING, scheduled : Int, actual : Int, expected : Int,
         scheduledIso : Int, expectedIso : Int, actualIso : Int, estimatedArrivalIso : Int,
         progress : Marks]
IsOurCall(c) == \E i \in 1..Len(route) : /\ c.crs = route[i].crs /\ c.name = route[i].crs
                                         /\ c.scheduled = route[i].time
IsCalls(calls) == calls \in Seq(Call) /\ \A i \in 1..Len(calls) : IsOurCall(calls[i])
Unmarked(calls) == \A i \in 1..Len(calls) : calls[i].progress = ""

(* Dating and marking them changes nothing else of them.                   *)
SameCalls(new, old) ==
    /\ new \in Seq(Call) /\ Len(new) = Len(old)
    /\ \A i \in 1..Len(old) : /\ new[i].crs = old[i].crs /\ new[i].name = old[i].name
                              /\ new[i].scheduled = old[i].scheduled

LEMMA CallsStay ==
    ASSUME NEW old, IsCalls(old), NEW new, SameCalls(new, old)
    PROVE  IsCalls(new)
BY DEF IsCalls, SameCalls, IsOurCall

(* A time, or where it is not known another one.                           *)
LEMMA OrElseIs ==
    ASSUME NEW a \in Int, NEW b \in Int
    PROVE  /\ orElse(a, b) \in Int
           /\ a # NoTime => orElse(a, b) = a
           /\ a = NoTime => orElse(a, b) = b
BY DEF orElse

(* How dating a call leaves it: its live times are dated by its booked one. *)
IsDated(new, old, base) ==
    /\ new.progress = old.progress
    /\ new.actual = old.actual /\ new.expected = old.expected
    /\ new.estimatedArrivalIso = old.estimatedArrivalIso
    /\ new.expectedIso = hhmmToIso(old.expected, base)
    /\ new.actualIso = hhmmToIso(old.actual, base)

LEMMA DatedCalls ==
    ASSUME NEW calls \in Seq(Call), NEW anchor \in Int
    PROVE  /\ SameCalls(datePattern(calls, anchor), calls)
           /\ \A i \in 1..Len(calls) :
                IsDated(datePattern(calls, anchor)[i], calls[i],
                        orElse(datePattern(calls, anchor)[i].scheduledIso, anchor))
<1>1. Len(calls) \in Nat /\ DOMAIN calls = 1..Len(calls)
  BY SeqFacts
<1>2. \A i \in 1..Len(calls) : calls[i] \in Call
  OBVIOUS
<1>3. PICK times : times = [i \in 1..Len(calls) |-> calls[i].scheduled]
  OBVIOUS
<1>4. times \in [1..Len(calls) -> Int]
  BY <1>2, <1>3 DEF Call
<1>5. PICK iso : iso = resolvePatternTimes(times, anchor)
  OBVIOUS
<1>6. \A i \in 1..Len(calls) : iso[i] \in Int
  BY <1>1, <1>4, <1>5, PatternIsInt
<1> DEFINE base(i) == orElse(iso[i], anchor)
           dated(i) == [calls[i] EXCEPT !.scheduledIso = iso[i],
                                        !.expectedIso = hhmmToIso(calls[i].expected, base(i)),
                                        !.actualIso = hhmmToIso(calls[i].actual, base(i))]
<1>7. PICK new : new = [i \in 1..Len(calls) |-> dated(i)]
  OBVIOUS
<1>8. datePattern(calls, anchor) = new
  BY <1>1, <1>3, <1>5, <1>7 DEF datePattern
<1>9. \A i \in 1..Len(calls) : /\ new[i] \in Call /\ new[i].crs = calls[i].crs
                               /\ new[i].name = calls[i].name /\ new[i].scheduled = calls[i].scheduled
                               /\ IsDated(new[i], calls[i], orElse(new[i].scheduledIso, anchor))
  <2> SUFFICES ASSUME NEW i \in 1..Len(calls)
               PROVE  /\ new[i] \in Call /\ new[i].crs = calls[i].crs
                      /\ new[i].name = calls[i].name /\ new[i].scheduled = calls[i].scheduled
                      /\ IsDated(new[i], calls[i], orElse(new[i].scheduledIso, anchor))
    OBVIOUS
  <2>1. PICK c, t : c = calls[i] /\ t = iso[i] /\ c \in Call /\ t \in Int
    BY <1>2, <1>6
  <2>2. c.expected \in Int /\ c.actual \in Int
    BY <2>1 DEF Call
  <2>3. PICK b \in Int : b = orElse(t, anchor)
    BY <2>1, OrElseIs
  <2>4. PICK e, x : e = hhmmToIso(c.expected, b) /\ x = hhmmToIso(c.actual, b) /\ e \in Int /\ x \in Int
    BY <2>2, IsoIsInt
  <2>5. new[i] = [c EXCEPT !.scheduledIso = t, !.expectedIso = e, !.actualIso = x]
    BY <1>7, <2>1, <2>3, <2>4
  <2>6. PICK d : d = new[i] /\ d = [c EXCEPT !.scheduledIso = t, !.expectedIso = e, !.actualIso = x]
    BY <2>5
  <2>7. /\ d \in Call /\ d.crs = c.crs /\ d.name = c.name /\ d.scheduled = c.scheduled
        /\ d.progress = c.progress /\ d.actual = c.actual /\ d.expected = c.expected
        /\ d.estimatedArrivalIso = c.estimatedArrivalIso
        /\ d.expectedIso = e /\ d.actualIso = x /\ d.scheduledIso = t
    BY <2>1, <2>4, <2>6 DEF Call
  <2>8. QED
    BY <2>1, <2>3, <2>4, <2>6, <2>7 DEF IsDated
<1>10. new \in Seq(Call) /\ Len(new) = Len(calls)
  <2>1. \A i \in 1..Len(calls) : new[i] \in Call
    BY <1>9
  <2> HIDE DEF dated
  <2>2. QED
    BY <1>1, <1>7, <2>1
<1>11. QED
  BY <1>8, <1>9, <1>10 DEF SameCalls

(* Marking one leaves all of its times.                                    *)
SameTimes(new, old) ==
    /\ new.actual = old.actual /\ new.expected = old.expected
    /\ new.scheduledIso = old.scheduledIso /\ new.expectedIso = old.expectedIso
    /\ new.actualIso = old.actualIso /\ new.estimatedArrivalIso = old.estimatedArrivalIso

LEMMA MarkedCalls ==
    ASSUME NEW calls \in Seq(Call), NEW marks \in [1..Len(calls) -> Marks]
    PROVE  /\ SameCalls(withProgress(calls, marks), calls)
           /\ \A i \in 1..Len(calls) : /\ withProgress(calls, marks)[i].progress = marks[i]
                                        /\ SameTimes(withProgress(calls, marks)[i], calls[i])
<1>1. Len(calls) \in Nat /\ DOMAIN calls = 1..Len(calls)
  BY SeqFacts
<1>2. \A i \in 1..Len(calls) : calls[i] \in Call
  OBVIOUS
<1>3. PICK new : new = [i \in 1..Len(calls) |-> [calls[i] EXCEPT !.progress = marks[i]]]
  OBVIOUS
<1>4. withProgress(calls, marks) = new
  BY <1>1, <1>3 DEF withProgress
<1>5. \A i \in 1..Len(calls) : /\ new[i] \in Call /\ new[i].crs = calls[i].crs
                               /\ new[i].name = calls[i].name /\ new[i].scheduled = calls[i].scheduled
                               /\ new[i].progress = marks[i] /\ SameTimes(new[i], calls[i])
  <2> SUFFICES ASSUME NEW i \in 1..Len(calls)
               PROVE  /\ new[i] \in Call /\ new[i].crs = calls[i].crs
                      /\ new[i].name = calls[i].name /\ new[i].scheduled = calls[i].scheduled
                      /\ new[i].progress = marks[i] /\ SameTimes(new[i], calls[i])
    OBVIOUS
  <2>1. new[i] = [calls[i] EXCEPT !.progress = marks[i]]
    BY <1>3
  <2>2. calls[i] \in Call /\ marks[i] \in Marks
    BY <1>2
  <2>3. QED
    BY <2>1, <2>2 DEF Call, SameTimes
<1>6. new \in Seq(Call) /\ Len(new) = Len(calls)
  BY <1>1, <1>3, <1>5
<1>7. QED
  BY <1>4, <1>5, <1>6 DEF SameCalls

(* The points of the route as the page reads them, each with what is said  *)
(* of when the train was there, or is expected.                            *)
ActualTexts(i) == IF i \in acted THEN {NoTime, ukHhmm(passed[i])} ELSE {NoTime}
ForecastTexts(i) == {NoTime, ukHhmm(expectedAt(i))}
IsOurPoint(cp, i) == /\ cp.crs = route[i].crs /\ cp.name = route[i].crs /\ cp.st = route[i].time
                     /\ cp.at \in ActualTexts(i) /\ cp.et \in ForecastTexts(i)
PagePoint == {cp \in [crs : STRING, name : STRING, st : Int, at : Int, et : Int] :
                \E i \in 1..Len(route) : IsOurPoint(cp, i)}

(* What they make of a call, before it is dated.                           *)
IsRaw(c, i) == /\ c.crs = route[i].crs /\ c.name = route[i].crs /\ c.scheduled = route[i].time
               /\ c.actual \in ActualTexts(i) /\ c.expected \in ForecastTexts(i)
               /\ c.estimatedArrivalIso = NoTime /\ c.progress = ""

LEMMA TextsAreInts ==
    ASSUME ClockInv, NEW i \in 1..Len(route)
    PROVE  /\ expectedAt(i) \in Int
           /\ \A a \in ActualTexts(i) : a \in Int
           /\ \A e \in ForecastTexts(i) : e \in Int
<1>1. expectedAt(i) \in Int /\ ukHhmm(expectedAt(i)) \in Int /\ NoTime \in Int
  BY ExpectedIsInt DEF NoTime
<1>2. i \in acted => ukHhmm(passed[i]) \in Int
  BY PassedIsInt
<1>3. QED
  BY <1>1, <1>2 DEF ActualTexts, ForecastTexts

LEMMA ToCallIs ==
    ASSUME ClockInv, NEW cp \in PagePoint
    PROVE  toCall(cp) \in Call /\ \E i \in 1..Len(route) : IsRaw(toCall(cp), i)
<1>1. PICK i \in 1..Len(route) : IsOurPoint(cp, i)
  BY DEF PagePoint
<1>2. PICK crs \in STRING, name \in STRING, time \in Int, a \in Int, e \in Int :
        crs = cp.crs /\ name = cp.name /\ time = cp.st /\ a = cp.at /\ e = cp.et
  BY DEF PagePoint
<1>3. PICK none \in Int : none = NoTime
  BY DEF NoTime
<1>4. PICK empty \in Marks : empty = ""
  BY DEF Marks
<1>5. PICK c : c = toCall(cp)
  OBVIOUS
<1>6. c = [crs |-> crs, name |-> name, scheduled |-> time, actual |-> a, expected |-> e,
           scheduledIso |-> none, expectedIso |-> none, actualIso |-> none,
           estimatedArrivalIso |-> none, progress |-> empty]
  BY <1>2, <1>3, <1>4, <1>5 DEF toCall
<1>7. c \in Call
  BY <1>6 DEF Call
<1>8. /\ c.crs = cp.crs /\ c.name = cp.name /\ c.scheduled = cp.st /\ c.actual = cp.at
      /\ c.expected = cp.et /\ c.estimatedArrivalIso = NoTime /\ c.progress = ""
  BY <1>2, <1>3, <1>4, <1>6
<1>9. IsRaw(c, i)
  BY <1>1, <1>8 DEF IsRaw, IsOurPoint
<1>10. QED
  BY <1>5, <1>7, <1>9

LEMMA RawIsOurs ==
    ASSUME NEW c, NEW i \in 1..Len(route), IsRaw(c, i)
    PROVE  IsOurCall(c) /\ c.progress = ""
BY DEF IsRaw, IsOurCall

(* What dating makes of them.                                              *)
IsDatedRaw(c, i, anchor) ==
    LET base == orElse(c.scheduledIso, anchor)
    IN /\ c.crs = route[i].crs /\ c.name = route[i].crs /\ c.scheduled = route[i].time
       /\ c.actual \in ActualTexts(i) /\ c.expected \in ForecastTexts(i)
       /\ c.expectedIso = hhmmToIso(c.expected, base) /\ c.actualIso = hhmmToIso(c.actual, base)
       /\ c.estimatedArrivalIso = NoTime

LEMMA PointCalls ==
    ASSUME ClockInv, NEW pts \in Seq(PagePoint), NEW anchor \in Int, NEW calls,
           calls = datePattern([i \in DOMAIN pts |-> toCall(pts[i])], anchor)
    PROVE  /\ IsCalls(calls) /\ Unmarked(calls)
           /\ \A k \in 1..Len(calls) : \E i \in 1..Len(route) : IsDatedRaw(calls[k], i, anchor)
           /\ Len(calls) = Len(pts)
           /\ \A k \in 1..Len(pts) :
                LET base == orElse(calls[k].scheduledIso, anchor)
                IN /\ calls[k].crs = pts[k].crs /\ calls[k].scheduled = pts[k].st
                   /\ calls[k].expectedIso = hhmmToIso(pts[k].et, base)
                   /\ calls[k].actualIso = hhmmToIso(pts[k].at, base)
<1>1. Len(pts) \in Nat /\ DOMAIN pts = 1..Len(pts)
  BY SeqFacts
<1>2. PICK raw : raw = [i \in 1..Len(pts) |-> toCall(pts[i])]
  OBVIOUS
<1>3. \A k \in 1..Len(pts) : raw[k] \in Call /\ \E i \in 1..Len(route) : IsRaw(raw[k], i)
  <2> SUFFICES ASSUME NEW k \in 1..Len(pts)
               PROVE  raw[k] \in Call /\ \E i \in 1..Len(route) : IsRaw(raw[k], i)
    OBVIOUS
  <2>1. pts[k] \in PagePoint
    OBVIOUS
  <2>2. raw[k] = toCall(pts[k])
    BY <1>2
  <2>3. QED
    BY <2>1, <2>2, ToCallIs
<1>4. raw \in Seq(Call) /\ Len(raw) = Len(pts)
  <2>1. \A i \in 1..Len(pts) : raw[i] \in Call
    BY <1>3
  <2>2. QED
    BY <1>1, <1>2, <2>1
<1>5. IsCalls(raw) /\ \A k \in 1..Len(raw) : raw[k].progress = ""
  BY <1>3, <1>4, RawIsOurs DEF IsCalls
<1>6. calls = datePattern(raw, anchor)
  BY <1>1, <1>2
<1>7. /\ SameCalls(calls, raw)
      /\ \A k \in 1..Len(raw) : IsDated(calls[k], raw[k], orElse(calls[k].scheduledIso, anchor))
  BY <1>4, <1>6, DatedCalls
<1>8. IsCalls(calls)
  BY <1>5, <1>7, CallsStay
<1>9. Len(calls) = Len(raw)
  BY <1>7 DEF SameCalls
<1>10. Unmarked(calls)
  BY <1>5, <1>7, <1>9 DEF Unmarked, IsDated
<1>11. \A k \in 1..Len(calls) : \E i \in 1..Len(route) : IsDatedRaw(calls[k], i, anchor)
  <2> SUFFICES ASSUME NEW k \in 1..Len(calls)
               PROVE  \E i \in 1..Len(route) : IsDatedRaw(calls[k], i, anchor)
    OBVIOUS
  <2>1. PICK i \in 1..Len(route) : IsRaw(raw[k], i)
    BY <1>3, <1>4, <1>9
  <2>2. /\ calls[k].crs = raw[k].crs /\ calls[k].name = raw[k].name
        /\ calls[k].scheduled = raw[k].scheduled
    BY <1>7, <1>9 DEF SameCalls
  <2>3. IsDated(calls[k], raw[k], orElse(calls[k].scheduledIso, anchor))
    BY <1>7, <1>9
  <2>4. QED
    BY <2>1, <2>2, <2>3 DEF IsRaw, IsDated, IsDatedRaw
<1>12. \A k \in 1..Len(pts) : /\ raw[k].crs = pts[k].crs /\ raw[k].scheduled = pts[k].st
                             /\ raw[k].expected = pts[k].et /\ raw[k].actual = pts[k].at
  BY <1>2 DEF toCall
<1>13. \A k \in 1..Len(pts) :
         LET base == orElse(calls[k].scheduledIso, anchor)
         IN /\ calls[k].crs = pts[k].crs /\ calls[k].scheduled = pts[k].st
            /\ calls[k].expectedIso = hhmmToIso(pts[k].et, base)
            /\ calls[k].actualIso = hhmmToIso(pts[k].at, base)
  BY <1>4, <1>7, <1>12 DEF SameCalls, IsDated
<1>14. QED
  BY <1>4, <1>8, <1>9, <1>10, <1>11, <1>13

(* What Darwin has of our run's stops, too, is what is said of them.        *)
IsToldStop(s, i) == /\ s.actual \in ActualTexts(i)
                    /\ s.estDep \in ForecastTexts(i) /\ s.estArr \in ForecastTexts(i)

LEMMA OurStopsAreTold ==
    ASSUME ClockInv, NEW k \in 1..Len(known)
    PROVE  /\ IsToldStop(ourRun.stops[k], known[k])
           /\ known[k] \in acted =>
                /\ ourRun.stops[k].actual = ukHhmm(passed[known[k]])
                /\ ourRun.stops[k].estDep = NoTime /\ ourRun.stops[k].estArr = NoTime
           /\ known[k] \notin acted => ourRun.stops[k].actual = NoTime
<1>1. k \in DOMAIN known
  BY KnownFacts, SeqFacts
<1>2. PICK i, r : i = known[k] /\ r = ourRun.stops[k]
  OBVIOUS
<1> DEFINE actual == IF i \in acted THEN ukHhmm(passed[i]) ELSE NoTime
           estimate == IF i \in acted THEN NoTime ELSE ukHhmm(expectedAt(i))
<1>3. r = stopRow(i, actual, estimate)
  BY <1>1, <1>2 DEF ourRun
<1>4. r.actual = actual /\ r.estDep \in {NoTime, estimate} /\ r.estArr \in {NoTime, estimate}
  BY <1>3 DEF stopRow
<1>5. QED
  BY <1>2, <1>4 DEF IsToldStop, ActualTexts, ForecastTexts

(* The points that they are read as.                                       *)
IsPointsOfStops(pts, s) ==
    /\ pts \in Seq(PagePoint) /\ Len(pts) = Len(s)
    /\ \A k \in 1..Len(s) : /\ pts[k].crs = s[k].crs /\ pts[k].st = firstTime(s[k])
                            /\ pts[k].at = s[k].actual /\ pts[k].et = orElse(s[k].estDep, s[k].estArr)

LEMMA StopPoints ==
    ASSUME ClockInv, NEW X, NEW s \in Seq(X), NEW ssd \in Int,
           \A k \in 1..Len(s) : \E i \in 1..Len(route) :
             s[k].crs = route[i].crs /\ firstTime(s[k]) = route[i].time /\ IsToldStop(s[k], i)
    PROVE  \E pts :
             /\ IsPointsOfStops(pts, s)
             /\ serviceDateAnchor(ssd) \in Int
             /\ stopCalls(s, ssd) = datePattern([k \in DOMAIN pts |-> toCall(pts[k])], serviceDateAnchor(ssd))
<1>1. Len(s) \in Nat /\ DOMAIN s = 1..Len(s)
  BY SeqFacts
<1> DEFINE point(k) == [crs |-> s[k].crs, name |-> s[k].crs, st |-> firstTime(s[k]),
                        at |-> s[k].actual, et |-> orElse(s[k].estDep, s[k].estArr)]
<1>2. PICK pts : pts = [k \in 1..Len(s) |-> point(k)]
  OBVIOUS
<1>3. \A k \in 1..Len(s) : pts[k] \in PagePoint
  <2> SUFFICES ASSUME NEW k \in 1..Len(s) PROVE pts[k] \in PagePoint
    OBVIOUS
  <2>1. PICK i \in 1..Len(route) :
          s[k].crs = route[i].crs /\ firstTime(s[k]) = route[i].time /\ IsToldStop(s[k], i)
    OBVIOUS
  <2>2. PICK crs \in STRING, time \in Int : crs = route[i].crs /\ time = route[i].time
    BY RouteFacts
  <2>3. PICK a \in ActualTexts(i), e \in ForecastTexts(i) :
          a = s[k].actual /\ e = orElse(s[k].estDep, s[k].estArr)
    BY <2>1 DEF IsToldStop, orElse
  <2>4. a \in Int /\ e \in Int
    BY TextsAreInts
  <2>5. PICK q : q = pts[k] /\ q = [crs |-> crs, name |-> crs, st |-> time, at |-> a, et |-> e]
    BY <1>2, <2>1, <2>2, <2>3
  <2>6. q \in [crs : STRING, name : STRING, st : Int, at : Int, et : Int]
    BY <2>4, <2>5
  <2>7. IsOurPoint(q, i)
    BY <2>2, <2>5 DEF IsOurPoint
  <2>8. QED
    BY <2>5, <2>6, <2>7 DEF PagePoint
<1>4. pts \in Seq(PagePoint) /\ Len(pts) = Len(s) /\ DOMAIN pts = 1..Len(s)
  <2> HIDE DEF point
  <2>1. QED
    BY <1>1, <1>2, <1>3
<1>5. serviceDateAnchor(ssd) \in Int
  BY DEF serviceDateAnchor, DayMinutes
<1>6. [k \in DOMAIN s |-> toCall(point(k))] = [k \in DOMAIN pts |-> toCall(pts[k])]
  <2> HIDE DEF point
  <2>1. QED
    BY <1>1, <1>2, <1>4
<1>7. stopCalls(s, ssd) = datePattern([k \in DOMAIN pts |-> toCall(pts[k])], serviceDateAnchor(ssd))
  BY <1>6 DEF stopCalls
<1>8. \A k \in 1..Len(s) : /\ pts[k].crs = s[k].crs /\ pts[k].st = firstTime(s[k])
                          /\ pts[k].at = s[k].actual /\ pts[k].et = orElse(s[k].estDep, s[k].estArr)
  BY <1>2
<1>9. IsPointsOfStops(pts, s)
  BY <1>4, <1>8 DEF IsPointsOfStops
<1>10. QED
  BY <1>5, <1>7, <1>9

LEMMA StopCallsAre ==
    ASSUME ClockInv, NEW X, NEW s \in Seq(X), NEW ssd \in Int,
           \A k \in 1..Len(s) : \E i \in 1..Len(route) :
             s[k].crs = route[i].crs /\ firstTime(s[k]) = route[i].time /\ IsToldStop(s[k], i)
    PROVE  /\ IsCalls(stopCalls(s, ssd)) /\ Unmarked(stopCalls(s, ssd))
           /\ \A k \in 1..Len(stopCalls(s, ssd)) : \E i \in 1..Len(route) :
                IsDatedRaw(stopCalls(s, ssd)[k], i, serviceDateAnchor(ssd))
<1>1. PICK pts : /\ IsPointsOfStops(pts, s) /\ serviceDateAnchor(ssd) \in Int
                 /\ stopCalls(s, ssd) = datePattern([k \in DOMAIN pts |-> toCall(pts[k])],
                                                    serviceDateAnchor(ssd))
  BY StopPoints
<1>2. QED
  BY <1>1, PointCalls DEF IsPointsOfStops

LEMMA RidCallsAre ==
    ASSUME ClockInv
    PROVE  /\ IsCalls(fetchCallsByRid(ourRun)) /\ Unmarked(fetchCallsByRid(ourRun))
           /\ \A k \in 1..Len(fetchCallsByRid(ourRun)) : \E i \in 1..Len(route) :
                IsDatedRaw(fetchCallsByRid(ourRun)[k], i, serviceDateAnchor(Ssd))
<1>1. PICK s : s = ourRun.stops
  OBVIOUS
<1>2. IsRunStops(s)
  BY <1>1, RunStops
<1>3. PICK X : s \in Seq(X)
  BY <1>2 DEF IsRunStops
<1>4. withCrs(s) = s
  BY <1>2, RunStopsInOrder
<1>5. PICK I : I = {i \in DOMAIN s : {s[i].schedArr, s[i].schedDep, s[i].estArr,
                                      s[i].estDep, s[i].actual} # {NoTime}}
  OBVIOUS
<1>6. PICK public : public = Selected(s, I)
  OBVIOUS
<1>7. public \in Seq(X)
  BY <1>3, <1>6, SelectedIndices
<1>8. PICK f : IsSelection(f, public, s, I, Len(s))
  BY <1>3, <1>6, SelectedIndices
<1> DEFINE isOf(p, i) == p.crs = route[i].crs /\ firstTime(p) = route[i].time /\ IsToldStop(p, i)
<1>9. \A k \in 1..Len(s) : \E i \in 1..Len(route) : isOf(s[k], i)
  <2>1. \A k \in 1..Len(known) : known[k] \in 1..Len(route) /\ IsToldStop(s[k], known[k])
    BY <1>1, KnownFacts, OurStopsAreTold
  <2>2. QED
    BY <1>2, <2>1 DEF IsRunStops
<1>10. \A k \in 1..Len(public) : \E i \in 1..Len(route) : isOf(public[k], i)
  <2> SUFFICES ASSUME NEW k \in 1..Len(public)
               PROVE  \E i \in 1..Len(route) : isOf(public[k], i)
    OBVIOUS
  <2>1. f[k] \in 1..Len(s) /\ public[k] = s[f[k]]
    BY <1>8 DEF IsSelection
  <2>2. QED
    BY <1>9, <2>1
<1>11. ourRun.ssd = Ssd /\ Ssd \in Int
  BY TrainViewsAssumption DEF ourRun
<1>12. fetchCallsByRid(ourRun) = stopCalls(IF Len(public) >= 2 THEN public ELSE s, ourRun.ssd)
  BY <1>1, <1>4, <1>5, <1>6 DEF fetchCallsByRid
<1>13. CASE Len(public) >= 2
  BY <1>7, <1>10, <1>11, <1>12, <1>13, StopCallsAre
<1>14. CASE ~(Len(public) >= 2)
  BY <1>3, <1>9, <1>11, <1>12, <1>14, StopCallsAre
<1>15. QED
  BY <1>13, <1>14

(* What the page lists of a board's service: the calls of the route.       *)
IsBoardList(all) ==
    /\ all \in Seq(PagePoint) /\ Len(all) = Len(boardCalls)
    /\ \A k \in 1..Len(boardCalls) : all[k].st = boardCalls[k].time /\ all[k].crs = boardCalls[k].crs
    /\ parseCallingPattern(boardService).calls = datePattern([i \in DOMAIN all |-> toCall(all[i])], now)

LEMMA BoardListIs ==
    ASSUME ClockInv
    PROVE  \E all : IsBoardList(all)
<1> DEFINE placed(p) == CHOOSE j \in DOMAIN route : route[j] = p
           point(p) == [crs |-> p.crs, name |-> p.crs, st |-> p.time,
                        at |-> IF placed(p) \in acted THEN ukHhmm(passed[placed(p)]) ELSE NoTime,
                        et |-> IF placed(p) \in acted THEN NoTime ELSE ukHhmm(expectedAt(placed(p)))]
           points(from, to) == [i \in 1..(to - from + 1) |-> point(boardCalls[from + i - 1])]
<1>1. PICK here, last : here = scenario.boarding /\ last = Len(boardCalls)
  OBVIOUS
<1>2. boardCalls \in Seq(Point)
  <2>1. route \in Seq(Point)
    BY RouteFacts
  <2>2. QED
    BY <2>1, SelectedIndices DEF boardCalls, callsOn
<1>3. last \in Nat /\ here \in 1..last
  <2>1. here \in Nat \ {0} /\ here <= Len(callsOn(scenario.route))
    BY <1>1, TrainViewsAssumption DEF ClockInv
  <2>2. last \in Nat /\ last = Len(callsOn(scenario.route))
    BY <1>1, <1>2, SeqFacts DEF boardCalls, route
  <2>3. QED
    BY <2>1, <2>2
<1>4. \A k \in 1..last : point(boardCalls[k]) \in PagePoint
  <2> DEFINE I == {i \in DOMAIN route : route[i].calls}
  <2>1. route \in Seq(Point)
    BY RouteFacts
  <2>2. boardCalls = Selected(route, I)
    BY DEF boardCalls, callsOn
  <2> HIDE DEF I
  <2>3. PICK f : IsSelection(f, boardCalls, route, I, Len(route))
    BY <2>1, <2>2, SelectedIndices
  <2>4. \A k \in 1..last : f[k] \in 1..Len(route) /\ boardCalls[k] = route[f[k]]
    BY <1>1, <2>3 DEF IsSelection
  <2> SUFFICES ASSUME NEW k \in 1..last PROVE point(boardCalls[k]) \in PagePoint
    OBVIOUS
  <2>5. PICK p, i : p = boardCalls[k] /\ i = placed(p)
    OBVIOUS
  <2>6. i \in 1..Len(route) /\ route[i] = p
    <3>1. DOMAIN route = 1..Len(route)
      BY <2>1, SeqFacts
    <3>2. \E j \in DOMAIN route : route[j] = p
      BY <2>4, <2>5, <3>1
    <3>3. QED
      BY <2>5, <3>1, <3>2
  <2>7. PICK crs \in STRING, time \in Int : crs = p.crs /\ time = p.time
    BY <2>6, RouteFacts
  <2>8. PICK a \in ActualTexts(i), e \in ForecastTexts(i) :
          /\ a = IF i \in acted THEN ukHhmm(passed[i]) ELSE NoTime
          /\ e = IF i \in acted THEN NoTime ELSE ukHhmm(expectedAt(i))
    BY DEF ActualTexts, ForecastTexts
  <2>9. a \in Int /\ e \in Int
    BY <2>6, TextsAreInts
  <2>10. PICK q : q = point(p) /\ q = [crs |-> crs, name |-> crs, st |-> time, at |-> a, et |-> e]
    <3>1. point(p) = [crs |-> p.crs, name |-> p.crs, st |-> p.time,
                      at |-> IF i \in acted THEN ukHhmm(passed[i]) ELSE NoTime,
                      et |-> IF i \in acted THEN NoTime ELSE ukHhmm(expectedAt(i))]
      BY <2>5
    <3> HIDE DEF point
    <3>2. point(p) = [crs |-> crs, name |-> crs, st |-> time, at |-> a, et |-> e]
      BY <2>7, <2>8, <3>1
    <3>3. QED
      BY <3>2
  <2>11. q \in [crs : STRING, name : STRING, st : Int, at : Int, et : Int]
    BY <2>9, <2>10
  <2>12. IsOurPoint(q, i)
    BY <2>6, <2>7, <2>10 DEF IsOurPoint
  <2>13. QED
    BY <2>5, <2>6, <2>10, <2>11, <2>12 DEF PagePoint
<1> HIDE DEF point
<1>5. \A from, to \in 1..last : points(from, to) \in Seq(PagePoint)
  <2> SUFFICES ASSUME NEW from \in 1..last, NEW to \in 1..last
               PROVE  points(from, to) \in Seq(PagePoint)
    OBVIOUS
  <2>1. \A i \in 1..(to - from + 1) : from + i - 1 \in 1..last
    BY <1>3
  <2>2. \A i \in 1..(to - from + 1) : point(boardCalls[from + i - 1]) \in PagePoint
    BY <1>4, <2>1
  <2>3. to - from + 1 \in Int
    BY <1>3
  <2>4. PICK n \in Nat : 1..n = 1..(to - from + 1)
    <3>1. CASE to - from + 1 \in Nat
      BY <3>1
    <3>2. CASE to - from + 1 < 0
      <4>1. 1..0 = 1..(to - from + 1)
        BY <2>3, <3>2
      <4>2. QED
        BY <4>1
    <3>3. QED
      BY <2>3, <3>1, <3>2
  <2>5. QED
    BY <2>2, <2>4
<1> DEFINE before == IF here = 1 THEN <<>> ELSE points(1, here - 1)
           behind == IF here = last THEN <<>> ELSE points(here + 1, last)
           all == before \o <<point(boardCalls[here])>> \o behind
<1>6. before \in Seq(PagePoint) /\ behind \in Seq(PagePoint)
  <2>1. here # 1 => 1 \in 1..last /\ here - 1 \in 1..last
    BY <1>3
  <2>2. here # last => here + 1 \in 1..last /\ last \in 1..last
    BY <1>3
  <2> HIDE DEF points
  <2>3. QED
    BY <1>5, <2>1, <2>2
<1>7. all \in Seq(PagePoint)
  <2>1. point(boardCalls[here]) \in PagePoint
    BY <1>3, <1>4
  <2> HIDE DEF before, behind
  <2>2. QED
    BY <1>6, <2>1
<1>8. /\ boardService.generatedAt = now
      /\ boardService.this = point(boardCalls[here])
      /\ boardService.previous = IF here = 1 THEN <<>> ELSE <<points(1, here - 1)>>
      /\ boardService.subsequent = IF here = last THEN <<>>
                                   ELSE <<points(here + 1, last)>> \o scenario.portions
  BY <1>1 DEF boardService, point, placed
<1>9. /\ (IF boardService.previous = <<>> THEN <<>> ELSE boardService.previous[1]) = before
      /\ (IF boardService.subsequent = <<>> THEN <<>> ELSE boardService.subsequent[1]) = behind
  <2>1. PICK a, b : a = points(1, here - 1) /\ b = points(here + 1, last)
    OBVIOUS
  <2>2. scenario.portions \in Seq(Seq([crs : STRING, name : STRING, st : Int, at : Int, et : Int]))
    BY TrainViewsAssumption DEF ClockInv
  <2>3. PICK more : more = scenario.portions /\ \E Y : more \in Seq(Y)
    BY <2>2
  <2>4. <<b>> \o more # <<>> /\ (<<b>> \o more)[1] = b
    <3>1. PICK Y : more \in Seq(Y)
      BY <2>3
    <3>2. more \in Seq(Y \cup {b}) /\ <<b>> \in Seq(Y \cup {b})
      BY <3>1
    <3>3. QED
      BY <3>2
  <2>5. <<a>> # <<>> /\ <<a>>[1] = a
    OBVIOUS
  <2> HIDE DEF points
  <2>6. QED
    BY <1>8, <2>1, <2>3, <2>4, <2>5
<1>10. parseCallingPattern(boardService).calls = datePattern([i \in DOMAIN all |-> toCall(all[i])], now)
  <2>1. parseCallingPattern(boardService).calls =
          LET s == (IF boardService.previous = <<>> THEN <<>> ELSE boardService.previous[1])
                   \o <<boardService.this>>
                   \o (IF boardService.subsequent = <<>> THEN <<>> ELSE boardService.subsequent[1])
          IN datePattern([i \in DOMAIN s |-> toCall(s[i])], boardService.generatedAt)
    BY DEF parseCallingPattern
  <2> HIDE DEF before, behind, points
  <2>2. QED
    BY <1>8, <1>9, <2>1
<1>11. Len(all) = last /\ \A k \in 1..last : all[k] = point(boardCalls[k])
  <2>1. PICK a : /\ a = before /\ Len(a) = here - 1
                 /\ \A k \in 1..here - 1 : a[k] = point(boardCalls[k])
    <3>1. CASE here = 1
      <4>1. before = <<>> /\ Len(before) = here - 1
        BY <3>1
      <4>2. \A k \in 1..here - 1 : FALSE
        BY <3>1
      <4> HIDE DEF before
      <4>3. QED
        BY <4>1, <4>2
    <3>2. CASE here # 1
      <4>1. PICK n \in Nat : n = here - 1
        BY <1>3
      <4>2. before = [i \in 1..n |-> point(boardCalls[1 + i - 1])]
        BY <3>2, <4>1
      <4>3. \A i \in 1..n : 1 + i - 1 = i
        OBVIOUS
      <4> HIDE DEF before
      <4>4. Len(before) = n /\ \A i \in 1..n : before[i] = point(boardCalls[i])
        BY <4>2, <4>3
      <4>5. QED
        BY <4>1, <4>4
    <3>3. QED
      BY <3>1, <3>2
  <2>2. PICK b : /\ b = behind /\ Len(b) = last - here
                 /\ \A k \in 1..last - here : b[k] = point(boardCalls[here + k])
    <3>1. CASE here = last
      <4>1. behind = <<>> /\ Len(behind) = last - here
        BY <1>3, <3>1
      <4>2. \A k \in 1..last - here : FALSE
        BY <1>3, <3>1
      <4> HIDE DEF behind
      <4>3. QED
        BY <4>1, <4>2
    <3>2. CASE here # last
      <4>1. PICK n \in Nat : n = last - here
        BY <1>3
      <4>2. n = last - (here + 1) + 1
        BY <1>3, <4>1
      <4>3. behind = [i \in 1..n |-> point(boardCalls[here + 1 + i - 1])]
        BY <3>2, <4>2
      <4>4. \A i \in 1..n : here + 1 + i - 1 = here + i
        BY <1>3
      <4> HIDE DEF behind
      <4>5. Len(behind) = n /\ \A i \in 1..n : behind[i] = point(boardCalls[here + i])
        BY <4>3, <4>4
      <4>6. QED
        BY <4>1, <4>5
    <3>3. QED
      BY <3>1, <3>2
  <2>3. a \in Seq(PagePoint) /\ b \in Seq(PagePoint) /\ point(boardCalls[here]) \in PagePoint
    BY <1>3, <1>4, <1>6, <2>1, <2>2
  <2>4. all = (a \o <<point(boardCalls[here])>>) \o b
    BY <2>1, <2>2
  <2>5. PICK c : c = a \o <<point(boardCalls[here])>>
    OBVIOUS
  <2>6. /\ c \in Seq(PagePoint) /\ Len(c) = here
        /\ \A k \in 1..here : c[k] = point(boardCalls[k])
    BY <1>3, <2>1, <2>3, <2>5
  <2> HIDE DEF all
  <2>7. all = c \o b
    BY <2>4, <2>5
  <2>8. Len(all) = last
    <3>1. c \in Seq(PagePoint) /\ b \in Seq(PagePoint)
      BY <2>3, <2>6
    <3>2. Len(c \o b) = Len(c) + Len(b)
      BY ONLY <3>1
    <3>3. here + (last - here) = last
      BY <1>3
    <3>4. QED
      BY ONLY <2>2, <2>6, <2>7, <3>2, <3>3
  <2>9. ASSUME NEW k \in 1..last PROVE all[k] = point(boardCalls[k])
    <3>1. all[k] = IF k <= Len(c) THEN c[k] ELSE b[k - Len(c)]
      <4>1. k \in 1..(Len(c) + Len(b))
        BY <1>3, <2>2, <2>6
      <4>2. (c \o b)[k] = IF k <= Len(c) THEN c[k] ELSE b[k - Len(c)]
        BY <2>3, <2>6, <4>1
      <4>3. QED
        BY <2>7, <4>2
    <3>2. CASE k <= here
      <4>1. k \in 1..here
        BY <1>3, <3>2
      <4>2. QED
        BY <2>6, <3>1, <3>2, <4>1
    <3>3. CASE ~(k <= here)
      <4>1. k - here \in 1..last - here /\ here + (k - here) = k
        BY <1>3, <3>3
      <4>2. b[k - here] = point(boardCalls[here + (k - here)])
        BY <2>2, <4>1
      <4>3. QED
        BY <2>6, <3>1, <3>3, <4>1, <4>2
    <3>4. QED
      BY <3>2, <3>3
  <2>10. QED
    BY <2>8, <2>9
<1>12. \A k \in 1..last : point(boardCalls[k]).st = boardCalls[k].time /\ point(boardCalls[k]).crs = boardCalls[k].crs
  BY DEF point
<1> HIDE DEF all
<1>13. IsBoardList(all)
  BY <1>1, <1>7, <1>10, <1>11, <1>12 DEF IsBoardList
<1>14. QED
  BY <1>13

LEMMA BoardCallsAre ==
    ASSUME ClockInv
    PROVE  /\ IsCalls(parseCallingPattern(boardService).calls)
           /\ Unmarked(parseCallingPattern(boardService).calls)
           /\ \A k \in 1..Len(parseCallingPattern(boardService).calls) : \E i \in 1..Len(route) :
                IsDatedRaw(parseCallingPattern(boardService).calls[k], i, now)
<1>1. PICK all : IsBoardList(all)
  BY BoardListIs
<1>2. all \in Seq(PagePoint) /\ now \in Int
  BY <1>1 DEF IsBoardList, ClockInv
<1>3. parseCallingPattern(boardService).calls = datePattern([i \in DOMAIN all |-> toCall(all[i])], now)
  BY <1>1 DEF IsBoardList
<1>4. QED
  BY <1>2, <1>3, PointCalls

-----------------------------------------------------------------------------
(* The calls of a page against the stops of a run.                         *)

foundFrom(last, crs, stops) == {k \in 1..Len(stops) : k > last /\ stops[k].crs = crs}
IsCursor(c, calls, stops) ==
    /\ c \in [0..Len(calls) -> 0..Len(stops)]
    /\ c[0] = NoIndex
    /\ \A n \in 1..Len(calls) :
         c[n] = IF calls[n].crs = "" \/ foundFrom(c[n - 1], calls[n].crs, stops) = {} THEN c[n - 1]
                ELSE Min(foundFrom(c[n - 1], calls[n].crs, stops))

LEMMA FoundIsAhead ==
    ASSUME NEW M \in Nat, NEW X, NEW stops \in Seq(X), M = Len(stops), NEW last \in 0..M, NEW crs,
           foundFrom(last, crs, stops) # {}
    PROVE  LET k == Min(foundFrom(last, crs, stops))
           IN k \in 1..M /\ k > last /\ stops[k].crs = crs
<1>1. foundFrom(last, crs, stops) \in SUBSET Nat
  BY DEF foundFrom
<1>2. Min(foundFrom(last, crs, stops)) \in foundFrom(last, crs, stops)
  BY <1>1, MinIsSmallest
<1>3. QED
  BY <1>2 DEF foundFrom

LEMMA CursorWalk ==
    ASSUME NEW Y, NEW calls \in Seq(Y), NEW X, NEW stops \in Seq(X)
    PROVE  IsCursor(cursorsOf(calls, stops), calls, stops)
<1>1. PICK N \in Nat : N = Len(calls)
  OBVIOUS
<1>2. PICK M \in Nat : M = Len(stops)
  OBVIOUS
<1>3. DOMAIN stops = 1..M
  BY <1>2
<1> DEFINE next(n, last) == IF calls[n].crs = "" \/ foundFrom(last, calls[n].crs, stops) = {} THEN last
                            ELSE Min(foundFrom(last, calls[n].crs, stops))
           step == [p \in (1..N) \X (0..M) |-> next(p[1], p[2])]
           body(f) == [n \in 0..N |-> IF n = 0 THEN NoIndex ELSE next(n, f[n - 1])]
           cursor == CHOOSE f : f = body(f)
<1>4. \A n \in 1..N : \A last \in 0..M : next(n, last) \in 0..M
  <2> SUFFICES ASSUME NEW n \in 1..N, NEW last \in 0..M PROVE next(n, last) \in 0..M
    OBVIOUS
  <2>1. CASE calls[n].crs = "" \/ foundFrom(last, calls[n].crs, stops) = {}
    BY <2>1
  <2>2. CASE ~(calls[n].crs = "" \/ foundFrom(last, calls[n].crs, stops) = {})
    <3>1. PICK crs : crs = calls[n].crs
      OBVIOUS
    <3>2. Min(foundFrom(last, crs, stops)) \in 1..M
      BY <1>2, <2>2, <3>1, FoundIsAhead
    <3>3. next(n, last) = Min(foundFrom(last, crs, stops))
      BY <2>2, <3>1
    <3> HIDE DEF next
    <3>4. QED
      BY <1>2, <3>2, <3>3
  <2>3. QED
    BY <2>1, <2>2
<1> HIDE DEF next
<1>5. step \in [(1..N) \X (0..M) -> 0..M]
  <2> SUFFICES ASSUME NEW p \in (1..N) \X (0..M) PROVE next(p[1], p[2]) \in 0..M
    OBVIOUS
  <2>1. p[1] \in 1..N /\ p[2] \in 0..M
    OBVIOUS
  <2>2. QED
    BY <1>4, <2>1
<1>6. PICK f : IsWalk(f, N, 0..M, NoIndex, step)
  <2> HIDE DEF step
  <2>1. NoIndex \in 0..M
    BY <1>2 DEF NoIndex
  <2>2. QED
    BY <1>5, <2>1, PrefixFunction
<1>7. \A n \in 1..N : f[n] = next(n, f[n - 1])
  <2> SUFFICES ASSUME NEW n \in 1..N PROVE f[n] = next(n, f[n - 1])
    OBVIOUS
  <2>1. n - 1 \in 0..N
    OBVIOUS
  <2>2. f[n - 1] \in 0..M
    BY <1>6, <2>1 DEF IsWalk
  <2>3. <<n, f[n - 1]>> \in (1..N) \X (0..M)
    BY <2>2
  <2>4. step[<<n, f[n - 1]>>] = next(n, f[n - 1])
    BY <2>3
  <2> HIDE DEF step
  <2>5. QED
    BY <1>6, <2>4 DEF IsWalk
<1>8. f = body(f)
  <2>1. \A n \in 0..N : n # 0 => n \in 1..N
    OBVIOUS
  <2>2. \A n \in 0..N : f[n] = IF n = 0 THEN NoIndex ELSE next(n, f[n - 1])
    <3>1. f[0] = NoIndex
      BY <1>6 DEF IsWalk
    <3>2. QED
      BY <1>7, <2>1, <3>1
  <2>3. f = [n \in 0..N |-> f[n]]
    BY <1>6 DEF IsWalk
  <2>4. QED
    BY <2>2, <2>3
<1>9. cursor = body(cursor)
  BY <1>8
<1>10. cursorsOf(calls, stops) = cursor
  BY <1>1, <1>2, <1>3 DEF cursorsOf, foundFrom, next
<1> HIDE DEF cursor
<1>11. /\ cursor[0] = NoIndex
       /\ \A n \in 1..N : cursor[n] = next(n, cursor[n - 1])
  <2>1. 0 \in 0..N /\ \A n \in 1..N : n \in 0..N /\ n # 0
    OBVIOUS
  <2>2. \A n \in 0..N : cursor[n] = IF n = 0 THEN NoIndex ELSE next(n, cursor[n - 1])
    BY <1>9
  <2> HIDE DEF body
  <2>3. QED
    BY <2>1, <2>2
<1>12. cursor \in [0..N -> 0..M]
  <2> DEFINE S == {n \in 0..N : cursor[n] \in 0..M}
  <2>1. 0 \in S
    BY <1>11 DEF NoIndex
  <2>2. \A n \in 1..N : n - 1 \in S => n \in S
    <3> SUFFICES ASSUME NEW n \in 1..N, n - 1 \in S PROVE n \in S
      OBVIOUS
    <3>1. n \in 0..N /\ cursor[n - 1] \in 0..M
      OBVIOUS
    <3>2. next(n, cursor[n - 1]) \in 0..M
      BY <1>4, <3>1
    <3>3. QED
      BY <1>11, <3>1, <3>2
  <2> HIDE DEF S
  <2>3. \A n \in 0..N : n \in S
    BY <2>1, <2>2, PrefixInduction
  <2>4. cursor = [n \in 0..N |-> cursor[n]]
    BY <1>9
  <2>5. QED
    BY <2>3, <2>4 DEF S
<1>13. QED
  BY <1>1, <1>2, <1>10, <1>11, <1>12 DEF IsCursor, next

(* The cursor never goes back, and where it moves it is at the call's      *)
(* station; where it does not there is no such stop ahead.                 *)
CursorMove(c, calls, stops, n) ==
    /\ c[n] # c[n - 1] => c[n] \in 1..Len(stops) /\ stops[c[n]].crs = calls[n].crs
    /\ c[n] = c[n - 1] /\ calls[n].crs # "" =>
         \A k \in 1..Len(stops) : k > c[n - 1] => stops[k].crs # calls[n].crs

LEMMA CursorMoves ==
    ASSUME NEW Y, NEW calls \in Seq(Y), NEW X, NEW stops \in Seq(X), NEW c,
           IsCursor(c, calls, stops), NEW n \in 1..Len(calls)
    PROVE  /\ c[n - 1] \in 0..Len(stops) /\ c[n] \in 0..Len(stops) /\ c[n - 1] <= c[n]
           /\ CursorMove(c, calls, stops, n)
<1>1. PICK M \in Nat : M = Len(stops)
  OBVIOUS
<1>2. Len(calls) \in Nat
  OBVIOUS
<1>3. n - 1 \in 0..Len(calls) /\ n \in 0..Len(calls)
  BY <1>2
<1>4. PICK a, b : a = c[n - 1] /\ b = c[n]
  OBVIOUS
<1>5. a \in 0..M /\ b \in 0..M
  BY <1>1, <1>3, <1>4 DEF IsCursor
<1>6. PICK crs : crs = calls[n].crs
  OBVIOUS
<1>7. PICK found : found = foundFrom(a, crs, stops)
  OBVIOUS
<1>8. b = IF crs = "" \/ found = {} THEN a ELSE Min(found)
  BY <1>4, <1>6, <1>7 DEF IsCursor
<1>9. found # {} => Min(found) \in 1..M /\ Min(found) > a /\ stops[Min(found)].crs = crs
  BY <1>1, <1>5, <1>7, FoundIsAhead
<1>10. CASE crs = "" \/ found = {}
  <2>1. b = a
    BY <1>8, <1>10
  <2>2. crs # "" => \A k \in 1..M : k > a => stops[k].crs # crs
    BY <1>1, <1>7, <1>10 DEF foundFrom
  <2>3. a <= b
    BY <1>5, <2>1
  <2>4. QED
    BY <1>1, <1>4, <1>5, <1>6, <2>1, <2>2, <2>3 DEF CursorMove
<1>11. CASE ~(crs = "" \/ found = {})
  <2>1. b \in 1..M /\ b > a /\ stops[b].crs = crs
    BY <1>8, <1>9, <1>11
  <2>2. b # a /\ a <= b
    BY <1>5, <2>1
  <2>3. QED
    BY <1>1, <1>4, <1>5, <1>6, <2>1, <2>2 DEF CursorMove
<1>12. QED
  BY <1>10, <1>11

LEMMA CursorMonotone ==
    ASSUME NEW Y, NEW calls \in Seq(Y), NEW X, NEW stops \in Seq(X), NEW c,
           IsCursor(c, calls, stops)
    PROVE  \A j \in 0..Len(calls) : \A i \in 0..j : c[i] <= c[j]
<1>1. PICK N \in Nat : N = Len(calls)
  OBVIOUS
<1>2. PICK M \in Nat : M = Len(stops)
  OBVIOUS
<1>3. \A n \in 0..N : c[n] \in 0..M
  BY <1>1, <1>2 DEF IsCursor
<1>4. \A n \in 1..N : c[n - 1] <= c[n]
  BY <1>1, CursorMoves
<1> DEFINE S == {j \in 0..N : \A i \in 0..j : c[i] <= c[j]}
<1>5. 0 \in S
  <2>1. c[0] \in Int
    BY <1>3
  <2>2. QED
    BY <2>1
<1>6. \A n \in 1..N : n - 1 \in S => n \in S
  <2> SUFFICES ASSUME NEW n \in 1..N, n - 1 \in S PROVE n \in S
    OBVIOUS
  <2>1. \A i \in 0..n : i = n \/ i \in 0..(n - 1)
    OBVIOUS
  <2>2. \A i \in 0..(n - 1) : c[i] <= c[n - 1]
    OBVIOUS
  <2>3. \A i \in 0..n : c[i] <= c[n]
    <3> SUFFICES ASSUME NEW i \in 0..n PROVE c[i] <= c[n]
      OBVIOUS
    <3>1. c[i] \in Int /\ c[n - 1] \in Int /\ c[n] \in Int /\ c[n - 1] <= c[n]
      BY <1>3, <1>4
    <3>2. QED
      BY <2>1, <2>2, <3>1
  <2>4. QED
    BY <2>3
<1> HIDE DEF S
<1>7. \A j \in 0..N : j \in S
  BY <1>5, <1>6, PrefixInduction
<1>8. QED
  BY <1>1, <1>7 DEF S

(* What is known of a call's place from the calls up to it is the cursor.  *)
lastAligned(alignment, i) == Max({NoIndex} \cup {alignment[j] : j \in 1..i})

LEMMA Alignment ==
    ASSUME NEW Y, NEW calls \in Seq(Y), NEW X, NEW stops \in Seq(X), NEW c,
           c = cursorsOf(calls, stops), NEW alignment, alignment = alignCallsToRun(calls, stops)
    PROVE  /\ IsCursor(c, calls, stops)
           /\ \A i \in 1..Len(calls) : alignment[i] = IF c[i] = c[i - 1] THEN NoIndex ELSE c[i]
<1>1. DOMAIN calls = 1..Len(calls)
  BY SeqFacts
<1>2. alignment = [i \in 1..Len(calls) |-> IF c[i] = c[i - 1] THEN NoIndex ELSE c[i]]
  BY <1>1 DEF alignCallsToRun
<1>3. QED
  BY <1>2, CursorWalk

LEMMA LastAlignedIsCursor ==
    ASSUME NEW Y, NEW calls \in Seq(Y), NEW X, NEW stops \in Seq(X), NEW c,
           IsCursor(c, calls, stops), NEW alignment,
           \A i \in 1..Len(calls) : alignment[i] = IF c[i] = c[i - 1] THEN NoIndex ELSE c[i],
           NEW n \in 1..Len(calls)
    PROVE  /\ lastAligned(alignment, n) = c[n]
           /\ c[n] = NoIndex \/ \E j \in 1..n : alignment[j] = c[n]
<1>1. PICK N \in Nat : N = Len(calls)
  OBVIOUS
<1>2. PICK M \in Nat : M = Len(stops)
  OBVIOUS
<1>3. \A i \in 0..N : c[i] \in 0..M
  BY <1>1, <1>2 DEF IsCursor
<1>4. \A j \in 0..N : \A i \in 0..j : c[i] <= c[j]
  BY <1>1, CursorMonotone
<1> DEFINE S == {i \in 0..N : c[i] = NoIndex \/ \E j \in 1..i : alignment[j] = c[i]}
<1>5. 0 \in S
  <2>1. c[0] = NoIndex
    BY DEF IsCursor
  <2>2. 0 \in 0..N
    OBVIOUS
  <2>3. QED
    BY <2>1, <2>2
<1>6. \A i \in 1..N : i - 1 \in S => i \in S
  <2> SUFFICES ASSUME NEW i \in 1..N, i - 1 \in S PROVE i \in S
    OBVIOUS
  <2>1. alignment[i] = IF c[i] = c[i - 1] THEN NoIndex ELSE c[i]
    BY <1>1
  <2>2. i \in 0..N /\ i \in 1..i
    OBVIOUS
  <2>3. CASE c[i] = c[i - 1]
    <3>1. CASE c[i - 1] = NoIndex
      BY <2>2, <2>3, <3>1
    <3>2. CASE c[i - 1] # NoIndex
      <4>1. PICK j \in 1..i - 1 : alignment[j] = c[i - 1]
        BY <3>2
      <4>2. j \in 1..i
        OBVIOUS
      <4>3. QED
        BY <2>2, <2>3, <4>1, <4>2
    <3>3. QED
      BY <3>1, <3>2
  <2>4. CASE c[i] # c[i - 1]
    BY <2>1, <2>2, <2>4
  <2>5. QED
    BY <2>3, <2>4
<1> HIDE DEF S
<1>7. \A i \in 0..N : i \in S
  BY <1>5, <1>6, PrefixInduction
<1>8. n \in 0..N
  BY <1>1
<1>9. c[n] = NoIndex \/ \E j \in 1..n : alignment[j] = c[n]
  BY <1>7, <1>8 DEF S
<1> DEFINE L == {NoIndex} \cup {alignment[j] : j \in 1..n}
<1>10. \A j \in 1..n : alignment[j] \in 0..M /\ alignment[j] <= c[n]
  <2> SUFFICES ASSUME NEW j \in 1..n PROVE alignment[j] \in 0..M /\ alignment[j] <= c[n]
    OBVIOUS
  <2>1. j \in 1..N /\ j \in 0..N /\ j \in 0..n
    BY <1>1
  <2>2. c[j] \in 0..M /\ c[j] <= c[n] /\ c[n] \in 0..M
    BY <1>3, <1>4, <1>8, <2>1
  <2>3. alignment[j] = NoIndex \/ alignment[j] = c[j]
    BY <1>1, <2>1
  <2>4. QED
    BY <2>2, <2>3 DEF NoIndex
<1>11. L \in SUBSET (0..M) /\ L # {} /\ c[n] \in L /\ \A x \in L : x <= c[n]
  <2>1. c[n] \in 0..M
    BY <1>3, <1>8
  <2>2. \A x \in L : x \in 0..M /\ x <= c[n]
    BY <1>10, <2>1 DEF NoIndex
  <2>3. c[n] \in L
    BY <1>9
  <2>4. QED
    BY <2>2, <2>3
<1> HIDE DEF L
<1>12. Max(L) \in L /\ Max(L) >= c[n]
  BY <1>11, MaxIsLargest
<1>13. Max(L) = c[n]
  <2>1. PICK x, y : x = Max(L) /\ y = c[n]
    OBVIOUS
  <2>2. x \in 0..M /\ y \in 0..M /\ x <= y /\ x >= y
    BY <1>11, <1>12, <2>1
  <2>3. QED
    BY <2>1, <2>2
<1>14. QED
  BY <1>9, <1>13 DEF L, lastAligned

(* The marks by the cursor: behind it, at it, and ahead of it.  A call that*)
(* is marked where the run ends short of it has the run's last stop, which *)
(* is marked too, before it.                                               *)
IsMarking(mark, c, front, n) ==
    /\ mark \in [1..n -> Marks]
    /\ \A i \in 1..n :
         /\ mark[i] = "departed" => c[i] < front
         /\ mark[i] = "current" => c[i] = front /\ front # NoIndex
         /\ mark[i] = "upcoming" => front < c[i]
         /\ mark[i] = "current" /\ c[i] = c[i - 1] => \E j \in 1..n : j < i /\ mark[j] = "current"

LEMMA Marking ==
    ASSUME NEW calls \in Seq(Call), Unmarked(calls), NEW X, NEW ordered \in Seq(X),
           NEW front \in 0..Len(ordered), NEW ranOff \in BOOLEAN,
           ranOff => front = Len(ordered) /\ front # NoIndex,
           NEW c, c = cursorsOf(calls, ordered)
    PROVE  /\ IsCursor(c, calls, ordered)
           /\ IsMarking(markers(calls, ordered, front, ranOff), c, front, Len(calls))
<1>1. PICK N \in Nat : N = Len(calls) /\ DOMAIN calls = 1..N
  BY SeqFacts
<1>2. PICK M \in Nat : M = Len(ordered)
  OBVIOUS
<1>3. PICK alignment : alignment = alignCallsToRun(calls, ordered)
  OBVIOUS
<1>4. IsCursor(c, calls, ordered)
  BY <1>3, Alignment
<1>5. \A i \in 1..N : alignment[i] = IF c[i] = c[i - 1] THEN NoIndex ELSE c[i]
  BY <1>1, <1>3, Alignment
<1>6. \A i \in 1..N : /\ lastAligned(alignment, i) = c[i]
                      /\ c[i] = NoIndex \/ \E j \in 1..i : alignment[j] = c[i]
  BY <1>1, <1>4, <1>5, LastAlignedIsCursor
<1>7. \A i \in 1..N : c[i] \in 0..M /\ c[i - 1] \in 0..M /\ c[i - 1] <= c[i]
  BY <1>1, <1>2, <1>4, CursorMoves
<1> DEFINE beyond == {i \in 1..N : /\ alignment[i] = NoIndex /\ ranOff
                                   /\ calls[i].crs # "" /\ c[i] = M}
           progress(i) ==
             IF alignment[i] = NoIndex
             THEN IF beyond # {} /\ i = Min(beyond) THEN "current"
                  ELSE IF c[i] # NoIndex /\ c[i] < front THEN "departed"
                  ELSE ""
             ELSE IF alignment[i] = front THEN "current"
             ELSE IF alignment[i] < front THEN "departed" ELSE "upcoming"
<1>8. markers(calls, ordered, front, ranOff) = [i \in 1..N |-> progress(i)]
  <2> DEFINE was == {i \in DOMAIN calls : /\ alignment[i] = NoIndex /\ ranOff
                                          /\ calls[i].crs # "" /\ lastAligned(alignment, i) = Len(ordered)}
             did(i) ==
               IF alignment[i] = NoIndex
               THEN IF was # {} /\ i = Min(was) THEN "current"
                    ELSE IF lastAligned(alignment, i) # NoIndex /\ lastAligned(alignment, i) < front THEN "departed"
                    ELSE calls[i].progress
               ELSE IF alignment[i] = front THEN "current"
               ELSE IF alignment[i] < front THEN "departed" ELSE "upcoming"
  <2>1. markers(calls, ordered, front, ranOff) = [i \in DOMAIN calls |-> did(i)]
    BY <1>3 DEF markers, lastAligned
  <2>2. was = beyond
    BY <1>1, <1>2, <1>6
  <2> HIDE DEF was, beyond
  <2>3. \A i \in 1..N : did(i) = progress(i)
    BY <1>1, <1>6, <2>2 DEF Unmarked
  <2> HIDE DEF did, progress
  <2>4. QED
    BY <1>1, <2>1, <2>3
<1>9. \A i \in 1..N : i \in beyond \/ ~(beyond # {} /\ i = Min(beyond))
  <2>1. beyond \in SUBSET Nat
    <3>1. beyond \subseteq 1..N
      BY Zenon
    <3>2. 1..N \subseteq Nat
      OBVIOUS
    <3> HIDE DEF beyond
    <3>3. QED
      BY <3>1, <3>2
  <2>2. beyond # {} => Min(beyond) \in beyond
    BY <2>1, MinIsSmallest
  <2> HIDE DEF beyond
  <2>3. QED
    BY <2>2
<1>10. \A i \in 1..N : i \in beyond => c[i] = front /\ front # NoIndex /\ alignment[i] = NoIndex
  BY <1>2
<1> HIDE DEF beyond
<1>11. \A i \in 1..N : progress(i) \in Marks
  BY DEF Marks
<1>12. \A i \in 1..N : alignment[i] # NoIndex => alignment[i] = c[i] /\ c[i] # c[i - 1]
  BY <1>5
<1>13. \A i \in 1..N : alignment[i] = NoIndex => c[i] = c[i - 1] \/ c[i] = NoIndex
  BY <1>5
<1>14. ASSUME NEW i \in 1..N
       PROVE  /\ progress(i) = "departed" => c[i] < front
              /\ progress(i) = "current" => c[i] = front /\ front # NoIndex
              /\ progress(i) = "upcoming" => front < c[i]
  <2>1. c[i] \in Int /\ front \in Int
    BY <1>2, <1>7
  <2>2. CASE alignment[i] = NoIndex
    BY <1>9, <1>10, <2>2
  <2>3. CASE alignment[i] # NoIndex
    <3>1. alignment[i] = c[i] /\ c[i] # NoIndex
      BY <1>12, <2>3
    <3>2. CASE c[i] = front
      BY <3>1, <3>2
    <3>3. CASE c[i] < front
      BY <2>1, <3>1, <3>3
    <3>4. CASE front < c[i]
      BY <2>1, <3>1, <3>4
    <3>5. QED
      BY <2>1, <3>2, <3>3, <3>4
  <2>4. QED
    BY <2>2, <2>3
<1>15. ASSUME NEW i \in 1..N, progress(i) = "current", c[i] = c[i - 1]
       PROVE  \E j \in 1..N : j < i /\ progress(j) = "current"
  <2>1. alignment[i] = NoIndex /\ c[i] = front /\ front # NoIndex
    BY <1>5, <1>14, <1>15
  <2>2. PICK j \in 1..i : alignment[j] = c[i]
    BY <1>6, <2>1
  <2>3. alignment[j] = front /\ alignment[j] # NoIndex /\ j # i
    BY <2>1, <2>2
  <2>4. j \in 1..N /\ j < i
    BY <2>3
  <2>5. progress(j) = "current"
    BY <2>3
  <2>6. QED
    BY <2>4, <2>5
<1> HIDE DEF progress
<1>16. PICK mark : mark = markers(calls, ordered, front, ranOff)
  OBVIOUS
<1>17. mark \in [1..N -> Marks] /\ \A i \in 1..N : mark[i] = progress(i)
  BY <1>8, <1>11, <1>16
<1>18. IsMarking(mark, c, front, N)
  BY <1>14, <1>15, <1>17 DEF IsMarking
<1>19. QED
  BY <1>1, <1>4, <1>16, <1>18

-----------------------------------------------------------------------------
(* What is shown: the calls with their marks, and the banner.              *)

RunOn(calls) ==
    \A i, j \in DOMAIN calls :
      LET before == rank(calls[i].progress)
          behind == rank(calls[j].progress)
      IN i < j /\ before # 0 /\ behind # 0 => before <= behind
FrontIsLast(v) ==
    LET front == frontIndex(v.calls)
    IN front # NoIndex => v.calls[front].name = v.progress.lastStop
NextIsAhead(v) ==
    \A j \in DOMAIN v.calls : v.calls[j].name = v.progress.nextStop =>
      \E k \in DOMAIN v.calls :
        v.calls[k].name = v.progress.nextStop /\ v.calls[k].progress # "departed"
FrontIsReached(v) ==
    LET front == frontIndex(v.calls)
    IN front # NoIndex => hasBeen(v.calls[front].crs)
EndIsReached(v) ==
    v.progress.arrived => v.calls # <<>> /\ hasPassed(v.calls[Len(v.calls)].crs)

Agrees(v) == /\ IsCalls(v.calls) /\ RunOn(v.calls) /\ FrontIsLast(v)
             /\ ~circular => NextIsAhead(v)

LEMMA RankIs ==
    /\ rank("departed") = 1 /\ rank("current") = 2 /\ rank("upcoming") = 3 /\ rank("") = 0
    /\ \A m \in Marks : rank(m) \in 0..3
BY DEF rank, Marks

LEMMA FrontIndexIs ==
    ASSUME NEW calls \in Seq(Call)
    PROVE  \/ /\ frontIndex(calls) = NoIndex
              /\ \A i \in 1..Len(calls) : calls[i].progress # "current"
           \/ /\ frontIndex(calls) \in 1..Len(calls) /\ frontIndex(calls) # NoIndex
              /\ calls[frontIndex(calls)].progress = "current"
              /\ \A i \in 1..Len(calls) : calls[i].progress = "current" => frontIndex(calls) <= i
<1>1. Len(calls) \in Nat /\ DOMAIN calls = 1..Len(calls)
  BY SeqFacts
<1>2. PICK S : S = {i \in 1..Len(calls) : calls[i].progress = "current"}
  OBVIOUS
<1>3. frontIndex(calls) = IF S = {} THEN NoIndex ELSE Min(S)
  BY <1>1, <1>2 DEF frontIndex
<1>4. S \in SUBSET Nat
  BY <1>1, <1>2
<1>5. CASE S = {}
  BY <1>2, <1>3, <1>5
<1>6. CASE S # {}
  <2>1. frontIndex(calls) \in S /\ \A y \in S : frontIndex(calls) <= y
    BY <1>3, <1>4, <1>6, MinIsSmallest
  <2>2. frontIndex(calls) # NoIndex
    BY <1>1, <1>2, <2>1 DEF NoIndex
  <2>3. QED
    BY <1>2, <2>1, <2>2
<1>7. QED
  BY <1>5, <1>6

(* By a marking the calls run on, and the first that is current is at the  *)
(* front, at a stop of its station.                                        *)
LEMMA MarkedRunOn ==
    ASSUME NEW old \in Seq(Call), NEW X, NEW ordered \in Seq(X), NEW front \in 0..Len(ordered),
           NEW c, IsCursor(c, old, ordered), NEW mark, IsMarking(mark, c, front, Len(old)),
           NEW calls, calls = withProgress(old, mark)
    PROVE  /\ SameCalls(calls, old)
           /\ \A i \in 1..Len(old) : calls[i].progress = mark[i]
           /\ RunOn(calls)
           /\ frontIndex(calls) # NoIndex =>
                /\ frontIndex(calls) \in 1..Len(old) /\ front \in 1..Len(ordered)
                /\ ordered[front].crs = old[frontIndex(calls)].crs
<1>1. PICK N \in Nat : N = Len(old)
  OBVIOUS
<1>2. PICK M \in Nat : M = Len(ordered)
  OBVIOUS
<1>3. mark \in [1..N -> Marks]
  BY <1>1 DEF IsMarking
<1>4. SameCalls(calls, old) /\ \A i \in 1..N : calls[i].progress = mark[i]
  BY <1>1, <1>3, MarkedCalls
<1>5. calls \in Seq(Call) /\ Len(calls) = N /\ DOMAIN calls = 1..N
  BY <1>1, <1>4, SeqFacts DEF SameCalls
<1>6. \A i \in 1..N : c[i] \in 0..M /\ c[i - 1] \in 0..M
  BY <1>1, <1>2, CursorMoves
<1>7. \A j \in 0..N : \A i \in 0..j : c[i] <= c[j]
  BY <1>1, CursorMonotone
<1>8. RunOn(calls)
  <2> SUFFICES ASSUME NEW i \in 1..N, NEW j \in 1..N, i < j,
                      rank(mark[i]) # 0, rank(mark[j]) # 0
               PROVE  rank(mark[i]) <= rank(mark[j])
    BY <1>4, <1>5 DEF RunOn
  <2>1. i \in 0..j /\ j \in 0..N
    OBVIOUS
  <2>2. PICK a, b, m, k : a = c[i] /\ b = c[j] /\ m = mark[i] /\ k = mark[j]
    OBVIOUS
  <2>3. a \in Int /\ b \in Int /\ front \in Int /\ a <= b
    BY <1>2, <1>6, <1>7, <2>1, <2>2
  <2>4. m \in Marks /\ k \in Marks
    BY <1>3, <2>2
  <2>5. /\ m = "departed" => a < front
        /\ m = "current" => a = front
        /\ m = "upcoming" => front < a
        /\ k = "departed" => b < front
        /\ k = "current" => b = front
        /\ k = "upcoming" => front < b
    BY <1>1, <2>2 DEF IsMarking
  <2>6. m # "" /\ k # ""
    BY <2>2, RankIs
  <2>7. /\ m = "departed" => rank(m) = 1
        /\ m = "current" => rank(m) = 2
        /\ m = "upcoming" => rank(m) = 3
        /\ k = "departed" => rank(k) = 1
        /\ k = "current" => rank(k) = 2
        /\ k = "upcoming" => rank(k) = 3
    BY RankIs
  <2>8. PICK x, y : x = rank(m) /\ y = rank(k) /\ x = rank(mark[i]) /\ y = rank(mark[j])
    BY <2>2
  <2>9. y \in {1, 2, 3}
    BY <2>4, <2>6, <2>7, <2>8 DEF Marks
  <2>10. CASE m = "departed"
    <3>1. x = 1
      BY <2>10, <2>7, <2>8
    <3>2. x <= y
      BY <2>9, <3>1
    <3>3. QED
      BY <2>8, <3>2
  <2>11. CASE m = "current"
    <3>1. k # "departed"
      BY <2>3, <2>5, <2>11
    <3>2. k = "current" \/ k = "upcoming"
      BY <2>4, <2>6, <3>1 DEF Marks
    <3>3. x = 2 /\ (y = 2 \/ y = 3)
      BY <2>11, <2>7, <2>8, <3>2
    <3>4. x <= y
      BY <3>3
    <3>5. QED
      BY <2>8, <3>4
  <2>12. CASE m = "upcoming"
    <3>1. k # "departed" /\ k # "current"
      BY <2>3, <2>5, <2>12
    <3>2. k = "upcoming"
      BY <2>4, <2>6, <3>1 DEF Marks
    <3>3. x = 3 /\ y = 3
      BY <2>12, <2>7, <2>8, <3>2
    <3>4. x <= y
      BY <3>3
    <3>5. QED
      BY <2>8, <3>4
  <2>13. QED
    BY <2>4, <2>6, <2>10, <2>11, <2>12 DEF Marks
<1>9. ASSUME frontIndex(calls) # NoIndex
      PROVE  /\ frontIndex(calls) \in 1..N /\ front \in 1..M
             /\ ordered[front].crs = old[frontIndex(calls)].crs
  <2>1. PICK f : f = frontIndex(calls)
    OBVIOUS
  <2>2. /\ f \in 1..N /\ calls[f].progress = "current"
        /\ \A i \in 1..N : calls[i].progress = "current" => f <= i
    BY <1>5, <1>9, <2>1, FrontIndexIs
  <2>3. mark[f] = "current" /\ \A i \in 1..N : mark[i] = "current" => ~(i < f)
    BY <1>4, <2>2
  <2>4. c[f] # c[f - 1] /\ c[f] = front
    BY <1>1, <2>2, <2>3 DEF IsMarking
  <2>5. f \in 1..Len(old)
    BY <1>1, <2>2
  <2>6. c[f] # c[f - 1] => c[f] \in 1..Len(ordered) /\ ordered[c[f]].crs = old[f].crs
    <3>1. CursorMove(c, old, ordered, f)
      BY <2>5, CursorMoves
    <3>2. QED
      BY <3>1 DEF CursorMove
  <2>7. front \in 1..M /\ ordered[front].crs = old[f].crs
    BY <1>2, <2>4, <2>6
  <2>8. QED
    BY <2>1, <2>2, <2>7
<1>10. QED
  BY <1>1, <1>2, <1>4, <1>8, <1>9

LEMMA CallFacts ==
    ASSUME ClockInv, NEW calls, IsCalls(calls)
    PROVE  \A i \in 1..Len(calls) : calls[i].name = calls[i].crs /\ calls[i].crs # ""
<1>1. \A i \in 1..Len(route) : route[i].crs # ""
  BY RouteFacts
<1>2. QED
  BY <1>1 DEF IsCalls, IsOurCall

LEMMA NameOfIs ==
    ASSUME ClockInv, NEW calls, IsCalls(calls), NEW crs
    PROVE  nameOf(calls, crs) = crs
<1>1. calls \in Seq(Call)
  BY DEF IsCalls
<1>2. DOMAIN calls = 1..Len(calls) /\ Len(calls) \in Nat
  BY <1>1, SeqFacts
<1>3. PICK S : S = {i \in 1..Len(calls) : calls[i].crs = crs}
  OBVIOUS
<1>4. nameOf(calls, crs) = IF S = {} THEN crs ELSE calls[Min(S)].name
  BY <1>2, <1>3 DEF nameOf
<1>5. S \in SUBSET Nat
  BY <1>2, <1>3
<1>6. S # {} => Min(S) \in S
  BY <1>5, MinIsSmallest
<1>7. S # {} => calls[Min(S)].name = crs
  BY <1>3, <1>6, CallFacts
<1>8. QED
  BY <1>4, <1>7

LEMMA StopsDistinct ==
    ASSUME ClockInv, ~circular, NEW s, IsRunStops(s)
    PROVE  \A j, k \in 1..Len(s) : s[j].crs = s[k].crs => j = k
<1>1. \A i, j \in 1..Len(route) : route[i].crs = route[j].crs => i = j
  <2>1. DOMAIN route = 1..Len(route)
    BY RouteFacts, SeqFacts
  <2>2. QED
    BY <2>1 DEF circular
<1>2. \A k \in 1..Len(known) : known[k] \in 1..Len(route)
  BY KnownFacts
<1>3. \A j, k \in 1..Len(known) : known[j] = known[k] => j = k
  <2>1. \A j, k \in 1..Len(known) : j < k => known[j] < known[k]
    BY KnownFacts
  <2>2. \A k \in 1..Len(known) : known[k] \in Int /\ k \in Int
    BY <1>2
  <2>3. QED
    BY <2>1, <2>2
<1>4. Len(s) = Len(known) /\ \A k \in 1..Len(known) : s[k].crs = route[known[k]].crs
  BY DEF IsRunStops
<1>5. QED
  BY <1>1, <1>2, <1>3, <1>4

(* Where the page has the front of a run.                                  *)
HeardOn(trust, ordered) ==
    /\ \E T : trust \in Seq(T)
    /\ \A k \in 1..Len(trust) :
         /\ trust[k].runIdx \in 1..Len(ordered) /\ trust[k].reportedAt \in Int
         /\ wasThere(<<ordered[trust[k].runIdx].crs, trust[k].reportedAt>>)
DarwinReached(ordered) ==
    \A k \in 1..Len(ordered) : ordered[k].actual # NoTime => hasPassed(ordered[k].crs)
RowReached(nr) == nr.crs = "" \/ hasBeen(nr.crs)

LEMMA LastHeard ==
    ASSUME NEW trust, NEW ordered, HeardOn(trust, ordered), trust # <<>>
    PROVE  Last(trust).runIdx \in 1..Len(ordered) /\ hasPassed(ordered[Last(trust).runIdx].crs)
<1>1. PICK T : trust \in Seq(T)
  BY DEF HeardOn
<1>2. Len(trust) \in 1..Len(trust) /\ Last(trust) = trust[Len(trust)]
  BY <1>1 DEF Last
<1>3. QED
  BY <1>2 DEF HeardOn, wasThere, hasPassed

FrontOf(front, ordered, nr) ==
    /\ front \in 0..Len(ordered)
    /\ front # NoIndex => \/ nr.crs # "" /\ ordered[front].crs = nr.crs
                          \/ hasPassed(ordered[front].crs)
                          \/ ordered[front].actual # NoTime

LEMMA FrontIsOf ==
    ASSUME NEW X, NEW ordered \in Seq(X), NEW trust, HeardOn(trust, ordered), NEW nr
    PROVE  FrontOf(effectiveLastPassedIdx(ordered, trust, nr), ordered, nr)
<1>1. PICK M \in Nat : M = Len(ordered) /\ DOMAIN ordered = 1..M
  BY SeqFacts
<1>2. PICK last : last = lastPassedIdx(ordered, trust)
  OBVIOUS
<1>3. last \in 0..M /\ (last # NoIndex => hasPassed(ordered[last].crs) \/ ordered[last].actual # NoTime)
  <2>1. CASE trust # <<>>
    <3>1. last = Last(trust).runIdx
      BY <1>2, <2>1 DEF lastPassedIdx
    <3>2. last \in 1..M /\ hasPassed(ordered[last].crs)
      BY <1>1, <2>1, <3>1, LastHeard
    <3>3. last \in 0..M
      BY <3>2
    <3>4. QED
      BY <3>2, <3>3
  <2>2. CASE trust = <<>>
    <3>1. PICK S : S = {i \in 1..M : ordered[i].actual # NoTime}
      OBVIOUS
    <3>2. last = Max({NoIndex} \cup S)
      BY <1>1, <1>2, <2>2, <3>1 DEF lastPassedIdx
    <3>3. {NoIndex} \cup S \in SUBSET (0..M) /\ {NoIndex} \cup S # {}
      BY <3>1 DEF NoIndex
    <3>4. last \in {NoIndex} \cup S
      BY <3>2, <3>3, MaxIsLargest
    <3>5. last \in 0..M
      BY <3>3, <3>4
    <3>6. QED
      BY <3>1, <3>4, <3>5
  <2>3. QED
    BY <2>1, <2>2
<1>4. PICK front : front = effectiveLastPassedIdx(ordered, trust, nr)
  OBVIOUS
<1>5. PICK seen : seen = {i \in 1..M : ordered[i].crs = nr.crs}
  OBVIOUS
<1>6. front = IF nr.crs = "" \/ seen = {} THEN last ELSE Max({Min(seen), last})
  BY <1>1, <1>2, <1>4, <1>5 DEF effectiveLastPassedIdx
<1>7. CASE nr.crs = "" \/ seen = {}
  BY <1>1, <1>3, <1>4, <1>6, <1>7 DEF FrontOf
<1>8. CASE ~(nr.crs = "" \/ seen = {})
  <2>1. seen \in SUBSET Nat
    <3>1. seen \subseteq 1..M
      BY <1>5
    <3>2. QED
      BY <3>1
  <2>2. Min(seen) \in seen
    BY <1>8, <2>1, MinIsSmallest
  <2>3. PICK first : first = Min(seen)
    OBVIOUS
  <2>4. first \in 1..M /\ ordered[first].crs = nr.crs
    BY <1>5, <2>2, <2>3
  <2>5. {first, last} \in SUBSET (0..M) /\ {first, last} # {}
    BY <1>3, <2>4
  <2>6. front \in {first, last}
    BY <1>6, <1>8, <2>3, <2>5, MaxIsLargest
  <2>7. front \in 0..M
    BY <2>5, <2>6
  <2>8. CASE front = first
    BY <1>1, <1>4, <1>8, <2>4, <2>7, <2>8 DEF FrontOf
  <2>9. CASE front = last
    BY <1>1, <1>3, <1>4, <2>7, <2>9 DEF FrontOf
  <2>10. QED
    BY <2>6, <2>8, <2>9
<1>9. QED
  BY <1>7, <1>8

LEMMA ArrivedIsReached ==
    ASSUME ClockInv, NEW calls, IsCalls(calls), NEW ordered, NEW trust, HeardOn(trust, ordered),
           DarwinReached(ordered), NEW X, ordered \in Seq(X), hasArrived(calls, ordered, trust)
    PROVE  calls # <<>> /\ hasPassed(calls[Len(calls)].crs)
<1>1. calls \in Seq(Call)
  BY DEF IsCalls
<1>2. withCrs(calls) = calls
  <2>1. DOMAIN calls = 1..Len(calls)
    BY <1>1, SeqFacts
  <2>2. PICK I : I = {i \in DOMAIN calls : calls[i].crs # ""}
    OBVIOUS
  <2>3. 1..Len(calls) \subseteq I
    BY <2>1, <2>2, CallFacts
  <2>4. withCrs(calls) = Selected(calls, I)
    BY <2>2 DEF withCrs
  <2>5. QED
    BY <1>1, <2>3, <2>4, SelectedAll
<1>3. /\ ordered # <<>> /\ calls # <<>>
      /\ ordered[Len(ordered)].crs = Last(calls).crs
      /\ IF trust # <<>> THEN Last(trust).runIdx = Len(ordered) ELSE ordered[Len(ordered)].actual # NoTime
  BY <1>2 DEF hasArrived
<1>4. Last(calls) = calls[Len(calls)]
  BY DEF Last
<1>5. Len(ordered) \in 1..Len(ordered)
  BY <1>3
<1>6. hasPassed(ordered[Len(ordered)].crs)
  <2>1. CASE trust # <<>>
    BY <1>3, <2>1, LastHeard
  <2>2. CASE trust = <<>>
    BY <1>3, <1>5, <2>2 DEF DarwinReached
  <2>3. QED
    BY <2>1, <2>2
<1>7. QED
  BY <1>3, <1>4, <1>6

(* How the times of a run are put on a call that it has.                   *)
reportFor(trust, k) ==
    LET own == {n \in DOMAIN trust : trust[n].runIdx = k}
    IN IF own = {} THEN NoTime ELSE trust[Max(own)].reportedAt
estimateOf(d) == orElse(d.estArr, orElse(d.estDep, orElse(d.schedArr, orElse(d.schedDep, d.schedPass))))
IsTimed(new, old, d, report, when) ==
    /\ new.scheduledIso = old.scheduledIso /\ new.expected = old.expected
    /\ new.expectedIso = old.expectedIso /\ new.progress = old.progress
    /\ new.actual = orElse(ukHhmm(report), orElse(d.actual, old.actual))
    /\ new.actualIso = orElse(report, orElse(hhmmToIso(d.actual, orElse(old.scheduledIso, when)),
                                             old.actualIso))
    /\ new.estimatedArrivalIso = hhmmToIso(estimateOf(d), orElse(old.scheduledIso, when))

(* The last report of a stop is one of its own.                            *)
LEMMA ReportIsHeard ==
    ASSUME NEW trust, NEW ordered, HeardOn(trust, ordered), NEW k
    PROVE  \/ reportFor(trust, k) = NoTime
           \/ /\ reportFor(trust, k) \in Int
              /\ wasThere(<<ordered[k].crs, reportFor(trust, k)>>)
<1>1. PICK T : trust \in Seq(T)
  BY DEF HeardOn
<1>2. DOMAIN trust = 1..Len(trust) /\ Len(trust) \in Nat
  BY <1>1, SeqFacts
<1>3. PICK own : own = {n \in DOMAIN trust : trust[n].runIdx = k}
  OBVIOUS
<1>4. reportFor(trust, k) = IF own = {} THEN NoTime ELSE trust[Max(own)].reportedAt
  BY <1>3 DEF reportFor
<1>5. CASE own = {}
  BY <1>4, <1>5
<1>6. CASE own # {}
  <2>1. own \in SUBSET (0..Len(trust))
    BY <1>2, <1>3
  <2>2. PICK n : n = Max(own) /\ n \in own
    BY <1>2, <1>6, <2>1, MaxIsLargest
  <2>3. n \in 1..Len(trust) /\ trust[n].runIdx = k
    BY <1>2, <1>3, <2>2
  <2>4. reportFor(trust, k) = trust[n].reportedAt
    BY <1>4, <1>6, <2>2
  <2>5. QED
    BY <2>3, <2>4 DEF HeardOn
<1>7. QED
  BY <1>5, <1>6

timedOf(c, d, report, when) ==
    [c EXCEPT !.actual = orElse(ukHhmm(report), orElse(d.actual, c.actual)),
              !.actualIso = orElse(report, orElse(hhmmToIso(d.actual, orElse(c.scheduledIso, when)), c.actualIso)),
              !.estimatedArrivalIso = hhmmToIso(estimateOf(d), orElse(c.scheduledIso, when))]

LEMMA TimedCall ==
    ASSUME NEW c \in Call, NEW d, TimesAreInts(d), NEW report \in Int, NEW when \in Int, NEW new,
           new = timedOf(c, d, report, when)
    PROVE  /\ new \in Call /\ new.crs = c.crs /\ new.name = c.name /\ new.scheduled = c.scheduled
           /\ IsTimed(new, c, d, report, when)
<1>1. c.actual \in Int /\ c.actualIso \in Int /\ c.scheduledIso \in Int
  BY DEF Call
<1>2. PICK anchor \in Int : anchor = orElse(c.scheduledIso, when)
  BY <1>1, OrElseIs
<1>3. d.actual \in Int /\ estimateOf(d) \in Int
  BY DEF TimesAreInts, estimateOf, orElse
<1>4. PICK a \in Int : a = orElse(ukHhmm(report), orElse(d.actual, c.actual))
  <2>1. orElse(d.actual, c.actual) \in Int
    BY <1>1, <1>3, OrElseIs
  <2>2. QED
    BY <2>1, TextIsInt, OrElseIs
<1>5. PICK x \in Int : x = orElse(report, orElse(hhmmToIso(d.actual, anchor), c.actualIso))
  <2>1. hhmmToIso(d.actual, anchor) \in Int
    BY <1>2, <1>3, IsoIsInt
  <2>2. orElse(hhmmToIso(d.actual, anchor), c.actualIso) \in Int
    BY <1>1, <2>1, OrElseIs
  <2>3. QED
    BY <2>2, OrElseIs
<1>6. PICK e \in Int : e = hhmmToIso(estimateOf(d), anchor)
  BY <1>2, <1>3, IsoIsInt
<1>7. new = [c EXCEPT !.actual = a, !.actualIso = x, !.estimatedArrivalIso = e]
  BY <1>2, <1>4, <1>5, <1>6 DEF timedOf
<1>8. /\ new \in Call /\ new.crs = c.crs /\ new.name = c.name /\ new.scheduled = c.scheduled
      /\ new.progress = c.progress /\ new.scheduledIso = c.scheduledIso /\ new.expected = c.expected
      /\ new.expectedIso = c.expectedIso
      /\ new.actual = a /\ new.actualIso = x /\ new.estimatedArrivalIso = e
  BY <1>7 DEF Call
<1>9. QED
  BY <1>2, <1>4, <1>5, <1>6, <1>8 DEF IsTimed

TimedOf(new, old, ordered, trust, when) ==
    \/ new = old
    \/ \E k \in 1..Len(ordered) : /\ ordered[k].crs = old.crs
                                /\ IsTimed(new, old, ordered[k], reportFor(trust, k), when)

LEMMA TimedCalls ==
    ASSUME ClockInv, NEW old \in Seq(Call), NEW ordered, IsRunStops(ordered),
           NEW trust, HeardOn(trust, ordered), NEW when \in Int,
           NEW timed, timed = withTimes(old, ordered, trust, when)
    PROVE  /\ SameCalls(timed, old)
           /\ \A i \in 1..Len(old) :
                /\ timed[i].scheduledIso = old[i].scheduledIso
                /\ TimedOf(timed[i], old[i], ordered, trust, when)
<1>1. PICK N \in Nat : N = Len(old) /\ DOMAIN old = 1..N
  BY SeqFacts
<1>2. PICK X : ordered \in Seq(X)
  BY DEF IsRunStops
<1>3. PICK c, alignment : c = cursorsOf(old, ordered) /\ alignment = alignCallsToRun(old, ordered)
  OBVIOUS
<1>4. /\ IsCursor(c, old, ordered)
      /\ \A i \in 1..N : alignment[i] = IF c[i] = c[i - 1] THEN NoIndex ELSE c[i]
  BY <1>1, <1>2, <1>3, Alignment
<1>5. timed = [i \in 1..N |-> IF alignment[i] = NoIndex THEN old[i]
                               ELSE timedOf(old[i], ordered[alignment[i]], reportFor(trust, alignment[i]), when)]
  BY <1>1, <1>3 DEF withTimes, estimateOf, reportFor, timedOf
<1>6. \A i \in 1..N : old[i] \in Call
  BY <1>1
<1>7. \A i \in 1..N :
        /\ timed[i] \in Call /\ timed[i].crs = old[i].crs /\ timed[i].name = old[i].name
        /\ timed[i].scheduled = old[i].scheduled /\ timed[i].scheduledIso = old[i].scheduledIso
        /\ \/ timed[i] = old[i]
           \/ \E k \in 1..Len(ordered) :
                /\ ordered[k].crs = old[i].crs
                /\ IsTimed(timed[i], old[i], ordered[k], reportFor(trust, k), when)
  <2> SUFFICES ASSUME NEW i \in 1..N
               PROVE  /\ timed[i] \in Call /\ timed[i].crs = old[i].crs /\ timed[i].name = old[i].name
                      /\ timed[i].scheduled = old[i].scheduled /\ timed[i].scheduledIso = old[i].scheduledIso
                      /\ \/ timed[i] = old[i]
                         \/ \E k \in 1..Len(ordered) :
                              /\ ordered[k].crs = old[i].crs
                              /\ IsTimed(timed[i], old[i], ordered[k], reportFor(trust, k), when)
    OBVIOUS
  <2>1. PICK k, b, new : k = alignment[i] /\ b = old[i] /\ new = timed[i] /\ b \in Call
    BY <1>6
  <2>2. CASE k = NoIndex
    <3>1. timed[i] = old[i]
      BY <1>5, <2>1, <2>2
    <3>2. QED
      BY <1>6, <3>1
  <2>3. CASE k # NoIndex
    <3>1. k \in 1..Len(ordered) /\ ordered[k].crs = b.crs
      <4>1. CursorMove(c, old, ordered, i)
        BY <1>1, <1>2, <1>4, CursorMoves
      <4>2. k = c[i] /\ c[i] # c[i - 1]
        BY <1>4, <2>1, <2>3
      <4>3. QED
        BY <2>1, <4>1, <4>2 DEF CursorMove
    <3>2. PICK d : d = ordered[k]
      OBVIOUS
    <3>3. TimesAreInts(d)
      BY <3>1, <3>2 DEF IsRunStops
    <3>4. PICK report \in Int : report = reportFor(trust, k)
      <4>1. NoTime \in Int
        BY DEF NoTime
      <4>2. QED
        BY <4>1, ReportIsHeard
    <3>5. new = timedOf(b, d, report, when)
      BY <1>5, <2>1, <2>3, <3>2, <3>4
    <3>6. /\ new \in Call /\ new.crs = b.crs /\ new.name = b.name /\ new.scheduled = b.scheduled
          /\ IsTimed(new, b, d, report, when)
      BY <2>1, <3>3, <3>4, <3>5, TimedCall
    <3>7. new.scheduledIso = b.scheduledIso
      BY <3>6 DEF IsTimed
    <3>8. QED
      BY <2>1, <3>1, <3>2, <3>4, <3>6, <3>7
  <2>4. QED
    BY <2>2, <2>3
<1>8. timed \in Seq(Call) /\ Len(timed) = N
  <2>1. \A i \in 1..N : timed[i] \in Call
    BY <1>7
  <2>2. QED
    BY <1>1, <1>5, <2>1
<1>9. QED
  BY <1>1, <1>7, <1>8 DEF SameCalls, TimedOf

IsBanner(p) ==
    \E tracking, state, arrived, rail, last, next, delay :
      p = [tracking |-> tracking, positionState |-> state, arrived |-> arrived, networkRail |-> rail,
           lastStop |-> last, nextStop |-> next, delay |-> delay]

(* Darwin's view of a run agrees with itself, and is of where the train has*)
(* been if what was read of it is.                                         *)
IsMarked(calls, timed) == \E mark \in [1..Len(timed) -> Marks] : calls = withProgress(timed, mark)

CanBeShown(old, ordered, trust, when) ==
    /\ IsCalls(old) /\ Unmarked(old) /\ IsRunStops(ordered) /\ HeardOn(trust, ordered) /\ when \in Int
LEMMA DarwinShown ==
    ASSUME ClockInv, NEW old, NEW ordered, NEW trust, NEW when, CanBeShown(old, ordered, trust, when),
           NEW nr, NEW rid, NEW v, v = enrichWithDarwinProgress(rid, old, ordered, trust, nr, when)
    PROVE  /\ Agrees(v) /\ v.progress.tracking = TRUE /\ IsBanner(v.progress)
           /\ IsMarked(v.calls, withTimes(old, ordered, trust, when))
           /\ DarwinReached(ordered) => EndIsReached(v)
           /\ DarwinReached(ordered) /\ RowReached(nr) => FrontIsReached(v)
<1> IsCalls(old) /\ Unmarked(old) /\ IsRunStops(ordered) /\ HeardOn(trust, ordered) /\ when \in Int
  BY DEF CanBeShown
<1>1. PICK X : ordered \in Seq(X)
  BY DEF IsRunStops
<1>2. PICK M \in Nat : M = Len(ordered) /\ DOMAIN ordered = 1..M
  BY <1>1, SeqFacts
<1>3. old \in Seq(Call)
  BY DEF IsCalls
<1>4. PICK N \in Nat : N = Len(old) /\ DOMAIN old = 1..N
  BY <1>3, SeqFacts
<1>5. PICK front : front = effectiveLastPassedIdx(ordered, trust, nr)
  OBVIOUS
<1>6. FrontOf(front, ordered, nr)
  BY <1>1, <1>5, FrontIsOf
<1>7. front \in 0..M
  BY <1>2, <1>6 DEF FrontOf
<1>8. PICK arrived : arrived = hasArrived(old, ordered, trust)
  OBVIOUS
<1>9. PICK ranOff : ranOff = (~arrived /\ ordered # <<>> /\ front = M)
  OBVIOUS
<1>10. ranOff \in BOOLEAN
  BY <1>9
<1>11. ranOff => front = Len(ordered) /\ front # NoIndex
  <2>1. ordered # <<>> => M # 0
    BY <1>1, <1>2
  <2>2. QED
    BY <1>2, <1>9, <2>1 DEF NoIndex
<1>12. PICK mark : mark = markers(old, ordered, front, ranOff)
  OBVIOUS
<1>13. PICK c : c = cursorsOf(old, ordered)
  OBVIOUS
<1>14. IsCursor(c, old, ordered) /\ IsMarking(mark, c, front, N)
  <2>1. front \in 0..Len(ordered)
    BY <1>2, <1>7
  <2>2. QED
    BY <1>1, <1>3, <1>4, <1>10, <1>11, <1>12, <1>13, <2>1, Marking
<1>29. PICK timed : timed = withTimes(old, ordered, trust, when)
  OBVIOUS
<1>30. /\ SameCalls(timed, old) /\ timed \in Seq(Call) /\ Len(timed) = N
       /\ \A i \in 1..N : timed[i].crs = old[i].crs
  <2>1. SameCalls(timed, old)
    BY <1>3, <1>29, TimedCalls
  <2>2. QED
    BY <1>4, <2>1 DEF SameCalls
<1>31. IsCursor(c, timed, ordered)
  BY <1>4, <1>14, <1>30 DEF IsCursor
<1>15. PICK calls : calls = withProgress(timed, mark)
  OBVIOUS
<1>16. PICK here, next :
         /\ here = (IF front \in 1..M THEN nameOf(old, ordered[front].crs) ELSE "")
         /\ next = (IF front + 1 \in 1..M THEN nameOf(old, ordered[front + 1].crs) ELSE "")
  OBVIOUS
<1>17. /\ v.calls = calls
       /\ v.progress.tracking = TRUE /\ v.progress.arrived = arrived
       /\ v.progress.lastStop = here /\ v.progress.nextStop = next /\ v.rid = rid
  BY <1>2, <1>5, <1>8, <1>9, <1>12, <1>15, <1>16, <1>29 DEF enrichWithDarwinProgress
<1>18. /\ SameCalls(calls, old)
       /\ \A i \in 1..N : calls[i].progress = mark[i]
       /\ RunOn(calls)
       /\ frontIndex(calls) # NoIndex =>
            /\ frontIndex(calls) \in 1..N /\ front \in 1..M
            /\ ordered[front].crs = old[frontIndex(calls)].crs
  <2>1. front \in 0..Len(ordered)
    BY <1>2, <1>7
  <2>2. /\ SameCalls(calls, timed)
        /\ \A i \in 1..N : calls[i].progress = mark[i]
        /\ RunOn(calls)
        /\ frontIndex(calls) # NoIndex =>
             /\ frontIndex(calls) \in 1..N /\ front \in 1..M
             /\ ordered[front].crs = timed[frontIndex(calls)].crs
    BY <1>1, <1>2, <1>14, <1>15, <1>30, <1>31, <2>1, MarkedRunOn
  <2>3. SameCalls(calls, old)
    BY <1>4, <1>30, <2>2 DEF SameCalls
  <2>4. QED
    BY <1>30, <2>2, <2>3
<1>19. IsCalls(calls)
  BY <1>18, CallsStay
<1>20. Len(calls) = N /\ DOMAIN calls = 1..N /\ \A i \in 1..N : calls[i].crs = old[i].crs
  <2>1. calls \in Seq(Call)
    BY <1>19 DEF IsCalls
  <2>2. QED
    BY <1>4, <1>18, <2>1, SeqFacts DEF SameCalls
<1>21. \A i \in 1..N : calls[i].name = calls[i].crs /\ calls[i].crs # ""
  BY <1>19, <1>20, CallFacts
<1>22. FrontIsLast(v)
  <2>1. PICK f : f = frontIndex(calls)
    OBVIOUS
  <2>2. SUFFICES ASSUME f # NoIndex PROVE calls[f].name = here
    BY <1>17, <2>1 DEF FrontIsLast
  <2>3. f \in 1..N /\ front \in 1..M /\ ordered[front].crs = calls[f].crs
    BY <1>18, <1>20, <2>1, <2>2
  <2>4. here = ordered[front].crs
    BY <1>16, <2>3, NameOfIs
  <2>5. QED
    BY <1>21, <2>3, <2>4
<1>23. ~circular => NextIsAhead(v)
  <2> SUFFICES ASSUME ~circular, NEW j \in 1..N, calls[j].name = next
               PROVE  calls[j].progress # "departed"
    BY <1>17, <1>20 DEF NextIsAhead
  <2>1. calls[j].crs = next /\ next # ""
    BY <1>21
  <2>2. front + 1 \in 1..M /\ next = ordered[front + 1].crs
    BY <1>16, <2>1, NameOfIs
  <2>3. SUFFICES ASSUME mark[j] = "departed" PROVE FALSE
    BY <1>18
  <2>4. c[j] < front
    BY <1>14, <2>3 DEF IsMarking
  <2>5. c[j] \in 0..M /\ c[j - 1] \in 0..M /\ c[j - 1] <= c[j] /\ CursorMove(c, old, ordered, j)
    BY <1>1, <1>2, <1>3, <1>4, <1>14, CursorMoves
  <2>6. old[j].crs = next /\ old[j].crs # ""
    BY <1>20, <2>1
  <2>7. CASE c[j] = c[j - 1]
    <3>1. front + 1 > c[j - 1]
      BY <1>7, <2>4, <2>5
    <3>2. ordered[front + 1].crs # old[j].crs
      BY <1>2, <2>2, <2>5, <2>6, <2>7, <3>1 DEF CursorMove
    <3>3. QED
      BY <2>2, <2>6, <3>2
  <2>8. CASE c[j] # c[j - 1]
    <3>1. c[j] \in 1..M /\ ordered[c[j]].crs = old[j].crs
      BY <1>2, <2>5, <2>8 DEF CursorMove
    <3>2. ordered[c[j]].crs = ordered[front + 1].crs
      BY <2>2, <2>6, <3>1
    <3>3. c[j] = front + 1
      BY <1>2, <2>2, <3>1, <3>2, StopsDistinct
    <3>4. QED
      BY <1>7, <2>4, <2>5, <3>3
  <2>9. QED
    BY <2>7, <2>8
<1>24. Agrees(v)
  BY <1>17, <1>18, <1>19, <1>22, <1>23 DEF Agrees
<1>25. ASSUME DarwinReached(ordered)
       PROVE  EndIsReached(v)
  <2>1. SUFFICES ASSUME arrived PROVE calls # <<>> /\ hasPassed(calls[N].crs)
    BY <1>17, <1>20 DEF EndIsReached
  <2>2. old # <<>> /\ hasPassed(old[N].crs)
    BY <1>1, <1>4, <1>8, <1>25, <2>1, ArrivedIsReached
  <2>3. N # 0
    BY <1>3, <1>4, <2>2
  <2>4. N \in 1..N /\ calls # <<>>
    BY <1>20, <2>3
  <2>5. QED
    BY <1>20, <2>2, <2>4
<1>26. ASSUME DarwinReached(ordered), RowReached(nr)
       PROVE  FrontIsReached(v)
  <2>1. PICK f : f = frontIndex(calls)
    OBVIOUS
  <2>2. SUFFICES ASSUME f # NoIndex PROVE hasBeen(calls[f].crs)
    BY <1>17, <2>1 DEF FrontIsReached
  <2>3. f \in 1..N /\ front \in 1..M /\ ordered[front].crs = calls[f].crs
    BY <1>18, <1>20, <2>1, <2>2
  <2>4. front # NoIndex
    BY <2>3 DEF NoIndex
  <2>5. hasPassed(ordered[front].crs) \/ hasBeen(ordered[front].crs)
    BY <1>2, <1>6, <1>26, <2>3, <2>4 DEF FrontOf, DarwinReached, RowReached
  <2>6. QED
    BY <2>3, <2>5 DEF hasBeen
<1>27. IsBanner(v.progress)
  BY DEF enrichWithDarwinProgress, IsBanner
<1>28. mark \in [1..Len(old) -> Marks]
  BY <1>4, <1>14 DEF IsMarking
<1>33. IsMarked(v.calls, timed)
  <2>1. Len(timed) = Len(old)
    BY <1>4, <1>30
  <2>2. QED
    BY <1>15, <1>17, <1>28, <2>1 DEF IsMarked
<1>32. QED
  BY <1>17, <1>24, <1>25, <1>26, <1>27, <1>29, <1>33

(* The run's reports are of its stops where the train has been.            *)
visitsOf(ordered, crs) == {i \in DOMAIN ordered : ordered[i].crs = crs}
visitOf(ordered, crs, front) ==
    CHOOSE i \in visitsOf(ordered, crs) : \A j \in visitsOf(ordered, crs) :
      \/ Gap(i, Max({front, 1})) < Gap(j, Max({front, 1}))
      \/ Gap(i, Max({front, 1})) = Gap(j, Max({front, 1})) /\ i <= j
frontOf(stops) == IF stops = <<>> THEN NoIndex ELSE Last(stops).runIdx
reportOf(ordered, stops, r) ==
    [runIdx |-> visitOf(ordered, r.crs, frontOf(stops)), reportedAt |-> r.at,
     lateness |-> IF r.td THEN NoTime ELSE r.lateness]
walkOn(ordered, stops, r) ==
    IF r.crs = "" \/ visitsOf(ordered, r.crs) = {} \/ visitOf(ordered, r.crs, frontOf(stops)) < frontOf(stops)
    THEN stops ELSE Append(stops, reportOf(ordered, stops, r))
Heard(ordered) == {t \in [runIdx : 1..Len(ordered), reportedAt : Int, lateness : Int] :
                     wasThere(<<ordered[t.runIdx].crs, t.reportedAt>>)}

LEMMA VisitIsOne ==
    ASSUME NEW X, NEW ordered \in Seq(X), NEW crs, NEW front \in 0..Len(ordered),
           visitsOf(ordered, crs) # {}
    PROVE  visitOf(ordered, crs, front) \in 1..Len(ordered) /\ ordered[visitOf(ordered, crs, front)].crs = crs
<1>1. PICK M \in Nat : M = Len(ordered) /\ DOMAIN ordered = 1..M
  BY SeqFacts
<1>2. PICK visits : visits = visitsOf(ordered, crs)
  OBVIOUS
<1>3. visits \subseteq 1..M /\ \A i \in visits : ordered[i].crs = crs
  BY <1>1, <1>2 DEF visitsOf
<1>4. visits \in SUBSET Nat /\ \A i \in visits : i \in Int
  BY <1>1, <1>3
<1>5. PICK near \in Int : near = Max({front, 1})
  <2>1. PICK n \in Nat : n = M + 1
    BY <1>1
  <2>2. {front, 1} \in SUBSET (0..n) /\ {front, 1} # {}
    BY <1>1, <2>1
  <2>3. Max({front, 1}) \in {front, 1}
    BY <2>2, MaxIsLargest
  <2>4. QED
    BY <1>1, <2>3
<1>6. PICK f : f = [i \in visits |-> Gap(i, near)]
  OBVIOUS
<1>7. f \in [visits -> Nat]
  <2>1. \A i \in visits : Gap(i, near) \in Nat
    BY <1>4, GapIsNat
  <2>2. QED
    BY <1>6, <2>1
<1>8. \E i \in visits : \A j \in visits : f[i] < f[j] \/ (f[i] = f[j] /\ i <= j)
  BY <1>2, <1>4, <1>7, NearestExists
<1>9. \E i \in visits : \A j \in visits : Gap(i, near) < Gap(j, near) \/ (Gap(i, near) = Gap(j, near) /\ i <= j)
  BY <1>6, <1>8
<1>10. visitOf(ordered, crs, front) =
         CHOOSE i \in visits : \A j \in visits : Gap(i, near) < Gap(j, near) \/ (Gap(i, near) = Gap(j, near) /\ i <= j)
  BY <1>2, <1>5 DEF visitOf
<1>11. visitOf(ordered, crs, front) \in visits
  BY <1>9, <1>10
<1>12. QED
  BY <1>1, <1>3, <1>11

LEMMA WalkOnHeard ==
    ASSUME NEW X, NEW ordered \in Seq(X), NEW stops \in Seq(Heard(ordered)),
           NEW r \in Entry, wasThere(<<r.crs, r.at>>)
    PROVE  walkOn(ordered, stops, r) \in Seq(Heard(ordered))
<1>1. PICK M \in Nat : M = Len(ordered)
  OBVIOUS
<1>2. PICK front : front = frontOf(stops)
  OBVIOUS
<1>3. front \in 0..M
  <2>1. CASE stops = <<>>
    BY <1>1, <1>2, <2>1 DEF frontOf, NoIndex
  <2>2. CASE stops # <<>>
    <3>1. Len(stops) \in 1..Len(stops) /\ Last(stops) = stops[Len(stops)]
      BY <2>2 DEF Last
    <3>2. Last(stops) \in Heard(ordered)
      BY <3>1
    <3>3. Last(stops).runIdx \in 1..M
      BY <1>1, <3>2 DEF Heard
    <3>4. QED
      BY <1>1, <1>2, <2>2, <3>3 DEF frontOf
  <2>3. QED
    BY <2>1, <2>2
<1>4. CASE r.crs = "" \/ visitsOf(ordered, r.crs) = {} \/ visitOf(ordered, r.crs, front) < front
  BY <1>2, <1>4 DEF walkOn
<1>5. CASE ~(r.crs = "" \/ visitsOf(ordered, r.crs) = {} \/ visitOf(ordered, r.crs, front) < front)
  <2>1. PICK crs : crs = r.crs
    OBVIOUS
  <2>2. PICK x : x = visitOf(ordered, crs, front)
    OBVIOUS
  <2>3. x \in 1..M /\ ordered[x].crs = crs
    BY <1>1, <1>3, <1>5, <2>1, <2>2, VisitIsOne
  <2>4. PICK late \in Int : late = (IF r.td THEN NoTime ELSE r.lateness)
    <3>1. NoTime \in Int
      BY DEF NoTime
    <3>2. r.lateness \in Int
      BY DEF Entry
    <3>3. QED
      BY <3>1, <3>2
  <2>5. PICK time \in Int : time = r.at
    BY DEF Entry
  <2>6. PICK t : t = [runIdx |-> x, reportedAt |-> time, lateness |-> late]
    OBVIOUS
  <2>7. t = reportOf(ordered, stops, r)
    BY <1>2, <2>1, <2>2, <2>4, <2>5, <2>6 DEF reportOf
  <2>8. t \in [runIdx : 1..M, reportedAt : Int, lateness : Int] /\ t.runIdx = x /\ t.reportedAt = r.at
    BY <2>3, <2>5, <2>6
  <2>9. t \in Heard(ordered)
    BY <1>1, <2>1, <2>3, <2>8 DEF Heard
  <2>10. walkOn(ordered, stops, r) = Append(stops, t)
    BY <1>2, <1>5, <2>7 DEF walkOn
  <2>11. QED
    BY <2>9, <2>10
<1>6. QED
  BY <1>4, <1>5

LEMMA TrustIsHeard ==
    ASSUME TablesInv, NEW X, NEW ordered \in Seq(X), NEW rid, NEW when
    PROVE  HeardOn(trustProgressForRid(rid, history, ordered, when), ordered)
<1>1. PICK I : I = {i \in DOMAIN history : history[i].rid = rid /\ isFresh(history[i], when)}
  OBVIOUS
<1>2. PICK rows : rows = Selected(history, I)
  OBVIOUS
<1>3. history \in Seq(Entry)
  BY DEF TablesInv
<1>4. rows \in Seq(Entry)
  BY <1>2, <1>3, SelectedIndices
<1>5. PICK N \in Nat : N = Len(rows)
  BY <1>4
<1>6. \A n \in 1..N : rows[n] \in Entry /\ wasThere(<<rows[n].crs, rows[n].at>>)
  <2>1. PICK f : IsSelection(f, rows, history, I, Len(history))
    BY <1>2, <1>3, SelectedIndices
  <2>2. \A n \in 1..N : rows[n] \in Entry
    BY <1>4, <1>5
  <2>3. \A n \in 1..N : f[n] \in DOMAIN history /\ rows[n] = history[f[n]]
    BY <1>1, <1>5, <2>1 DEF IsSelection
  <2>4. \A n \in 1..N : <<rows[n].crs, rows[n].at>> \in heardAt
    BY <2>3 DEF heardAt
  <2>5. QED
    BY <2>2, <2>4 DEF TablesInv
<1>7. PICK T : T = Seq(Heard(ordered))
  OBVIOUS
<1> DEFINE step == [p \in (1..N) \X T |-> walkOn(ordered, p[2], rows[p[1]])]
           body(f) == [n \in 0..N |-> IF n = 0 THEN <<>> ELSE walkOn(ordered, f[n - 1], rows[n])]
           out == CHOOSE f : f = body(f)
<1>8. \A n \in 1..N : \A stops \in T : walkOn(ordered, stops, rows[n]) \in T
  BY <1>6, <1>7, WalkOnHeard
<1>9. step \in [(1..N) \X T -> T]
  <2> SUFFICES ASSUME NEW p \in (1..N) \X T PROVE walkOn(ordered, p[2], rows[p[1]]) \in T
    OBVIOUS
  <2>1. p[1] \in 1..N /\ p[2] \in T
    OBVIOUS
  <2>2. QED
    BY <1>8, <2>1
<1>10. PICK f : IsWalk(f, N, T, <<>>, step)
  <2> HIDE DEF step
  <2>1. <<>> \in T
    BY <1>7
  <2>2. QED
    BY <1>9, <2>1, PrefixFunction
<1>11. \A n \in 1..N : f[n] = walkOn(ordered, f[n - 1], rows[n])
  <2> SUFFICES ASSUME NEW n \in 1..N PROVE f[n] = walkOn(ordered, f[n - 1], rows[n])
    OBVIOUS
  <2>1. n - 1 \in 0..N
    OBVIOUS
  <2>2. f[n - 1] \in T
    BY <1>10, <2>1 DEF IsWalk
  <2>3. <<n, f[n - 1]>> \in (1..N) \X T
    BY <2>2
  <2>4. step[<<n, f[n - 1]>>] = walkOn(ordered, f[n - 1], rows[n])
    BY <2>3
  <2> HIDE DEF step
  <2>5. QED
    BY <1>10, <2>4 DEF IsWalk
<1>12. f = body(f)
  <2>1. \A n \in 0..N : n # 0 => n \in 1..N
    OBVIOUS
  <2>2. \A n \in 0..N : f[n] = IF n = 0 THEN <<>> ELSE walkOn(ordered, f[n - 1], rows[n])
    <3>1. f[0] = <<>>
      BY <1>10 DEF IsWalk
    <3>2. QED
      BY <1>11, <2>1, <3>1
  <2>3. f = [n \in 0..N |-> f[n]]
    BY <1>10 DEF IsWalk
  <2>4. QED
    BY <2>2, <2>3
<1>13. out = body(out)
  BY <1>12
<1>14. trustProgressForRid(rid, history, ordered, when) = out[N]
  BY <1>1, <1>2, <1>5 DEF trustProgressForRid, walkOn, reportOf, frontOf, visitOf, visitsOf
<1> HIDE DEF out
<1>15. /\ out[0] = <<>>
       /\ \A n \in 1..N : out[n] = walkOn(ordered, out[n - 1], rows[n])
  <2>1. 0 \in 0..N /\ \A n \in 1..N : n \in 0..N /\ n # 0
    OBVIOUS
  <2>2. \A n \in 0..N : out[n] = IF n = 0 THEN <<>> ELSE walkOn(ordered, out[n - 1], rows[n])
    BY <1>13
  <2> HIDE DEF body
  <2>3. QED
    BY <2>1, <2>2
<1> DEFINE S == {n \in 0..N : out[n] \in T}
<1>16. 0 \in S
  <2>1. 0 \in 0..N
    OBVIOUS
  <2>2. out[0] \in T
    BY <1>7, <1>15
  <2>3. QED
    BY <2>1, <2>2
<1>17. \A n \in 1..N : n - 1 \in S => n \in S
  <2> SUFFICES ASSUME NEW n \in 1..N, n - 1 \in S PROVE n \in S
    OBVIOUS
  <2>1. n \in 0..N /\ out[n - 1] \in T
    OBVIOUS
  <2>2. QED
    BY <1>8, <1>15, <2>1
<1> HIDE DEF S
<1>18. \A n \in 0..N : n \in S
  BY <1>16, <1>17, PrefixInduction
<1>19. out[N] \in Seq(Heard(ordered))
  BY <1>7, <1>18 DEF S
<1>20. \A k \in 1..Len(out[N]) : /\ out[N][k].runIdx \in 1..Len(ordered) /\ out[N][k].reportedAt \in Int
                                 /\ wasThere(<<ordered[out[N][k].runIdx].crs, out[N][k].reportedAt>>)
  <2>1. PICK heard : heard = Heard(ordered)
    OBVIOUS
  <2>2. PICK t : t = out[N] /\ t \in Seq(heard)
    BY <1>19, <2>1
  <2>3. \A k \in 1..Len(t) : t[k] \in heard
    BY <2>2
  <2>4. \A h \in heard : /\ h.runIdx \in 1..Len(ordered) /\ h.reportedAt \in Int
                          /\ wasThere(<<ordered[h.runIdx].crs, h.reportedAt>>)
    BY <2>1 DEF Heard
  <2>5. QED
    BY <2>2, <2>3, <2>4
<1>21. QED
  BY <1>14, <1>19, <1>20 DEF HeardOn

(* The row that is read for the run is of where the train has been.        *)
LEMMA RowIsReached ==
    ASSUME PositionsInv, NEW rid, rid # NoRid, NEW headcode, NEW routeCrs, NEW when
    PROVE  RowReached(nrPositionForRid(rid, headcode, routeCrs, positions, when))
<1> DEFINE own == {r \in positions : r.rid = rid /\ isFresh(r, when)}
           td == {r \in positions : r.td /\ r.headcode = headcode /\ isFresh(r, when)}
           latest == CHOOSE r \in own : \A q \in own : q.at < r.at \/ (q.at = r.at /\ (r.td \/ ~q.td))
           any == CHOOSE r \in td : TRUE
<1>1. PICK nr : nr = nrPositionForRid(rid, headcode, routeCrs, positions, when)
  OBVIOUS
<1>2. \/ own # {} /\ nr.crs = latest.crs
      \/ td # {} /\ nr.crs = any.crs
      \/ nr.crs = ""
  BY <1>1 DEF nrPositionForRid, NoRow
<1>3. own # {} => latest \in positions
  <2> SUFFICES ASSUME own # {} PROVE latest \in own
    OBVIOUS
  <2>1. own \subseteq {r \in positions : r.rid = Ours}
    BY DEF PositionsInv, RowInv
  <2>2. \E r \in own : \A q \in own : q.at < r.at \/ (q.at = r.at /\ (r.td \/ ~q.td))
    <3> HIDE DEF own
    <3>1. QED
      BY <2>1, NewestOf
  <2> HIDE DEF own
  <2>3. QED
    BY <2>2
<1>4. td # {} => any \in positions
  OBVIOUS
<1>5. \A r \in positions : hasBeen(r.crs)
  BY DEF PositionsInv, RowInv
<1> HIDE DEF own, td, latest, any
<1>6. QED
  BY <1>1, <1>2, <1>3, <1>4, <1>5 DEF RowReached

(* The describer's view without Darwin.                                    *)
innerStops(calls) ==
    {[index |-> i, crs |-> calls[i].crs, scheduledMs |-> calls[i].scheduledIso] :
       i \in {j \in DOMAIN calls : calls[j].crs # "" /\ 1 < j /\ j < Len(calls)}}
stopsAt(r, stops) == {s \in stops : s.crs = r.crs /\ s.scheduledMs # NoTime}
visitAt(r, stops) ==
    CHOOSE s \in stopsAt(r, stops) : \A u \in stopsAt(r, stops) :
      \/ Gap(r.at, s.scheduledMs) < Gap(r.at, u.scheduledMs)
      \/ Gap(r.at, s.scheduledMs) = Gap(r.at, u.scheduledMs) /\ s.index <= u.index

LEMMA VisitAtIsOne ==
    ASSUME NEW calls \in Seq(Call), NEW r, r.at \in Int, stopsAt(r, innerStops(calls)) # {}
    PROVE  visitAt(r, innerStops(calls)) \in stopsAt(r, innerStops(calls))
<1>1. PICK N \in Nat : N = Len(calls) /\ DOMAIN calls = 1..N
  BY SeqFacts
<1>2. \A i \in 1..N : calls[i].scheduledIso \in Int
  <2>1. \A c \in Call : c.scheduledIso \in Int
    BY DEF Call
  <2>2. \A i \in 1..N : calls[i] \in Call
    BY <1>1
  <2>3. QED
    BY <2>1, <2>2
<1>3. PICK here : here = stopsAt(r, innerStops(calls))
  OBVIOUS
<1> DEFINE stop(i) == [index |-> i, crs |-> calls[i].crs, scheduledMs |-> calls[i].scheduledIso]
           I == {i \in 1..N : stop(i) \in here}
<1>4. here = {stop(i) : i \in I}
  BY <1>1, <1>3 DEF stopsAt, innerStops
<1>5. \A i \in 1..N : stop(i).index = i /\ stop(i).scheduledMs = calls[i].scheduledIso
  OBVIOUS
<1> HIDE DEF stop
<1>6. I \in SUBSET Nat /\ I # {}
  <2>1. I \subseteq 1..N
    OBVIOUS
  <2>2. 1..N \subseteq Nat
    OBVIOUS
  <2>3. I # {}
    BY <1>3, <1>4
  <2>4. QED
    BY <2>1, <2>2, <2>3
<1>7. PICK at0 \in Int : at0 = r.at
  OBVIOUS
<1>8. PICK f : f = [i \in I |-> Gap(at0, calls[i].scheduledIso)]
  OBVIOUS
<1>9. f \in [I -> Nat]
  <2>1. \A i \in I : Gap(at0, calls[i].scheduledIso) \in Nat
    BY <1>2, GapIsNat
  <2>2. QED
    BY <1>8, <2>1
<1>10. PICK i \in I : \A j \in I : f[i] < f[j] \/ (f[i] = f[j] /\ i <= j)
  <2> HIDE DEF I
  <2>1. QED
    BY <1>6, <1>9, NearestExists
<1>11. \A j \in I : \/ Gap(at0, stop(i).scheduledMs) < Gap(at0, stop(j).scheduledMs)
                    \/ Gap(at0, stop(i).scheduledMs) = Gap(at0, stop(j).scheduledMs) /\ stop(i).index <= stop(j).index
  BY <1>5, <1>8, <1>10
<1>12. stop(i) \in here
  OBVIOUS
<1>13. \E s \in here : \A u \in here :
         \/ Gap(at0, s.scheduledMs) < Gap(at0, u.scheduledMs)
         \/ Gap(at0, s.scheduledMs) = Gap(at0, u.scheduledMs) /\ s.index <= u.index
  BY <1>4, <1>11, <1>12
<1>14. visitAt(r, innerStops(calls)) =
         CHOOSE s \in here : \A u \in here :
           \/ Gap(at0, s.scheduledMs) < Gap(at0, u.scheduledMs)
           \/ Gap(at0, s.scheduledMs) = Gap(at0, u.scheduledMs) /\ s.index <= u.index
  BY <1>3, <1>7 DEF visitAt
<1>15. QED
  BY <1>3, <1>13, <1>14

LEMMA MatchIsReported ==
    ASSUME NEW calls \in Seq(Call), NEW rows, \A r \in rows : r.at \in Int,
           NEW match, match = plausibleTdMatch(rows, innerStops(calls)), match # NoIndex
    PROVE  match \in 1..Len(calls) /\ \E r \in rows : calls[match].crs = r.crs
<1>1. PICK N \in Nat : N = Len(calls) /\ DOMAIN calls = 1..N
  BY SeqFacts
<1>2. PICK stops : stops = innerStops(calls)
  OBVIOUS
<1> DEFINE plausible == {r \in rows : /\ r.headcode # "" /\ r.crs # "" /\ stopsAt(r, stops) # {}
                                      /\ Gap(r.at, visitAt(r, stops).scheduledMs) <= Tolerance}
           indices == {visitAt(r, stops).index : r \in plausible}
<1>3. match = IF Cardinality({r.headcode : r \in plausible}) # 1 THEN NoIndex ELSE Max(indices)
  <2>1. plausibleTdMatch(rows, stops) =
          IF Cardinality({r.headcode : r \in plausible}) # 1 THEN NoIndex ELSE Max(indices)
    BY DEF plausibleTdMatch, stopsAt, visitAt
  <2> HIDE DEF plausible, indices
  <2>2. QED
    BY <1>2, <2>1
<1>4. \A r \in plausible : visitAt(r, stops) \in stopsAt(r, stops)
  BY <1>2, VisitAtIsOne
<1>5. \A r \in rows : \A s \in stopsAt(r, stops) : s.index \in 1..N /\ calls[s.index].crs = r.crs
  <2> SUFFICES ASSUME NEW r \in rows, NEW s \in stopsAt(r, stops)
               PROVE  s.index \in 1..N /\ calls[s.index].crs = r.crs
    OBVIOUS
  <2>1. s \in innerStops(calls) /\ s.crs = r.crs
    BY <1>2 DEF stopsAt
  <2>2. PICK i \in 1..N : s = [index |-> i, crs |-> calls[i].crs, scheduledMs |-> calls[i].scheduledIso]
    BY <1>1, <2>1 DEF innerStops
  <2>3. s.index = i /\ s.crs = calls[i].crs
    BY <2>2
  <2>4. QED
    BY <2>1, <2>3
<1>6. \A r \in plausible : r \in rows
  OBVIOUS
<1> HIDE DEF plausible
<1>7. plausible # {}
  <2> SUFFICES ASSUME plausible = {} PROVE FALSE
    OBVIOUS
  <2>1. {r.headcode : r \in plausible} = {}
    OBVIOUS
  <2>2. Cardinality({r.headcode : r \in plausible}) = 0
    BY <2>1, FS_EmptySet
  <2>3. QED
    BY <1>3, <2>2
<1>8. \A r \in plausible : visitAt(r, stops).index \in 1..N /\ calls[visitAt(r, stops).index].crs = r.crs
  BY <1>4, <1>5, <1>6
<1>9. indices \in SUBSET (0..N) /\ indices # {}
  <2>1. indices \subseteq 1..N
    BY <1>8
  <2>2. 1..N \subseteq 0..N
    OBVIOUS
  <2>3. QED
    BY <1>7, <2>1, <2>2
<1>10. Max(indices) \in indices
  <2> HIDE DEF indices
  <2>1. QED
    BY <1>9, MaxIsLargest
<1>11. match \in indices
  BY <1>3, <1>10
<1>12. PICK r \in plausible : match = visitAt(r, stops).index
  BY <1>11
<1>13. QED
  BY <1>1, <1>6, <1>8, <1>12

(* It agrees with itself too, and is of where a row has the train.         *)
LEMMA DescriberShown ==
    ASSUME ClockInv, PositionsInv, NEW old, IsCalls(old), NEW headcode, NEW when,
           NEW v, v = enrichWithNrProgress(old, headcode, positions, when), v # NoMatch
    PROVE  Agrees(v) /\ FrontIsReached(v) /\ SameCalls(v.calls, old) /\ IsBanner(v.progress)
<1>1. old \in Seq(Call)
  BY DEF IsCalls
<1>2. PICK N \in Nat : N = Len(old) /\ DOMAIN old = 1..N
  BY <1>1, SeqFacts
<1>3. PICK stops : stops = innerStops(old)
  OBVIOUS
<1>4. PICK rows : rows = {r \in positions : /\ r.td /\ isFresh(r, when)
                                            /\ r.crs \in {s.crs : s \in stops}
                                            /\ headcode # "" => r.headcode = headcode}
  OBVIOUS
<1>5. PICK match : match = plausibleTdMatch(rows, stops)
  OBVIOUS
<1> DEFINE mark(i) == IF i < match THEN "departed" ELSE IF i = match THEN "current" ELSE "upcoming"
           marks == [i \in 1..N |-> mark(i)]
           banner == [tracking |-> TRUE, positionState |-> "tracked",
                      arrived |-> match = Len(old), networkRail |-> TRUE,
                      lastStop |-> old[match].name,
                      nextStop |-> IF match < Len(old) THEN old[match + 1].name ELSE "",
                      delay |-> NoTime]
<1>6. enrichWithNrProgress(old, headcode, positions, when) =
        IF match = NoIndex THEN NoMatch ELSE [calls |-> withProgress(old, marks), progress |-> banner]
  BY <1>2, <1>3, <1>4, <1>5 DEF enrichWithNrProgress, innerStops
<1>7. match # NoIndex /\ v.calls = withProgress(old, marks) /\ v.progress = banner
  <2> HIDE DEF marks, banner
  <2>1. match # NoIndex
    BY <1>6
  <2>2. v = [calls |-> withProgress(old, marks), progress |-> banner]
    BY <1>6, <2>1
  <2>3. QED
    BY <2>1, <2>2
<1>8. match \in 1..N /\ \E r \in rows : old[match].crs = r.crs
  <2>1. \A r \in rows : r.at \in Int
    BY <1>4 DEF PositionsInv, RowInv
  <2>2. QED
    BY <1>1, <1>2, <1>3, <1>5, <1>7, <2>1, MatchIsReported
<1>9. hasBeen(old[match].crs)
  BY <1>4, <1>8 DEF PositionsInv, RowInv
<1>10. PICK calls : calls = withProgress(old, marks)
  OBVIOUS
<1>11. marks \in [1..N -> Marks]
  BY DEF Marks
<1>12. v.calls = calls /\ v.progress.lastStop = old[match].name
  <2>1. banner.lastStop = old[match].name
    OBVIOUS
  <2> HIDE DEF banner, marks
  <2>2. QED
    BY <1>7, <1>10, <2>1
<1>13. v.progress.nextStop = IF match < N THEN old[match + 1].name ELSE ""
  <2>1. banner.nextStop = IF match < Len(old) THEN old[match + 1].name ELSE ""
    OBVIOUS
  <2> HIDE DEF banner, marks
  <2>2. QED
    BY <1>2, <1>7, <2>1
<1>14. IsBanner(v.progress)
  BY <1>7 DEF IsBanner
<1>15. \A i \in 1..N : marks[i] = mark(i)
  OBVIOUS
<1> HIDE DEF banner, marks
<1>16. SameCalls(calls, old) /\ \A i \in 1..N : calls[i].progress = mark(i)
  BY <1>1, <1>2, <1>10, <1>11, <1>15, MarkedCalls
<1>17. IsCalls(calls)
  BY <1>16, CallsStay
<1>18. calls \in Seq(Call) /\ Len(calls) = N /\ DOMAIN calls = 1..N
  BY <1>2, <1>16, SeqFacts DEF SameCalls
<1>19. \A i \in 1..N : calls[i].name = old[i].name /\ calls[i].crs = old[i].crs
  BY <1>2, <1>16 DEF SameCalls
<1>20. \A i \in 1..N : calls[i].name # ""
  BY <1>17, <1>18, CallFacts
<1>21. RunOn(calls)
  <2> SUFFICES ASSUME NEW i \in 1..N, NEW j \in 1..N, i < j
               PROVE  rank(mark(i)) <= rank(mark(j))
    BY <1>16, <1>18 DEF RunOn
  <2>1. CASE j < match
    <3>1. mark(i) = "departed" /\ mark(j) = "departed"
      BY <1>8, <2>1
    <3> HIDE DEF mark
    <3>2. rank(mark(i)) = 1 /\ rank(mark(j)) = 1
      BY <3>1, RankIs
    <3>3. QED
      BY <3>2
  <2>2. CASE j = match
    <3>1. mark(i) = "departed" /\ mark(j) = "current"
      BY <1>8, <2>2
    <3> HIDE DEF mark
    <3>2. rank(mark(i)) = 1 /\ rank(mark(j)) = 2
      BY <3>1, RankIs
    <3>3. QED
      BY <3>2
  <2>3. CASE match < j
    <3>1. mark(j) = "upcoming"
      BY <1>8, <2>3
    <3>2. mark(i) \in Marks
      BY DEF Marks
    <3> HIDE DEF mark
    <3>3. rank(mark(j)) = 3 /\ rank(mark(i)) \in 0..3
      BY <3>1, <3>2, RankIs
    <3>4. QED
      BY <3>3
  <2>4. QED
    BY <1>8, <2>1, <2>2, <2>3
<1>22. \A i \in 1..N : mark(i) = "current" <=> i = match
  BY <1>8
<1>23. match < N => match + 1 \in 1..N /\ mark(match + 1) = "upcoming"
  BY <1>8
<1> HIDE DEF mark
<1>24. PICK f : f = frontIndex(calls)
  OBVIOUS
<1>25. f = match
  <2>1. \/ f = NoIndex /\ \A i \in 1..N : calls[i].progress # "current"
        \/ f \in 1..N /\ calls[f].progress = "current"
    BY <1>18, <1>24, FrontIndexIs
  <2>2. QED
    BY <1>8, <1>16, <1>22, <2>1
<1>26. FrontIsLast(v) /\ FrontIsReached(v)
  BY <1>8, <1>9, <1>12, <1>19, <1>24, <1>25 DEF FrontIsLast, FrontIsReached
<1>27. NextIsAhead(v)
  <2> SUFFICES ASSUME NEW j \in 1..N, calls[j].name = v.progress.nextStop
               PROVE  \E k \in 1..N : calls[k].name = v.progress.nextStop /\ calls[k].progress # "departed"
    BY <1>12, <1>18 DEF NextIsAhead
  <2>1. match < N
    BY <1>13, <1>20
  <2>2. match + 1 \in 1..N /\ mark(match + 1) = "upcoming"
    BY <1>23, <2>1
  <2>3. calls[match + 1].name = v.progress.nextStop /\ calls[match + 1].progress # "departed"
    BY <1>13, <1>16, <1>19, <2>1, <2>2
  <2>4. QED
    BY <2>2, <2>3
<1>28. QED
  BY <1>12, <1>16, <1>17, <1>21, <1>26, <1>27, <1>14 DEF Agrees

-----------------------------------------------------------------------------
(* The page, load by load.                                                 *)

LEMMA PlacesStep ==
    ASSUME WorldInv, [Next]_vars
    PROVE  /\ route' = route /\ known' = known /\ (circular' <=> circular)
           /\ \A crs : hasPassed(crs) => hasPassed(crs)'
           /\ \A crs : hasBeen(crs) => hasBeen(crs)'
           /\ \A c : wasThere(c) => wasThere(c)'
           /\ scenario' = scenario /\ acted \subseteq acted'
           /\ at \in Nat /\ at' \in Nat /\ at <= at' /\ \A i \in 1..at : passed'[i] = passed[i]
<1>1. ClockInv
  BY DEF WorldInv
<1>2. scenario' = scenario /\ strays \subseteq strays' /\ acted \subseteq acted' /\
      (passed' = passed \/ \E time \in Int : passed' = Append(passed, time))
  <2>1. CASE Move
    <3>1. PICK j, crs, time, late, trust, td, rows, one, two :
            IsMove(j, crs, time, late, trust, td, rows, one, two)
      BY <1>1, <2>1, MoveLeaves
    <3>2. /\ time \in Int /\ passed' = Append(passed, time) /\ scenario' = scenario /\ strays' = strays
          /\ acted \subseteq acted'
      BY <3>1 DEF IsMove
    <3>3. QED
      BY <3>2
  <2>2. CASE Held
    BY <2>2 DEF Held
  <2>3. CASE Deactivate
    BY <2>3 DEF Deactivate
  <2>4. CASE \E crs \in StrayAt \cap {p.crs : p \in ToSet(route)}, headcode \in {Headcode, "2B02"} :
               Stray(crs, headcode)
    <3>1. PICK crs, headcode : Stray(crs, headcode)
      BY <2>4
    <3>2. QED
      BY <3>1 DEF Stray
  <2>5. CASE LoadRuns \/ LoadHistory \/ LoadPosition \/ LoadDescriber
    BY <2>5 DEF LoadRuns, LoadHistory, LoadPosition, LoadDescriber, world
  <2>6. CASE UNCHANGED vars
    BY <2>6 DEF vars, world
  <2>7. QED
    BY <2>1, <2>2, <2>3, <2>4, <2>5, <2>6 DEF Next
<1>3. /\ route' = route /\ \A crs : hasPassed(crs) => hasPassed(crs)'
      /\ \A c : wasThere(c) => wasThere(c)'
      /\ at' \in Nat /\ at <= at' /\ \A i \in 1..at : passed'[i] = passed[i]
  BY <1>1, <1>2, PlacesStay
<1>4. known' = known
  BY <1>3 DEF known
<1>5. circular' <=> circular
  BY <1>3 DEF circular
<1>6. \A crs : hasBeen(crs) => hasBeen(crs)'
  BY <1>2, <1>3 DEF hasBeen
<1>7. at \in Nat
  BY <1>1 DEF ClockInv, at
<1>8. QED
  BY <1>2, <1>3, <1>4, <1>5, <1>6, <1>7

(* What was read or shown stays true of a train that only moves on.        *)
LEMMA ShownStays ==
    ASSUME WorldInv, [Next]_vars
    PROVE  /\ \A calls : IsCalls(calls) => IsCalls(calls)'
           /\ \A s : IsRunStops(s) => IsRunStops(s)'
           /\ \A s : DarwinReached(s) => DarwinReached(s)'
           /\ \A trust, s : HeardOn(trust, s) => HeardOn(trust, s)'
           /\ \A v : Agrees(v) => Agrees(v)'
           /\ \A v : FrontIsReached(v) => FrontIsReached(v)'
           /\ \A v : EndIsReached(v) => EndIsReached(v)'
<1>1. /\ route' = route /\ known' = known /\ (circular' <=> circular)
      /\ \A crs : hasPassed(crs) => hasPassed(crs)'
      /\ \A crs : hasBeen(crs) => hasBeen(crs)'
      /\ \A c : wasThere(c) => wasThere(c)'
  BY PlacesStep
<1>2. \A calls : IsCalls(calls) => IsCalls(calls)'
  BY <1>1 DEF IsCalls, IsOurCall
<1>3. \A s : IsRunStops(s) => IsRunStops(s)'
  BY <1>1 DEF IsRunStops
<1>4. \A s : DarwinReached(s) => DarwinReached(s)'
  BY <1>1 DEF DarwinReached
<1>5. \A trust, s : HeardOn(trust, s) => HeardOn(trust, s)'
  BY <1>1 DEF HeardOn
<1>6. \A v : Agrees(v) => Agrees(v)'
  BY <1>1, <1>2 DEF Agrees
<1>7. \A v : FrontIsReached(v) => FrontIsReached(v)'
  BY <1>1 DEF FrontIsReached
<1>8. \A v : EndIsReached(v) => EndIsReached(v)'
  BY <1>1 DEF EndIsReached
<1>9. QED
  BY <1>2, <1>3, <1>4, <1>5, <1>6, <1>7, <1>8

(* What Darwin's side has told the page, and what the page shows.          *)
DarwinInv(d) ==
    /\ Agrees(d) /\ IsBanner(d.progress) /\ d.progress.tracking \in BOOLEAN
    /\ d.progress.tracking <=> d.rid # NoRid
    /\ d.rid = NoRid => d.progress.arrived = FALSE
    /\ d.rid \in {Ours, NoRid} => FrontIsReached(d)
    /\ d.rid = Ours => EndIsReached(d)
ShownInv(p) ==
    /\ Agrees(p)
    /\ p.rid \in {Ours, NoRid} => FrontIsReached(p)
    /\ p.rid = Ours => EndIsReached(p)

LEMMA SameShown ==
    ASSUME NEW v, NEW w, w.calls = v.calls, w.progress.lastStop = v.progress.lastStop,
           w.progress.nextStop = v.progress.nextStop
    PROVE  /\ Agrees(v) => Agrees(w)
           /\ FrontIsReached(v) => FrontIsReached(w)
BY DEF Agrees, FrontIsLast, NextIsAhead, FrontIsReached

LEMMA BannerFields ==
    ASSUME NEW p, IsBanner(p), NEW a, NEW b
    PROVE  LET one == [p EXCEPT !.arrived = a, !.delay = b]
               two == [p EXCEPT !.tracking = a, !.positionState = b]
               three == [p EXCEPT !.delay = b]
           IN /\ one.arrived = a /\ one.lastStop = p.lastStop /\ one.nextStop = p.nextStop
              /\ two.tracking = a /\ two.arrived = p.arrived
              /\ two.lastStop = p.lastStop /\ two.nextStop = p.nextStop
              /\ three.arrived = p.arrived /\ three.lastStop = p.lastStop /\ three.nextStop = p.nextStop
BY DEF IsBanner

LEMMA PageShown ==
    ASSUME NEW d, DarwinInv(d), NEW knownRid \in {Ours, NoRid}, NEW nr,
           nr # NoMatch => /\ Agrees(nr) /\ FrontIsReached(nr) /\ IsBanner(nr.progress)
                           /\ SameCalls(nr.calls, d.calls),
           NEW p, p = enrichLiveProgress(d, knownRid, nr)
    PROVE  ShownInv(p)
<1>1. /\ Agrees(d) /\ IsBanner(d.progress) /\ d.progress.tracking \in BOOLEAN
      /\ d.progress.tracking <=> d.rid # NoRid
      /\ d.rid = NoRid => d.progress.arrived = FALSE
      /\ d.rid \in {Ours, NoRid} => FrontIsReached(d)
      /\ d.rid = Ours => EndIsReached(d)
  BY DEF DarwinInv
<1>2. PICK rid : rid = (IF d.rid # NoRid THEN d.rid ELSE knownRid)
  OBVIOUS
<1>3. PICK progress : progress = (IF d.rid = NoRid /\ knownRid # NoRid
                                  THEN [d.progress EXCEPT !.tracking = TRUE, !.positionState = "awaiting-report"]
                                  ELSE d.progress)
  OBVIOUS
<1>4. rid \in {Ours, NoRid} => d.rid \in {Ours, NoRid}
  BY <1>2
<1>5. /\ progress.lastStop = d.progress.lastStop /\ progress.nextStop = d.progress.nextStop
      /\ progress.arrived = d.progress.arrived
      /\ progress.tracking \in BOOLEAN /\ (progress.tracking <=> rid # NoRid)
  <2>1. CASE d.rid = NoRid /\ knownRid # NoRid
    <3>1. progress = [d.progress EXCEPT !.tracking = TRUE, !.positionState = "awaiting-report"]
      BY <1>3, <2>1
    <3>2. progress.tracking = TRUE /\ progress.arrived = d.progress.arrived
          /\ progress.lastStop = d.progress.lastStop /\ progress.nextStop = d.progress.nextStop
      BY <1>1, <3>1, BannerFields
    <3>3. QED
      BY <1>2, <2>1, <3>2
  <2>2. CASE ~(d.rid = NoRid /\ knownRid # NoRid)
    <3>1. progress = d.progress
      BY <1>3, <2>2
    <3>2. QED
      BY <1>1, <1>2, <2>2, <3>1
  <2>3. QED
    BY <2>1, <2>2
<1>6. PICK further : further = [nr.progress EXCEPT
                                  !.arrived = IF progress.tracking THEN progress.arrived ELSE @,
                                  !.delay = progress.delay]
  OBVIOUS
<1>7. PICK alone : alone = [nr.progress EXCEPT !.delay = progress.delay]
  OBVIOUS
<1>8. \/ nr # NoMatch /\ p = [calls |-> nr.calls, rid |-> rid, progress |-> further]
      \/ nr # NoMatch /\ ~progress.tracking /\ p = [calls |-> nr.calls, rid |-> rid, progress |-> alone]
      \/ p = [calls |-> d.calls, rid |-> rid, progress |-> progress]
  BY <1>2, <1>3, <1>6, <1>7 DEF enrichLiveProgress
<1>9. CASE nr # NoMatch /\ p = [calls |-> nr.calls, rid |-> rid, progress |-> further]
  <2>1. Agrees(nr) /\ FrontIsReached(nr) /\ IsBanner(nr.progress) /\ SameCalls(nr.calls, d.calls)
    BY <1>9
  <2>2. PICK arrived : arrived = (IF progress.tracking THEN progress.arrived ELSE nr.progress.arrived)
    OBVIOUS
  <2>3. further = [nr.progress EXCEPT !.arrived = arrived, !.delay = progress.delay]
    BY <1>6, <2>2
  <2>4. /\ further.arrived = arrived
        /\ further.lastStop = nr.progress.lastStop /\ further.nextStop = nr.progress.nextStop
    BY <2>1, <2>3, BannerFields
  <2>5. p.calls = nr.calls /\ p.rid = rid /\ p.progress = further
    BY <1>9
  <2>6. Agrees(p) /\ FrontIsReached(p)
    BY <2>1, <2>4, <2>5, SameShown
  <2>7. p.rid = Ours => EndIsReached(p)
    <3>1. SUFFICES ASSUME rid = Ours, p.progress.arrived
                   PROVE  p.calls # <<>> /\ hasPassed(p.calls[Len(p.calls)].crs)
      BY <2>5 DEF EndIsReached
    <3>2. progress.tracking
      BY <1>5, <3>1 DEF Ours, NoRid
    <3>3. d.progress.arrived
      BY <1>5, <2>2, <2>4, <2>5, <3>1, <3>2
    <3>4. d.rid = Ours
      BY <1>1, <1>2, <3>1, <3>3
    <3>5. d.calls # <<>> /\ hasPassed(d.calls[Len(d.calls)].crs)
      BY <1>1, <3>3, <3>4 DEF EndIsReached
    <3>6. d.calls \in Seq(Call)
      BY <1>1 DEF Agrees, IsCalls
    <3>7. Len(d.calls) \in 1..Len(d.calls)
      BY <3>5, <3>6
    <3>8. /\ nr.calls \in Seq(Call) /\ Len(nr.calls) = Len(d.calls)
          /\ nr.calls[Len(d.calls)].crs = d.calls[Len(d.calls)].crs
      BY <2>1, <3>7 DEF SameCalls
    <3>9. nr.calls # <<>>
      BY <3>7, <3>8
    <3>10. QED
      BY <2>5, <3>5, <3>8, <3>9
  <2>8. QED
    BY <2>6, <2>7 DEF ShownInv
<1>10. CASE nr # NoMatch /\ ~progress.tracking /\ p = [calls |-> nr.calls, rid |-> rid, progress |-> alone]
  <2>1. Agrees(nr) /\ FrontIsReached(nr) /\ IsBanner(nr.progress)
    BY <1>10
  <2>2. alone.lastStop = nr.progress.lastStop /\ alone.nextStop = nr.progress.nextStop
    BY <1>7, <2>1, BannerFields
  <2>3. p.calls = nr.calls /\ p.rid = rid /\ p.progress = alone
    BY <1>10
  <2>4. Agrees(p) /\ FrontIsReached(p)
    BY <2>1, <2>2, <2>3, SameShown
  <2>5. p.rid # Ours
    BY <1>5, <1>10, <2>3 DEF Ours, NoRid
  <2>6. QED
    BY <2>4, <2>5 DEF ShownInv
<1>11. CASE p = [calls |-> d.calls, rid |-> rid, progress |-> progress]
  <2>1. p.calls = d.calls /\ p.rid = rid /\ p.progress = progress
    BY <1>11
  <2>2. Agrees(p) /\ (FrontIsReached(d) => FrontIsReached(p))
    BY <1>1, <1>5, <2>1, SameShown
  <2>3. p.rid = Ours => EndIsReached(p)
    <3>1. SUFFICES ASSUME rid = Ours, p.progress.arrived
                   PROVE  p.calls # <<>> /\ hasPassed(p.calls[Len(p.calls)].crs)
      BY <2>1 DEF EndIsReached
    <3>2. d.progress.arrived
      BY <1>5, <2>1, <3>1
    <3>3. d.rid = Ours
      BY <1>1, <1>2, <3>1, <3>2
    <3>4. QED
      BY <1>1, <2>1, <3>2, <3>3 DEF EndIsReached
  <2>4. QED
    BY <1>1, <1>4, <2>1, <2>2, <2>3 DEF ShownInv
<1>12. QED
  BY <1>8, <1>9, <1>10, <1>11

(* Calls without marks, as a load begins with them.                        *)
NotTracked(state) ==
    [tracking |-> FALSE, positionState |-> state, arrived |-> FALSE,
     networkRail |-> FALSE, lastStop |-> "", nextStop |-> "", delay |-> NoTime]

LEMMA NotTrackedIs ==
    ASSUME NEW state
    PROVE  [NotTracking EXCEPT !.positionState = state] = NotTracked(state)
<1>1. PICK no, was, none, never : no = FALSE /\ was = "not-tracked" /\ none = "" /\ never = NoTime
  OBVIOUS
<1>2. PICK p : p = [tracking |-> no, positionState |-> was, arrived |-> no,
                    networkRail |-> no, lastStop |-> none, nextStop |-> none, delay |-> never]
  OBVIOUS
<1>3. p = NotTracking
  BY <1>1, <1>2 DEF NotTracking
<1>4. PICK q : q = [p EXCEPT !.positionState = state]
  OBVIOUS
<1>5. q = [tracking |-> no, positionState |-> state, arrived |-> no,
           networkRail |-> no, lastStop |-> none, nextStop |-> none, delay |-> never]
  BY <1>2, <1>4
<1>6. QED
  BY <1>1, <1>3, <1>4, <1>5 DEF NotTracked

LEMMA UnmarkedShown ==
    ASSUME ClockInv, NEW calls, IsCalls(calls), Unmarked(calls), NEW state, NEW rid, NEW v,
           v = [calls |-> calls, rid |-> rid, progress |-> NotTracked(state)]
    PROVE  Agrees(v) /\ FrontIsReached(v) /\ EndIsReached(v)
           /\ IsBanner(v.progress) /\ v.progress.tracking = FALSE /\ v.progress.arrived = FALSE
<1>1. /\ v.progress.tracking = FALSE /\ v.progress.arrived = FALSE
      /\ v.progress.lastStop = "" /\ v.progress.nextStop = "" /\ v.calls = calls
  BY DEF NotTracked
<1>2. IsBanner(v.progress)
  <2>1. IsBanner(NotTracked(state))
    BY DEF NotTracked, IsBanner
  <2>2. QED
    BY <2>1
<1>3. calls \in Seq(Call) /\ DOMAIN calls = 1..Len(calls)
  BY SeqFacts DEF IsCalls
<1>4. \A i \in 1..Len(calls) : calls[i].progress = ""
  BY DEF Unmarked
<1>5. frontIndex(calls) = NoIndex
  <2>1. \/ frontIndex(calls) = NoIndex
        \/ frontIndex(calls) \in 1..Len(calls) /\ calls[frontIndex(calls)].progress = "current"
    BY <1>3, FrontIndexIs
  <2>2. QED
    BY <1>4, <2>1
<1>6. RunOn(calls)
  BY <1>3, <1>4, RankIs DEF RunOn
<1>7. NextIsAhead(v)
  <2>1. \A j \in 1..Len(calls) : calls[j].name # ""
    BY CallFacts
  <2>2. QED
    BY <1>1, <1>3, <2>1 DEF NextIsAhead
<1>8. FrontIsLast(v) /\ FrontIsReached(v) /\ EndIsReached(v)
  BY <1>1, <1>5 DEF FrontIsLast, FrontIsReached, EndIsReached
<1>9. QED
  BY <1>1, <1>2, <1>6, <1>7, <1>8 DEF Agrees

(* The run a page is matched to is one of those Darwin has.                *)
LEMMA PickedIsOne ==
    ASSUME NEW candidates, NEW keys, NEW when, pickBestRun(candidates, keys, when) # NoRun
    PROVE  \E r \in candidates : r.rid = pickBestRun(candidates, keys, when)
<1> DEFINE scored == {[run |-> r, score |-> scoreRun(r.stops, keys),
                       distance |-> windowDistance(runWindow(r.stops, r.ssd), when)] : r \in candidates}
           fit == {c \in scored : isAcceptable(c.score, Cardinality(keys))}
           better(a, b) ==
             \/ a.score.matched > b.score.matched
             \/ /\ a.score.matched = b.score.matched
                /\ \/ a.distance < b.distance
                   \/ /\ a.distance = b.distance
                      /\ a.score.outOf < b.score.outOf
           top == {a \in fit : \A b \in fit : ~better(b, a)}
<1>1. pickBestRun(candidates, keys, when) =
        IF Cardinality(top) = 1 THEN (CHOOSE a \in top : TRUE).run.rid ELSE NoRun
  BY DEF pickBestRun
<1>2. \A a \in top : \E r \in candidates : a.run = r
  OBVIOUS
<1> HIDE DEF top
<1>3. Cardinality(top) = 1
  BY <1>1
<1>4. top # {}
  BY <1>3, FS_EmptySet
<1>5. PICK a \in top : a = CHOOSE x \in top : TRUE
  BY <1>4
<1>6. pickBestRun(candidates, keys, when) = a.run.rid
  BY <1>1, <1>3, <1>5
<1>7. PICK r \in candidates : a.run = r
  BY <1>2
<1>8. QED
  BY <1>6, <1>7

LEMMA RunNames ==
    ASSUME ClockInv, NEW r \in runs
    PROVE  /\ r.rid # NoRid /\ r.rid # NoRun
           /\ r.rid = Ours => r = ourRun
<1>1. CASE r = ourRun
  BY <1>1 DEF ourRun, Ours, NoRid, NoRun
<1>2. CASE \E day \in scenario.rivals : r = rival(day)
  BY <1>2 DEF rival, Ours, NoRid, NoRun
<1>3. QED
  BY <1>1, <1>2 DEF runs

LEMMA OurRunReached == ASSUME ClockInv PROVE DarwinReached(ourRun.stops)
<1>1. PICK s : s = ourRun.stops
  OBVIOUS
<1>2. IsRunStops(s)
  BY <1>1, RunStops
<1>3. Len(s) = Len(known) /\ \A k \in 1..Len(known) : s[k].crs = route[known[k]].crs
  BY <1>2 DEF IsRunStops
<1>4. \A k \in 1..Len(known) : s[k].actual # NoTime => known[k] \in 1..at
  BY <1>1, OurActuals DEF ClockInv
<1>5. \A k \in 1..Len(known) : s[k].actual # NoTime => hasPassed(s[k].crs)
  BY <1>3, <1>4 DEF hasPassed
<1>6. QED
  BY <1>1, <1>3, <1>5 DEF DarwinReached

(* What a load has read, at each of its queries.                           *)
IsLoad(l) ==
    \E calls, rid, since, ordered, trust, darwin :
      l = [calls |-> calls, rid |-> rid, since |-> since, ordered |-> ordered,
           trust |-> trust, darwin |-> darwin]
LoadInv(l) ==
    /\ IsLoad(l) /\ IsCalls(l.calls) /\ Unmarked(l.calls) /\ DarwinInv(l.darwin)
    /\ l.since \in Int
MatchedInv(l) ==
    /\ l.rid # NoRid /\ IsRunStops(l.ordered)
    /\ l.rid = Ours => DarwinReached(l.ordered)
PageInv ==
    /\ pc \in {"idle", "history", "position", "describer"}
    /\ pc # "idle" => LoadInv(load)
    /\ pc \in {"history", "position"} => MatchedInv(load)
    /\ pc = "position" => HeardOn(load.trust, load.ordered)
    /\ ShownInv(page)
ViewsInv == WorldInv /\ PageInv

LEMMA InitPage == ASSUME Init PROVE PageInv
<1>1. ClockInv
  BY InitWorld DEF WorldInv
<1>2. IsCalls(<<>>) /\ Unmarked(<<>>)
  BY DEF IsCalls, Unmarked
<1>3. page = [calls |-> <<>>, rid |-> NoRid, progress |-> NotTracked("not-tracked")]
  <2>1. NotTracking = NotTracked("not-tracked")
    BY DEF NotTracking, NotTracked
  <2>2. page = [calls |-> <<>>, progress |-> NotTracking, rid |-> NoRid]
    BY DEF Init, Nothing
  <2>3. QED
    BY <2>1, <2>2
<1>4. PICK p : p = page
  OBVIOUS
<1>5. Agrees(p) /\ FrontIsReached(p) /\ EndIsReached(p)
  BY <1>1, <1>2, <1>3, <1>4, UnmarkedShown
<1>6. ShownInv(page)
  BY <1>4, <1>5 DEF ShownInv
<1>7. QED
  BY <1>6 DEF Init, PageInv

LEMMA LoadRunsPage == ASSUME ViewsInv, LoadRuns PROVE PageInv'
<1> DEFINE calls == IF scenario.byRid THEN fetchCallsByRid(ourRun) ELSE parseCallingPattern(boardService).calls
           keys == callKeys(calls)
           candidates == loadCandidateRuns({k[1] : k \in keys}, runs, now)
           rid == pickBestRun(candidates, keys, now)
           picked == (CHOOSE r \in candidates : r.rid = rid).stops
           ordered == IF rid = NoRun THEN <<>> ELSE withCrs(orderRunStops(picked))
           darwin == [calls |-> calls, rid |-> NoRid,
                      progress |-> [NotTracking EXCEPT !.positionState = "awaiting-report"]]
           new == [calls |-> calls, rid |-> IF rid = NoRun THEN NoRid ELSE rid, since |-> now,
                   ordered |-> ordered, trust |-> <<>>, darwin |-> darwin]
<1>1. load' = new /\ pc' = (IF rid = NoRun THEN "describer" ELSE "history") /\ page' = page
  BY DEF LoadRuns
<1>2. WorldInv /\ ClockInv /\ [Next]_vars /\ now \in Int
  BY DEF ViewsInv, WorldInv, ClockInv, Next
<1>3. IsCalls(calls) /\ Unmarked(calls)
  BY <1>2, RidCallsAre, BoardCallsAre
<1>4. \A r \in candidates : r \in runs
  BY DEF loadCandidateRuns
<1>5. new.calls = calls /\ new.rid = (IF rid = NoRun THEN NoRid ELSE rid) /\ new.ordered = ordered
      /\ new.darwin = darwin /\ new.since \in Int
  BY <1>2
<1>6. IsLoad(new)
  BY DEF IsLoad
<1>7. darwin.rid = NoRid
  OBVIOUS
<1>8. rid # NoRun => \E r \in candidates : r.rid = rid
  <2> HIDE DEF candidates, keys
  <2>1. QED
    BY PickedIsOne
<1>9. PICK d : d = darwin
  OBVIOUS
<1>10. DarwinInv(d)
  <2>1. d.rid = NoRid
    BY <1>7, <1>9
  <2>2. d = [calls |-> calls, rid |-> NoRid, progress |-> NotTracked("awaiting-report")]
    <3>1. [NotTracking EXCEPT !.positionState = "awaiting-report"] = NotTracked("awaiting-report")
      BY NotTrackedIs
    <3>2. QED
      BY <1>9, <3>1
  <2> HIDE DEF calls
  <2>3. /\ Agrees(d) /\ FrontIsReached(d) /\ EndIsReached(d)
        /\ IsBanner(d.progress) /\ d.progress.tracking = FALSE /\ d.progress.arrived = FALSE
    BY <1>2, <1>3, <2>2, UnmarkedShown
  <2>4. QED
    BY <2>1, <2>3 DEF DarwinInv
<1>11. rid # NoRun => /\ rid # NoRid /\ IsRunStops(ordered)
                      /\ rid = Ours => DarwinReached(ordered)
  <2> SUFFICES ASSUME rid # NoRun
               PROVE  rid # NoRid /\ IsRunStops(ordered) /\ (rid = Ours => DarwinReached(ordered))
    OBVIOUS
  <2>1. PICK r \in candidates : r.rid = rid /\ picked = r.stops
    <3>1. PICK r : r = CHOOSE x \in candidates : x.rid = rid
      OBVIOUS
    <3> HIDE DEF candidates, rid
    <3>2. r \in candidates /\ r.rid = rid
      BY <1>8, <3>1
    <3>3. QED
      BY <3>1, <3>2
  <2>2. ordered = withCrs(orderRunStops(picked))
    OBVIOUS
  <2> HIDE DEF candidates, rid, picked, ordered
  <2>3. r \in runs
    BY <1>4, <2>1
  <2>4. rid # NoRid /\ (rid = Ours => r = ourRun)
    BY <1>2, <2>1, <2>3, RunNames
  <2>5. PICK s : s = r.stops
    OBVIOUS
  <2>6. IsRunStops(s)
    BY <1>2, <2>3, <2>5, RunStops
  <2>7. withCrs(s) = s /\ orderRunStops(s) = s
    BY <1>2, <2>6, RunStopsInOrder
  <2>8. ordered = s
    BY <2>1, <2>2, <2>5, <2>7
  <2>9. rid = Ours => DarwinReached(s)
    BY <1>2, <2>4, <2>5, OurRunReached
  <2>10. QED
    BY <2>4, <2>6, <2>8, <2>9
<1> HIDE DEF calls, keys, candidates, rid, picked, ordered, darwin, new
<1>12. PICK l : l = new
  OBVIOUS
<1>13. LoadInv(l)
  BY <1>3, <1>5, <1>6, <1>9, <1>10, <1>12 DEF LoadInv
<1>14. rid # NoRun => MatchedInv(l)
  BY <1>5, <1>11, <1>12 DEF MatchedInv
<1>15. LoadInv(l)' /\ (rid # NoRun => MatchedInv(l)')
  <2>1. /\ \A c : IsCalls(c) => IsCalls(c)'
        /\ \A s : IsRunStops(s) => IsRunStops(s)'
        /\ \A s : DarwinReached(s) => DarwinReached(s)'
        /\ \A v : Agrees(v) => Agrees(v)'
        /\ \A v : FrontIsReached(v) => FrontIsReached(v)'
        /\ \A v : EndIsReached(v) => EndIsReached(v)'
    BY <1>2, ShownStays
  <2>2. LoadInv(l)'
    BY <1>13, <2>1 DEF LoadInv, DarwinInv
  <2>3. MatchedInv(l) => MatchedInv(l)'
    BY <2>1 DEF MatchedInv
  <2>4. QED
    BY <1>14, <2>2, <2>3
<1>16. ShownInv(page)'
  <2>1. /\ \A v : Agrees(v) => Agrees(v)'
        /\ \A v : FrontIsReached(v) => FrontIsReached(v)'
        /\ \A v : EndIsReached(v) => EndIsReached(v)'
    BY <1>2, ShownStays
  <2>2. QED
    BY <1>1, <2>1 DEF ViewsInv, PageInv, ShownInv
<1>17. load' = l
  BY <1>1, <1>12
<1>18. QED
  BY <1>1, <1>15, <1>16, <1>17 DEF PageInv

LEMMA OtherPage ==
    ASSUME ViewsInv, [Next]_vars, pc' = pc, load' = load, page' = page
    PROVE  PageInv'
<1>1. WorldInv /\ PageInv
  BY DEF ViewsInv
<1>2. /\ \A c : IsCalls(c) => IsCalls(c)'
      /\ \A s : IsRunStops(s) => IsRunStops(s)'
      /\ \A s : DarwinReached(s) => DarwinReached(s)'
      /\ \A trust, s : HeardOn(trust, s) => HeardOn(trust, s)'
      /\ \A v : Agrees(v) => Agrees(v)'
      /\ \A v : FrontIsReached(v) => FrontIsReached(v)'
      /\ \A v : EndIsReached(v) => EndIsReached(v)'
  BY <1>1, ShownStays
<1>3. ShownInv(page)'
  BY <1>1, <1>2 DEF PageInv, ShownInv
<1>4. \A l : LoadInv(l) => LoadInv(l)'
  BY <1>2 DEF LoadInv, DarwinInv
<1>5. \A l : MatchedInv(l) => MatchedInv(l)'
  BY <1>2 DEF MatchedInv
<1>6. QED
  BY <1>1, <1>2, <1>3, <1>4, <1>5 DEF PageInv

LEMMA LoadHistoryPage == ASSUME ViewsInv, LoadHistory PROVE PageInv'
<1>1. WorldInv /\ PageInv /\ ClockInv /\ TablesInv /\ [Next]_vars
  BY DEF ViewsInv, WorldInv, Next
<1>2. LoadInv(load) /\ MatchedInv(load) /\ pc' = "position" /\ page' = page
  BY <1>1 DEF LoadHistory, PageInv
<1>3. PICK trust : trust = trustProgressForRid(load.rid, history, load.ordered, now)
  OBVIOUS
<1>4. PICK l : l = load
  OBVIOUS
<1>5. PICK m : m = [l EXCEPT !.trust = trust]
  OBVIOUS
<1>6. load' = m
  BY <1>3, <1>4, <1>5 DEF LoadHistory
<1>7. /\ m.calls = l.calls /\ m.rid = l.rid /\ m.ordered = l.ordered /\ m.darwin = l.darwin
      /\ m.trust = trust /\ m.since = l.since /\ IsLoad(m)
  <2>1. PICK calls, rid, since, ordered, before, darwin :
          l = [calls |-> calls, rid |-> rid, since |-> since, ordered |-> ordered,
               trust |-> before, darwin |-> darwin]
    BY <1>2, <1>4 DEF LoadInv, IsLoad
  <2>2. m = [calls |-> calls, rid |-> rid, since |-> since, ordered |-> ordered,
             trust |-> trust, darwin |-> darwin]
    BY <1>5, <2>1
  <2>3. IsLoad(m)
    BY <2>2 DEF IsLoad
  <2>4. QED
    BY <2>1, <2>2, <2>3
<1>8. PICK ordered : ordered = m.ordered
  OBVIOUS
<1>9. HeardOn(trust, ordered)
  <2>1. IsRunStops(ordered) /\ ordered = load.ordered
    BY <1>2, <1>4, <1>7, <1>8 DEF MatchedInv
  <2>2. PICK X : ordered \in Seq(X)
    BY <2>1 DEF IsRunStops
  <2>3. PICK rid : rid = load.rid
    OBVIOUS
  <2>4. QED
    BY <1>1, <1>3, <2>1, <2>2, <2>3, TrustIsHeard
<1>10. LoadInv(m) /\ MatchedInv(m)
  BY <1>2, <1>4, <1>7 DEF LoadInv, MatchedInv
<1>11. /\ \A c : IsCalls(c) => IsCalls(c)'
       /\ \A s : IsRunStops(s) => IsRunStops(s)'
       /\ \A s : DarwinReached(s) => DarwinReached(s)'
       /\ \A t, s : HeardOn(t, s) => HeardOn(t, s)'
       /\ \A v : Agrees(v) => Agrees(v)'
       /\ \A v : FrontIsReached(v) => FrontIsReached(v)'
       /\ \A v : EndIsReached(v) => EndIsReached(v)'
  BY <1>1, ShownStays
<1>12. ShownInv(page)'
  BY <1>1, <1>2, <1>11 DEF PageInv, ShownInv
<1>13. LoadInv(m)'
  BY <1>10, <1>11 DEF LoadInv, DarwinInv
<1>14. MatchedInv(m)'
  BY <1>10, <1>11 DEF MatchedInv
<1>15. HeardOn(m.trust, m.ordered)'
  BY <1>7, <1>8, <1>9, <1>11
<1>16. QED
  BY <1>2, <1>6, <1>12, <1>13, <1>14, <1>15 DEF PageInv

LEMMA LoadPositionPage == ASSUME ViewsInv, LoadPosition PROVE PageInv'
<1>1. WorldInv /\ PageInv /\ ClockInv /\ PositionsInv /\ [Next]_vars
  BY DEF ViewsInv, WorldInv, TablesInv, Next
<1>2. /\ LoadInv(load) /\ MatchedInv(load) /\ HeardOn(load.trust, load.ordered)
      /\ pc' = "describer" /\ page' = page
  BY <1>1 DEF LoadPosition, PageInv
<1>3. PICK routeCrs : routeCrs = {c.crs : c \in ToSet(load.calls)} \ {""}
  OBVIOUS
<1>4. PICK nr : nr = nrPositionForRid(load.rid, headcodeOf(load.rid), routeCrs, positions, now)
  OBVIOUS
<1>5. PICK l : l = load
  OBVIOUS
<1>6. PICK d : d = enrichWithDarwinProgress(l.rid, l.calls, l.ordered, l.trust, nr, l.since)
  OBVIOUS
<1>8. PICK m : m = [l EXCEPT !.darwin = d]
  OBVIOUS
<1>9. load' = m
  BY <1>3, <1>4, <1>5, <1>6, <1>8 DEF LoadPosition
<1>10. m.calls = l.calls /\ m.darwin = d /\ m.since = l.since /\ IsLoad(m)
  <2>1. PICK calls, rid, since, ordered, trust, before :
          l = [calls |-> calls, rid |-> rid, since |-> since, ordered |-> ordered,
               trust |-> trust, darwin |-> before]
    BY <1>2, <1>5 DEF LoadInv, IsLoad
  <2>2. m = [calls |-> calls, rid |-> rid, since |-> since, ordered |-> ordered,
             trust |-> trust, darwin |-> d]
    BY <1>8, <2>1
  <2>3. IsLoad(m)
    BY <2>2 DEF IsLoad
  <2>4. QED
    BY <2>1, <2>2, <2>3
<1>11. /\ IsCalls(l.calls) /\ Unmarked(l.calls) /\ l.rid # NoRid /\ IsRunStops(l.ordered)
       /\ l.rid = Ours => DarwinReached(l.ordered)
       /\ HeardOn(l.trust, l.ordered) /\ l.since \in Int
  BY <1>2, <1>5 DEF LoadInv, MatchedInv
<1>12. RowReached(nr)
  <2>1. PICK rid, headcode : rid = load.rid /\ headcode = headcodeOf(load.rid)
    OBVIOUS
  <2>2. QED
    BY <1>1, <1>4, <1>5, <1>11, <2>1, RowIsReached
<1>13. /\ Agrees(d) /\ d.progress.tracking = TRUE /\ IsBanner(d.progress) /\ d.rid = l.rid
       /\ DarwinReached(l.ordered) => EndIsReached(d)
       /\ DarwinReached(l.ordered) /\ RowReached(nr) => FrontIsReached(d)
  <2>1. PICK rid, old, ordered, trust, when :
          rid = l.rid /\ old = l.calls /\ ordered = l.ordered /\ trust = l.trust /\ when = l.since
    OBVIOUS
  <2>2. QED
    <3>1. IsCalls(old) /\ Unmarked(old) /\ IsRunStops(ordered) /\ HeardOn(trust, ordered) /\ when \in Int
      BY <1>11, <2>1
    <3>2. d = enrichWithDarwinProgress(rid, old, ordered, trust, nr, when)
      BY <1>6, <2>1
    <3>3. /\ Agrees(d) /\ d.progress.tracking = TRUE /\ IsBanner(d.progress) /\ d.rid = rid
          /\ DarwinReached(ordered) => EndIsReached(d)
          /\ DarwinReached(ordered) /\ RowReached(nr) => FrontIsReached(d)
      <4>1. ClockInv /\ CanBeShown(old, ordered, trust, when)
        BY <1>1, <3>1 DEF CanBeShown
      <4>2. QED
        <5>1. /\ Agrees(d) /\ d.progress.tracking = TRUE /\ IsBanner(d.progress)
              /\ DarwinReached(ordered) => EndIsReached(d)
              /\ DarwinReached(ordered) /\ RowReached(nr) => FrontIsReached(d)
          BY ONLY <3>2, <4>1, DarwinShown
        <5>2. d.rid = rid
          BY <3>2 DEF enrichWithDarwinProgress
        <5>3. QED
          BY <5>1, <5>2
    <3>4. QED
      BY <2>1, <3>3
<1>14. DarwinInv(d)
  <2>1. l.rid = Ours => FrontIsReached(d) /\ EndIsReached(d)
    BY <1>11, <1>12, <1>13
  <2>2. d.progress.tracking = TRUE /\ IsBanner(d.progress) /\ d.rid # NoRid
    BY <1>11, <1>13
  <2>3. QED
    BY <1>13, <2>1, <2>2 DEF DarwinInv
<1>15. LoadInv(m)
  BY <1>10, <1>11, <1>14 DEF LoadInv
<1>16. /\ \A c : IsCalls(c) => IsCalls(c)'
       /\ \A w : Agrees(w) => Agrees(w)'
       /\ \A w : FrontIsReached(w) => FrontIsReached(w)'
       /\ \A w : EndIsReached(w) => EndIsReached(w)'
  BY <1>1, ShownStays
<1>17. ShownInv(page)'
  BY <1>1, <1>2, <1>16 DEF PageInv, ShownInv
<1>18. LoadInv(m)'
  BY <1>15, <1>16 DEF LoadInv, DarwinInv
<1>19. QED
  BY <1>2, <1>9, <1>17, <1>18 DEF PageInv

LEMMA LoadDescriberPage == ASSUME ViewsInv, LoadDescriber PROVE PageInv'
<1>1. WorldInv /\ PageInv /\ ClockInv /\ PositionsInv /\ [Next]_vars
  BY DEF ViewsInv, WorldInv, TablesInv, Next
<1>2. LoadInv(load) /\ pc' = "idle"
  BY <1>1 DEF LoadDescriber, PageInv
<1>3. PICK knownRid : knownRid = (IF scenario.byRid THEN Ours ELSE NoRid)
  OBVIOUS
<1>4. PICK rid : rid = (IF load.darwin.rid # NoRid THEN load.darwin.rid ELSE knownRid)
  OBVIOUS
<1>5. PICK headcode : headcode = headcodeOf(rid)
  OBVIOUS
<1>6. PICK d : d = load.darwin
  OBVIOUS
<1>7. PICK nr : nr = enrichWithNrProgress(d.calls, headcode, positions, now)
  OBVIOUS
<1>8. PICK p : p = enrichLiveProgress(d, knownRid, nr)
  OBVIOUS
<1>9. page' = p
  BY <1>3, <1>4, <1>5, <1>6, <1>7, <1>8 DEF LoadDescriber
<1>10. DarwinInv(d)
  BY <1>2, <1>6 DEF LoadInv
<1>11. IsCalls(d.calls)
  BY <1>10 DEF DarwinInv, Agrees
<1>12. nr # NoMatch => /\ Agrees(nr) /\ FrontIsReached(nr) /\ IsBanner(nr.progress)
                       /\ SameCalls(nr.calls, d.calls)
  <2>1. PICK old : old = d.calls
    OBVIOUS
  <2>2. QED
    BY <1>1, <1>7, <1>11, <2>1, DescriberShown
<1>13. ShownInv(p)
  <2>1. knownRid \in {Ours, NoRid}
    BY <1>3
  <2>2. QED
    BY <1>8, <1>10, <1>12, <2>1, PageShown
<1>14. /\ \A w : Agrees(w) => Agrees(w)'
       /\ \A w : FrontIsReached(w) => FrontIsReached(w)'
       /\ \A w : EndIsReached(w) => EndIsReached(w)'
  BY <1>1, ShownStays
<1>15. ShownInv(p)'
  BY <1>13, <1>14 DEF ShownInv
<1>16. QED
  BY <1>2, <1>9, <1>15 DEF PageInv

LEMMA StepViews == ASSUME ViewsInv, [Next]_vars PROVE ViewsInv'
<1>1. WorldInv'
  BY StepWorld DEF ViewsInv
<1>2. CASE Move \/ Held \/ Deactivate
  <2>1. pc' = pc /\ load' = load /\ page' = page
    BY <1>2 DEF Move, Held, Deactivate
  <2>2. QED
    BY <1>1, <2>1, OtherPage DEF ViewsInv
<1>3. CASE \E crs \in StrayAt \cap {p.crs : p \in ToSet(route)}, headcode \in {Headcode, "2B02"} :
             Stray(crs, headcode)
  <2>1. PICK crs, headcode : Stray(crs, headcode)
    BY <1>3
  <2>2. pc' = pc /\ load' = load /\ page' = page
    BY <2>1 DEF Stray
  <2>3. QED
    BY <1>1, <2>2, OtherPage DEF ViewsInv
<1>4. CASE LoadRuns
  BY <1>1, <1>4, LoadRunsPage DEF ViewsInv
<1>5. CASE LoadHistory
  BY <1>1, <1>5, LoadHistoryPage DEF ViewsInv
<1>6. CASE LoadPosition
  BY <1>1, <1>6, LoadPositionPage DEF ViewsInv
<1>7. CASE LoadDescriber
  BY <1>1, <1>7, LoadDescriberPage DEF ViewsInv
<1>8. CASE UNCHANGED vars
  <2>1. pc' = pc /\ load' = load /\ page' = page
    BY <1>8 DEF vars
  <2>2. QED
    BY <1>1, <2>1, OtherPage DEF ViewsInv
<1>9. QED
  BY <1>2, <1>3, <1>4, <1>5, <1>6, <1>7, <1>8 DEF Next

(* Whatever the page shows, load by load, is from a state of the feeds.    *)
THEOREM PageIsReported == Spec => []ViewsInv
<1>1. Init => ViewsInv
  BY InitWorld, InitPage DEF ViewsInv
<1>2. ViewsInv /\ [Next]_vars => ViewsInv'
  BY StepViews
<1>3. QED
  BY <1>1, <1>2, PTL DEF Spec

(* The markers of a page run on, and its banner is of the stop they mark,  *)
(* on every line; nor is the next stop one that the train is past, on a    *)
(* line without a loop.                                                    *)
THEOREM PageAgrees ==
    Spec => [](MarkersRunOn /\ LastStopIsMarked /\ (~circular => MarkersAgree))
<1>1. ViewsInv => MarkersRunOn /\ LastStopIsMarked /\ (~circular => MarkersAgree)
  <2> SUFFICES ASSUME ViewsInv
               PROVE  MarkersRunOn /\ LastStopIsMarked /\ (~circular => MarkersAgree)
    OBVIOUS
  <2>1. Agrees(page)
    BY DEF ViewsInv, PageInv, ShownInv
  <2>2. RunOn(page.calls) /\ FrontIsLast(page) /\ (~circular => NextIsAhead(page))
    BY <2>1 DEF Agrees
  <2>3. MarkersRunOn
    BY <2>2 DEF MarkersRunOn, RunOn
  <2>4. LastStopIsMarked
    BY <2>2 DEF LastStopIsMarked, FrontIsLast
  <2>5. ~circular => NextStopIsAhead
    BY <2>2 DEF NextStopIsAhead, NextIsAhead
  <2>6. QED
    BY <2>3, <2>4, <2>5 DEF MarkersAgree
<1>2. QED
  BY <1>1, PageIsReported, PTL

-----------------------------------------------------------------------------
(* No view is ahead of the train, on a line without a loop.                *)

LEMMA PlaceIsReached ==
    ASSUME ClockInv, ~circular, NEW c, IsOurCall(c)
    PROVE  /\ placeOf(c) \in 1..Len(route) /\ route[placeOf(c)].crs = c.crs
           /\ hasPassed(c.crs) => placeOf(c) <= at
<1>1. DOMAIN route = 1..Len(route) /\ Len(route) \in Nat /\ at \in Nat /\ at <= Len(route)
  <2>1. route \in Seq(Point) /\ at \in Nat
    BY RouteFacts
  <2>2. QED
    BY <2>1 DEF ClockInv
<1>2. \E i \in 1..Len(route) : route[i].crs = c.crs /\ route[i].time = c.scheduled
  BY DEF IsOurCall
<1>3. PICK i : i = placeOf(c)
  OBVIOUS
<1>4. i \in 1..Len(route) /\ route[i].crs = c.crs
  BY <1>1, <1>2, <1>3 DEF placeOf
<1>5. ASSUME hasPassed(c.crs) PROVE i <= at
  <2>1. PICK j \in 1..at : route[j].crs = c.crs
    BY <1>5 DEF hasPassed
  <2>2. j \in 1..Len(route)
    BY <1>1, <2>1
  <2>3. i = j
    BY <1>1, <1>4, <2>1, <2>2 DEF circular
  <2>4. QED
    BY <1>1, <2>1, <2>3
<1>6. QED
  BY <1>3, <1>4, <1>5

LEMMA PageIsBehind ==
    ASSUME ViewsInv, ~circular
    PROVE  /\ page.rid \in {Ours, NoRid} /\ pageAt > at => route[pageAt].crs \in strays
           /\ page.rid = Ours /\ page.progress.arrived => placeOf(Last(page.calls)) <= at
<1>1. ClockInv /\ ShownInv(page)
  BY DEF ViewsInv, WorldInv, PageInv
<1>2. PICK calls : calls = page.calls
  OBVIOUS
<1>3. IsCalls(calls)
  BY <1>1, <1>2 DEF ShownInv, Agrees
<1>4. calls \in Seq(Call) /\ \A i \in 1..Len(calls) : IsOurCall(calls[i])
  BY <1>3 DEF IsCalls
<1>5. at \in Nat
  BY <1>1, RouteFacts
<1>6. ASSUME page.rid \in {Ours, NoRid}, pageAt > at PROVE route[pageAt].crs \in strays
  <2>1. PICK front : front = frontIndex(calls)
    OBVIOUS
  <2>2. front # NoIndex
    <3>1. SUFFICES ASSUME front = NoIndex PROVE FALSE
      OBVIOUS
    <3>2. pageAt = 0
      BY <1>2, <2>1, <3>1 DEF pageAt, NoIndex
    <3>3. QED
      BY <1>5, <1>6, <3>2
  <2>3. front \in 1..Len(calls)
    BY <1>4, <2>1, <2>2, FrontIndexIs
  <2>4. PICK c : c = calls[front]
    OBVIOUS
  <2>5. IsOurCall(c) /\ pageAt = placeOf(c)
    BY <1>2, <1>4, <2>1, <2>2, <2>3, <2>4 DEF pageAt
  <2>6. hasBeen(c.crs)
    BY <1>1, <1>2, <1>6, <2>1, <2>2, <2>4 DEF ShownInv, FrontIsReached
  <2>7. /\ placeOf(c) \in 1..Len(route) /\ route[placeOf(c)].crs = c.crs
        /\ hasPassed(c.crs) => placeOf(c) <= at
    BY <1>1, <2>5, PlaceIsReached
  <2>8. ~hasPassed(c.crs)
    BY <1>5, <1>6, <2>5, <2>7
  <2>9. QED
    BY <2>5, <2>6, <2>7, <2>8 DEF hasBeen
<1>7. ASSUME page.rid = Ours, page.progress.arrived PROVE placeOf(Last(page.calls)) <= at
  <2>1. calls # <<>> /\ hasPassed(calls[Len(calls)].crs)
    BY <1>1, <1>2, <1>7 DEF ShownInv, EndIsReached
  <2>2. PICK c : c = calls[Len(calls)]
    OBVIOUS
  <2>3. Last(calls) = c /\ IsOurCall(c)
    <3>1. Len(calls) \in 1..Len(calls)
      BY <1>4, <2>1
    <3>2. QED
      BY <1>4, <2>2, <3>1 DEF Last
  <2>4. placeOf(c) <= at
    BY <1>1, <2>1, <2>2, <2>3, PlaceIsReached
  <2>5. QED
    BY <1>2, <2>3, <2>4
<1>8. QED
  BY <1>6, <1>7

LEMMA BoardsAreBehind ==
    ASSUME PositionsInv, NEW i
    PROVE  \A crs \in boardPlaces(i) : hasBeen(crs)
<1> DEFINE forecasts == stationForecasts(route[i].crs, runs, now)
           places == rowPlaces(boardAt(i)[1], headcodeOf(Ours), runs, forecasts, positions, now)
<1>1. boardPlaces(i) = {p.crs : p \in places} \ {""}
  BY DEF boardPlaces
<1>2. \A rid, headcode, stops : boardPositions(rid, headcode, stops, positions, now) \subseteq positions \cup {NoRow}
  BY DEF boardPositions
<1>3. \A p \in places : p.crs = "" \/ \E r \in positions : p.crs = r.crs
  <2> SUFFICES ASSUME NEW p \in places PROVE p.crs = "" \/ \E r \in positions : p.crs = r.crs
    OBVIOUS
  <2>1. p = NoPlace \/ \E r \in positions : p.crs = r.crs
    BY <1>2 DEF rowPlaces
  <2>2. NoPlace.crs = ""
    BY DEF NoPlace
  <2>3. QED
    BY <2>1, <2>2
<1> HIDE DEF places
<1>4. \A r \in positions : hasBeen(r.crs)
  BY DEF PositionsInv, RowInv
<1>5. QED
  BY <1>1, <1>3, <1>4

(* Darwin's front is the first stop, or every stop before it has a time.   *)
LEMMA FrontIsBehind ==
    ASSUME ClockInv, NEW s, s = ourRun.stops, NEW x, x = darwinFrontIdx(s, s)
    PROVE  x \in Int /\ \A k \in 1..Len(known) : k < x => known[k] <= at
<1>1. IsRunStops(s)
  BY RunStops
<1>2. PICK X : s \in Seq(X)
  BY <1>1 DEF IsRunStops
<1>3. PICK N \in Nat : N = Len(known) /\ N = Len(s) /\ DOMAIN s = 1..N
  <2>1. DOMAIN s = 1..Len(s) /\ Len(s) \in Nat
    BY <1>2, SeqFacts
  <2>2. Len(s) = Len(known)
    BY <1>1 DEF IsRunStops
  <2>3. QED
    BY <2>1, <2>2
<1>4. x \in Int
  BY <1>2, FrontIsInt
<1>5. orderedStops(s) = s
  BY <1>1, RunStopsInOrder
<1>6. PICK I : I = {i \in DOMAIN s : s[i].actual = NoTime}
  OBVIOUS
<1>7. PICK waiting : waiting = Selected(s, I)
  OBVIOUS
<1>8. PICK S : S = {i \in DOMAIN s : waiting # <<>> /\ s[i].seq = Head(waiting).seq}
  OBVIOUS
<1>9. x = Max({1} \cup S)
  BY <1>5, <1>6, <1>7, <1>8 DEF darwinFrontIdx
<1>10. x \in {1} \cup S
  <2>1. PICK n \in Nat : n = N + 1
    OBVIOUS
  <2>2. {1} \cup S \in SUBSET (0..n) /\ {1} \cup S # {}
    BY <1>3, <1>8, <2>1
  <2>3. QED
    BY <1>9, <2>2, MaxIsLargest
<1>11. SUFFICES ASSUME NEW k \in 1..N, k < x PROVE known[k] <= at
  BY <1>3, <1>4
<1>12. x \in S
  <2>1. x # 1
    BY <1>4, <1>11
  <2>2. QED
    BY <1>10, <2>1
<1>13. x \in 1..N /\ waiting # <<>> /\ s[x].seq = Head(waiting).seq
  BY <1>3, <1>8, <1>12
<1>14. waiting \in Seq(X) /\ \E f : IsSelection(f, waiting, s, I, N)
  BY <1>2, <1>3, <1>7, SelectedIndices
<1>15. PICK f : IsSelection(f, waiting, s, I, N)
  BY <1>14
<1>16. Len(waiting) \in Nat /\ 1 \in 1..Len(waiting) /\ Head(waiting) = waiting[1]
  BY <1>13, <1>14
<1>17. f[1] \in 1..N /\ Head(waiting) = s[f[1]]
  BY <1>16, <1>15 DEF IsSelection
<1>18. f[1] = x
  <2>1. \A j \in 1..N : s[j].seq = known[j]
    BY <1>1, <1>3 DEF IsRunStops
  <2>2. known[f[1]] = known[x]
    BY <1>13, <1>17, <2>1
  <2>3. \A i, j \in 1..N : i < j => known[i] < known[j]
    BY <1>3, KnownFacts
  <2>4. \A i \in 1..N : known[i] \in Int
    BY <1>3, KnownFacts
  <2>5. QED
    BY <1>13, <1>17, <2>2, <2>3, <2>4
<1>19. k \notin I
  <2>1. SUFFICES ASSUME k \in I PROVE FALSE
    OBVIOUS
  <2>2. PICK j \in 1..Len(waiting) : f[j] = k
    BY <1>15, <2>1 DEF IsSelection
  <2>3. j = 1 \/ f[1] < f[j]
    BY <1>15, <1>16 DEF IsSelection
  <2>4. QED
    BY <1>4, <1>11, <1>18, <2>2, <2>3
<1>20. s[k].actual # NoTime
  BY <1>3, <1>6, <1>19
<1>21. known[k] \in acted
  BY <1>3, <1>20, OurActuals
<1>22. known[k] \in 1..at
  BY <1>21 DEF ClockInv
<1>23. QED
  BY <1>22

(* The list of the train's calls, by where the front is among them.        *)
Statuses(path, x) ==
    path = [i \in 1..Len(known) |-> IF i < x THEN "departed" ELSE IF i = x THEN "current" ELSE "upcoming"]

LEMMA PathOfRow ==
    ASSUME WorldInv, NEW r, ourTrain(r).path # <<>>
    PROVE  \E x \in Int :
             /\ Statuses(ourTrain(r).path, x)
             /\ IsKnownAt(r.crs) => x \in 1..Len(known) /\ route[known[x]].crs = r.crs
             /\ ~IsKnownAt(r.crs) /\ r.crs # "" => \A k \in 1..Len(known) : k < x => known[k] <= at
<1>1. ClockInv
  BY DEF WorldInv
<1>2. PICK path : path = ourPath
  OBVIOUS
<1>3. PICK front : front = darwinFrontIdx(ourStops, path)
  OBVIOUS
<1>4. PICK crs : crs = r.crs
  OBVIOUS
<1>5. PICK atIdx : atIdx = IF crs = "" THEN NoIndex ELSE findCurrentPathIndex(path, crs, front)
  OBVIOUS
<1>6. PICK x : x = IF path = <<>> \/ atIdx # NoIndex THEN atIdx ELSE front
  OBVIOUS
<1>7. ourTrain(r).path =
        [i \in DOMAIN path |-> IF i < x THEN "departed" ELSE IF i = x THEN "current" ELSE "upcoming"]
  BY <1>2, <1>3, <1>4, <1>5, <1>6 DEF ourTrain, toTrain
<1>8. path # <<>>
  BY <1>7
<1>9. known # <<>>
  <2>1. SUFFICES ASSUME known = <<>> PROVE FALSE
    OBVIOUS
  <2>2. \A day : rival(day).rid # Ours
    BY DEF rival, Ours
  <2>3. {q \in runs : q.rid = Ours} = {}
    BY <2>1, <2>2 DEF runs
  <2>4. path = pathOf(<<>>, Places)
    BY <1>2, <2>3 DEF ourPath, ourStops
  <2>5. PICK none : none = <<>>
    OBVIOUS
  <2>6. IsRunStops(none)
    <3>1. none \in Seq(Int) /\ Len(none) = 0 /\ Len(known) = 0
      BY <2>1, <2>5
    <3>2. QED
      BY <3>1 DEF IsRunStops
  <2>7. orderedStops(none) = none
    BY <1>1, <2>6, RunStopsInOrder
  <2>8. \A I : 1..Len(none) \subseteq I
    BY <2>5
  <2>9. \A I : Selected(none, I) = none
    <3>1. none \in Seq(Int)
      BY <2>5
    <3>2. QED
      BY <2>8, <3>1, SelectedAll
  <2>10. pathOf(none, Places) = <<>>
    BY <2>5, <2>7, <2>9 DEF pathOf
  <2>11. QED
    BY <1>8, <2>4, <2>5, <2>10
<1>10. ourStops = ourRun.stops
  BY <1>9, OurRunFound DEF ourStops
<1>11. PICK s : s = ourRun.stops
  OBVIOUS
<1>12. path = s
  BY <1>1, <1>2, <1>8, <1>10, <1>11, OurPath DEF ourPath
<1>13. IsRunStops(s)
  BY <1>1, <1>11, RunStops
<1>14. PICK X : s \in Seq(X)
  BY <1>13 DEF IsRunStops
<1>15. DOMAIN s = 1..Len(known) /\ Len(s) = Len(known)
  BY <1>13, <1>14, SeqFacts DEF IsRunStops
<1>16. front \in Int /\ \A k \in 1..Len(known) : k < front => known[k] <= at
  BY <1>1, <1>3, <1>10, <1>11, <1>12, FrontIsBehind
<1>17. ASSUME IsKnownAt(crs)
       PROVE  x \in 1..Len(known) /\ route[known[x]].crs = crs
  <2>1. crs # "" /\ \E k \in ToSet(known) : route[k].crs = crs
    BY <1>17 DEF IsKnownAt
  <2>2. \A k \in 1..Len(known) : s[k].crs = route[known[k]].crs
    BY <1>13 DEF IsRunStops
  <2>3. \E k \in 1..Len(s) : s[k].crs = crs
    <3>1. DOMAIN known = 1..Len(known)
      BY <1>1, KnownFacts, SeqFacts
    <3>2. PICK k \in 1..Len(known) : route[known[k]].crs = crs
      BY <2>1, <3>1 DEF ToSet
    <3>3. QED
      BY <1>15, <2>2, <3>2
  <2>4. /\ findCurrentPathIndex(s, crs, front) \in 1..Len(s)
        /\ s[findCurrentPathIndex(s, crs, front)].crs = crs
    BY <1>14, <1>16, <2>3, NearestVisit
  <2>5. atIdx \in 1..Len(known) /\ s[atIdx].crs = crs
    BY <1>5, <1>12, <1>15, <2>1, <2>4
  <2>6. x = atIdx
    <3>1. atIdx # NoIndex
      BY <2>5 DEF NoIndex
    <3>2. QED
      BY <1>6, <3>1
  <2>7. QED
    BY <2>2, <2>5, <2>6
<1>18. ASSUME ~IsKnownAt(crs), crs # ""
       PROVE  x = front
  <2>1. \A k \in 1..Len(known) : s[k].crs # crs
    <3>1. \A k \in 1..Len(known) : known[k] \in ToSet(known)
      BY <1>1, KnownFacts, SeqFacts DEF ToSet
    <3>2. QED
      BY <1>13, <1>18, <3>1 DEF IsKnownAt, IsRunStops
  <2>2. {i \in DOMAIN path : path[i].crs = crs} = {}
    BY <1>12, <1>15, <2>1
  <2>3. atIdx = NoIndex
    BY <1>5, <2>2 DEF findCurrentPathIndex
  <2>4. QED
    BY <1>6, <1>8, <2>3
<1>19. CASE crs # ""
  <2>1. x \in Int
    <3>1. IsKnownAt(crs) => x \in Int
      <4>1. \A k \in 1..Len(known) : k \in Int
        OBVIOUS
      <4>2. QED
        BY <1>17, <4>1
    <3>2. ~IsKnownAt(crs) => x \in Int
      BY <1>16, <1>18, <1>19
    <3>3. QED
      BY <3>1, <3>2
  <2>2. Statuses(ourTrain(r).path, x)
    BY <1>7, <1>12, <1>15 DEF Statuses
  <2>3. QED
    BY <1>4, <1>16, <1>17, <1>18, <2>1, <2>2
<1>20. CASE crs = ""
  <2>1. x = front
    BY <1>5, <1>6, <1>8, <1>20
  <2>2. ~IsKnownAt(crs)
    BY <1>20 DEF IsKnownAt
  <2>3. Statuses(ourTrain(r).path, x)
    BY <1>7, <1>12, <1>15 DEF Statuses
  <2>4. QED
    BY <1>4, <1>16, <1>20, <2>1, <2>2, <2>3
<1>21. QED
  BY <1>19, <1>20

LEMMA MapIsBehind ==
    ASSUME WorldInv, ~circular, NEW t \in onMap, t.path # <<>>, NEW k \in DOMAIN t.path
    PROVE  \/ t.path[k] = "upcoming" \/ known[k] <= at
           \/ t.path[k] = "current" /\ ~\E j \in ToSet(known) : route[j].crs = t.crs
<1>1. ClockInv
  BY DEF WorldInv
<1>2. PICK r \in ownRows : t = ourTrain(r)
  BY OnMapIs
<1>3. t.crs = r.crs
  BY <1>2, TrainOfRow
<1>4. hasPassed(r.crs) /\ r.crs # ""
  <2>1. hasPassed(r.crs)
    BY DEF ownRows, WorldInv, TablesInv, PositionsInv, RowInv
  <2>2. PICK i \in 1..at : route[i].crs = r.crs
    BY <2>1 DEF hasPassed
  <2>3. i \in 1..Len(route)
    <3>1. at \in Nat /\ Len(route) \in Nat
      BY <1>1, RouteFacts
    <3>2. QED
      BY <1>1, <2>2, <3>1 DEF ClockInv
  <2>4. QED
    BY <1>1, <2>1, <2>2, <2>3, RouteFacts
<1>5. PICK x \in Int :
        /\ Statuses(t.path, x)
        /\ IsKnownAt(r.crs) => x \in 1..Len(known) /\ route[known[x]].crs = r.crs
        /\ ~IsKnownAt(r.crs) /\ r.crs # "" => \A j \in 1..Len(known) : j < x => known[j] <= at
  BY <1>2, PathOfRow
<1>6. /\ k \in 1..Len(known) /\ k \in Int
      /\ t.path[k] = IF k < x THEN "departed" ELSE IF k = x THEN "current" ELSE "upcoming"
  <2>1. DOMAIN t.path = 1..Len(known)
    BY <1>5 DEF Statuses
  <2>2. k \in 1..Len(known) /\ k \in Int
    BY <2>1
  <2>3. QED
    BY <1>5, <2>2 DEF Statuses
<1>7. CASE IsKnownAt(r.crs)
  <2>1. x \in 1..Len(known) /\ route[known[x]].crs = r.crs
    BY <1>5, <1>7
  <2>2. known[x] <= at
    <3>1. PICK i \in 1..at : route[i].crs = r.crs
      BY <1>4 DEF hasPassed
    <3>2. at \in Nat /\ Len(route) \in Nat /\ DOMAIN route = 1..Len(route)
      BY <1>1, RouteFacts, SeqFacts
    <3>3. i \in 1..Len(route) /\ known[x] \in 1..Len(route)
      BY <1>1, <2>1, <3>1, <3>2, KnownFacts DEF ClockInv
    <3>4. known[x] = i
      BY <2>1, <3>1, <3>2, <3>3 DEF circular
    <3>5. QED
      BY <3>1, <3>2, <3>4
  <2>3. k <= x => known[k] <= known[x]
    <3>1. k < x => known[k] < known[x]
      BY <1>1, <1>6, <2>1, KnownFacts
    <3>2. known[k] \in Int /\ known[x] \in Int
      BY <1>1, <1>6, <2>1, KnownFacts
    <3>3. QED
      BY <1>6, <3>1, <3>2
  <2>4. CASE k <= x
    <3>1. known[k] \in Int /\ known[x] \in Int
      BY <1>1, <1>6, <2>1, KnownFacts
    <3>2. at \in Nat
      BY <1>1, RouteFacts
    <3>3. QED
      BY <2>2, <2>3, <2>4, <3>1, <3>2
  <2>5. CASE ~(k <= x)
    <3>1. t.path[k] = "upcoming"
      BY <1>6, <2>5
    <3>2. QED
      BY <3>1
  <2>6. QED
    BY <2>4, <2>5
<1>8. CASE ~IsKnownAt(r.crs)
  <2>1. ~\E j \in ToSet(known) : route[j].crs = t.crs
    BY <1>3, <1>4, <1>8 DEF IsKnownAt
  <2>2. k < x => known[k] <= at
    BY <1>4, <1>5, <1>6, <1>8
  <2>3. k = x => t.path[k] = "current"
    BY <1>6
  <2>4. ~(k < x) /\ k # x => t.path[k] = "upcoming"
    BY <1>6
  <2>5. QED
    BY <2>1, <2>2, <2>3, <2>4
<1>9. QED
  BY <1>7, <1>8

(* No view says that the train is where it has not been, on a line without *)
(* a loop: not the page, whose queries each read a later state, nor the    *)
(* map's list of calls, nor a board.                                       *)
THEOREM ViewsAreBehind == Spec => [](~circular => NeverAhead)
<1>1. ViewsInv => (~circular => NeverAhead)
  <2> SUFFICES ASSUME ViewsInv, ~circular PROVE NeverAhead
    OBVIOUS
  <2>1. WorldInv /\ PositionsInv
    BY DEF ViewsInv, WorldInv, TablesInv
  <2>2. /\ page.rid \in {Ours, NoRid} /\ pageAt > at => route[pageAt].crs \in strays
        /\ page.rid = Ours /\ page.progress.arrived => placeOf(Last(page.calls)) <= at
    BY PageIsBehind
  <2>3. \A t \in onMap : t.path # <<>> =>
          \A k \in DOMAIN t.path :
            \/ t.path[k] = "upcoming" \/ known[k] <= at
            \/ t.path[k] = "current" /\ ~\E j \in ToSet(known) : route[j].crs = t.crs
    BY <2>1, MapIsBehind
  <2>4. \A i \in departsAt : \A crs \in boardPlaces(i) : hasPassed(crs) \/ crs \in strays
    BY <2>1, BoardsAreBehind DEF hasBeen
  <2>5. QED
    BY <2>2, <2>3, <2>4 DEF NeverAhead
<1>2. QED
  BY <1>1, PageIsReported, PTL

(* A board has no train where neither it nor another was reported, on any  *)
(* line and with runs of other days about.                                 *)
THEOREM BoardsAreReported ==
    Spec => [](\A i \in departsAt : \A crs \in boardPlaces(i) : hasPassed(crs) \/ crs \in strays)
<1>1. WorldInv => \A i \in departsAt : \A crs \in boardPlaces(i) : hasPassed(crs) \/ crs \in strays
  BY BoardsAreBehind DEF WorldInv, TablesInv, hasBeen
<1>2. QED
  BY <1>1, WorldIsReported, PTL
=============================================================================
