------------------------------ MODULE Recursion ------------------------------
(***************************************************************************)
(* Functions that are defined by recursion.  Def(p, g, x) is what such a   *)
(* definition says of the value at x, in terms of the function g itself    *)
(* and of something p that does not change.  It is a constant of this      *)
(* module, so that a module with a definition of that kind can instantiate *)
(* it.  That a set of natural numbers has a least element is an assumption *)
(* of the theorems: it has a library for its proof (LeastNatural) that no  *)
(* instance needs a copy of.                                               *)
(***************************************************************************)
EXTENDS Naturals, TLAPS

CONSTANT Def(_, _, _)

\* What holds of x whenever it holds of everything of a lower rank, holds throughout.
LEMMA RankInduction ==
  ASSUME \A T \in SUBSET Nat : \A t \in T : \E m \in T : \A k \in T : m <= k,
         NEW D, NEW rank \in [D -> Nat], NEW S,
         \A x \in D : (\A y \in D : rank[y] < rank[x] => y \in S) => x \in S
  PROVE  D \subseteq S
<1> SUFFICES ASSUME NEW x \in D, x \notin S PROVE FALSE
  OBVIOUS
<1> DEFINE T == {rank[y] : y \in D \ S}
<1>1. T \in SUBSET Nat /\ rank[x] \in T
  OBVIOUS
<1>2. PICK m \in T : \A k \in T : m <= k
  <2> HIDE DEF T
  <2> QED BY <1>1
<1>3. PICK y \in D \ S : m = rank[y]
  OBVIOUS
<1>4. \A z \in D : rank[z] < rank[y] => z \in S
  <2> SUFFICES ASSUME NEW z \in D, rank[z] < rank[y], z \notin S PROVE FALSE
    OBVIOUS
  <2>1. rank[z] \in T
    OBVIOUS
  <2>2. rank[y] <= rank[z] /\ rank[y] \in Nat /\ rank[z] \in Nat
    BY <1>2, <1>3, <2>1
  <2> QED BY <2>2
<1> QED BY <1>3, <1>4

-----------------------------------------------------------------------------
\* The value at x depends on values at a lower rank only.
Grounded(p, D, rank) ==
  \A x \in D : \A g, h :
    (\A y \in D : rank[y] < rank[x] => g[y] = h[y]) => Def(p, g, x) = Def(p, h, x)

\* Below rank n, g is as defined.
Follows(p, D, rank, g, n) == \A x \in D : rank[x] < n => g[x] = Def(p, g, x)

\* Two such functions agree as far as both are.
LEMMA FollowsUnique ==
  ASSUME \A T \in SUBSET Nat : \A t \in T : \E m \in T : \A k \in T : m <= k,
         NEW p, NEW D, NEW rank \in [D -> Nat], Grounded(p, D, rank),
         NEW g, NEW h, NEW m \in Nat, NEW n \in Nat, m <= n,
         Follows(p, D, rank, g, m), Follows(p, D, rank, h, n)
  PROVE  \A x \in D : rank[x] < m => g[x] = h[x]
<1> DEFINE S == {x \in D : rank[x] < m => g[x] = h[x]}
<1>1. ASSUME NEW x \in D, \A y \in D : rank[y] < rank[x] => y \in S
      PROVE  x \in S
  <2> SUFFICES ASSUME rank[x] < m PROVE g[x] = h[x]
    OBVIOUS
  <2>1. rank[x] < n /\ rank[x] \in Nat
    OBVIOUS
  <2>2. \A y \in D : rank[y] < rank[x] => g[y] = h[y]
    <3> TAKE y \in D
    <3> HAVE rank[y] < rank[x]
    <3>1. rank[y] < m
      BY <2>1
    <3> QED BY <1>1, <3>1
  <2>3. Def(p, g, x) = Def(p, h, x)
    BY <2>2, Zenon DEF Grounded
  <2> QED BY <2>1, <2>3 DEF Follows
<1>2. D \subseteq S
  <2> HIDE DEF S
  <2> QED BY <1>1, RankInduction
<1> QED BY <1>2

\* A function that follows the definition below any given rank.
LEMMA FollowsExists ==
  ASSUME \A T \in SUBSET Nat : \A t \in T : \E m \in T : \A k \in T : m <= k,
         NEW p, NEW D, NEW rank \in [D -> Nat], Grounded(p, D, rank)
  PROVE  \A n \in Nat : \E g : Follows(p, D, rank, g, n)
<1> DEFINE T == {n \in Nat : ~\E g : Follows(p, D, rank, g, n)}
<1> SUFFICES ASSUME NEW t \in T PROVE FALSE
  OBVIOUS
<1>1. PICK n \in T : \A k \in T : n <= k
  <2>1. T \in SUBSET Nat
    OBVIOUS
  <2> HIDE DEF T
  <2> QED BY <2>1
<1>2. n # 0
  <2>1. Follows(p, D, rank, << >>, 0)
    BY DEF Follows
  <2> QED BY <2>1
<1>3. PICK m \in Nat : n = m + 1
  <2>1. n - 1 \in Nat /\ n = (n - 1) + 1
    BY <1>2
  <2> QED BY <2>1
<1>4. PICK g : Follows(p, D, rank, g, m)
  BY <1>1, <1>3
<1> DEFINE h == [x \in D |-> IF rank[x] < m THEN g[x] ELSE Def(p, g, x)]
<1>5. \A x \in D : rank[x] < n => h[x] = Def(p, h, x)
  <2> TAKE x \in D
  <2> HAVE rank[x] < n
  <2>1. rank[x] \in Nat /\ ~(m < rank[x])
    BY <1>3
  <2>2. \A y \in D : rank[y] < rank[x] => g[y] = h[y]
    <3> TAKE y \in D
    <3> HAVE rank[y] < rank[x]
    <3>1. rank[y] < m
      BY <2>1
    <3> QED BY <3>1
  <2>3. Def(p, g, x) = Def(p, h, x)
    <3> HIDE DEF h
    <3> QED BY <2>2, Zenon DEF Grounded
  <2>4. h[x] = Def(p, g, x)
    <3>1. CASE rank[x] < m
      <4>1. h[x] = g[x]
        BY <3>1
      <4> QED BY <1>4, <3>1, <4>1 DEF Follows
    <3>2. CASE ~(rank[x] < m)
      BY <3>2
    <3> QED BY <3>1, <3>2
  <2> QED BY <2>3, <2>4
<1>6. Follows(p, D, rank, h, n)
  <2> HIDE DEF h
  <2> QED BY <1>5 DEF Follows
<1> QED BY <1>6

\* There is a function that is everywhere as defined.
THEOREM RecursiveFunction ==
  ASSUME \A T \in SUBSET Nat : \A t \in T : \E m \in T : \A k \in T : m <= k,
         NEW p, NEW D, NEW rank \in [D -> Nat], Grounded(p, D, rank)
  PROVE  \E F : F = [x \in D |-> Def(p, F, x)]
<1> DEFINE G(n) == CHOOSE g : Follows(p, D, rank, g, n)
           F == [x \in D |-> G(rank[x] + 1)[x]]
<1>1. \A n \in Nat : Follows(p, D, rank, G(n), n)
  BY FollowsExists
<1>2. \A x, y \in D : rank[y] <= rank[x] => F[y] = G(rank[x] + 1)[y]
  <2> TAKE x, y \in D
  <2> HAVE rank[y] <= rank[x]
  <2>1. rank[y] + 1 \in Nat /\ rank[x] + 1 \in Nat /\ rank[y] + 1 <= rank[x] + 1
        /\ rank[y] < rank[y] + 1
    OBVIOUS
  <2>2. F[y] = G(rank[y] + 1)[y]
    OBVIOUS
  <2>3. Follows(p, D, rank, G(rank[y] + 1), rank[y] + 1)
        /\ Follows(p, D, rank, G(rank[x] + 1), rank[x] + 1)
    BY <1>1, <2>1
  <2> HIDE DEF F, G
  <2>4. G(rank[y] + 1)[y] = G(rank[x] + 1)[y]
    BY <2>1, <2>3, FollowsUnique
  <2> QED BY <2>2, <2>4
<1>3. \A x \in D : F[x] = Def(p, F, x)
  <2> TAKE x \in D
  <2> HIDE DEF F, G
  <2>1. rank[x] \in Nat /\ rank[x] + 1 \in Nat /\ rank[x] < rank[x] + 1 /\ rank[x] <= rank[x]
    OBVIOUS
  <2> DEFINE g == G(rank[x] + 1)
  <2>2. F[x] = g[x]
    BY <1>2, <2>1
  <2>3. g[x] = Def(p, g, x)
    BY <1>1, <2>1 DEF Follows
  <2>4. \A y \in D : rank[y] < rank[x] => g[y] = F[y]
    <3> TAKE y \in D
    <3> HAVE rank[y] < rank[x]
    <3>1. rank[y] <= rank[x]
      BY <2>1
    <3> QED BY <1>2, <3>1
  <2>5. Def(p, g, x) = Def(p, F, x)
    <3> HIDE DEF g
    <3> QED BY <2>4, Zenon DEF Grounded
  <2> QED BY <2>2, <2>3, <2>5
<1>4. F = [x \in D |-> Def(p, F, x)]
  <2> DEFINE H == [x \in D |-> Def(p, F, x)]
  <2>1. \A x \in D : F[x] = H[x]
    BY <1>3
  <2>2. F = [x \in D |-> F[x]] /\ H = [x \in D |-> H[x]]
    OBVIOUS
  <2> HIDE DEF F, H
  <2>3. F = H
    BY <2>1, <2>2
  <2> QED BY <2>3 DEF H
<1> QED BY <1>4
=============================================================================
