------------------------ MODULE NormalizationProofs ------------------------
(***************************************************************************)
(* Normalization of a description with conditions of any depth: the        *)
(* derived predicates are numbered, closed and well-founded, and, with     *)
(* them unfolded, every condition means what it meant before.  So the      *)
(* facts printed for them let the solver accept a condition only where it  *)
(* is true, and a plain one wherever it is; and with the facts printed for *)
(* effects, its plans are plans of the description.                        *)
(***************************************************************************)
EXTENDS ActionTranslation, ReductionProofs, FiniteSetTheorems

-----------------------------------------------------------------------------
(***************************************************************************)
(* Steps one after the other.                                              *)
(***************************************************************************)
\* The body of the recursion in Run.
RunDef(p, g, i) == IF i = 0 THEN p[2] ELSE p[1][i][g[i - 1]]
RunR == INSTANCE Recursion WITH Def <- RunDef

\* If each step leads from one set of a row to the next, all lead to the last.
LEMMA RunThrough ==
  ASSUME NEW steps, NEW s, Len(steps) \in Nat, NEW Q, s \in Q[0],
         \A i \in 1 .. Len(steps) : \A x \in Q[i - 1] : steps[i][x] \in Q[i]
  PROVE  Run(steps, s) \in Q[Len(steps)]
<1> DEFINE n == Len(steps)
           p == <<steps, s>>
           after == CHOOSE F : F = [i \in 0 .. n |-> IF i = 0 THEN s ELSE steps[i][F[i - 1]]]
           rank == [i \in 0 .. n |-> i]
<1>1. n \in Nat /\ rank \in [0 .. n -> Nat]
  OBVIOUS
<1>2. Run(steps, s) = after[n]
  BY DEF Run
<1>3. RunR!Grounded(p, 0 .. n, rank)
  <2> SUFFICES ASSUME NEW i \in 0 .. n, NEW g, NEW h,
                      \A j \in 0 .. n : rank[j] < rank[i] => g[j] = h[j]
               PROVE  RunDef(p, g, i) = RunDef(p, h, i)
    BY DEF RunR!Grounded
  <2>1. CASE i = 0
    BY <2>1 DEF RunDef
  <2>2. CASE i # 0
    <3>1. i - 1 \in 0 .. n /\ rank[i - 1] < rank[i]
      BY <1>1, <2>2
    <3>2. g[i - 1] = h[i - 1]
      BY <3>1
    <3> QED BY <2>2, <3>2 DEF RunDef
  <2> QED BY <2>1, <2>2
<1>4. \E F : F = [i \in 0 .. n |-> RunDef(p, F, i)]
  <2> DEFINE D == 0 .. n
  <2>1. rank \in [D -> Nat] /\ RunR!Grounded(p, D, rank)
    BY <1>1, <1>3
  <2> HIDE DEF D, p, rank
  <2>2. \E F : F = [i \in D |-> RunDef(p, F, i)]
    BY <2>1, RunR!RecursiveFunction, LeastNatural
  <2> QED BY <2>2 DEF D
<1>5. \A F : [i \in 0 .. n |-> RunDef(p, F, i)] = [i \in 0 .. n |-> IF i = 0 THEN s ELSE steps[i][F[i - 1]]]
  BY DEF RunDef
<1>6. after = [i \in 0 .. n |-> IF i = 0 THEN s ELSE steps[i][after[i - 1]]]
  <2>1. \E F : F = [i \in 0 .. n |-> IF i = 0 THEN s ELSE steps[i][F[i - 1]]]
    <3> PICK F : F = [i \in 0 .. n |-> RunDef(p, F, i)]
      BY <1>4
    <3>1. F = [i \in 0 .. n |-> IF i = 0 THEN s ELSE steps[i][F[i - 1]]]
      BY <1>5, Zenon
    <3> QED BY <3>1
  <2> HIDE DEF n
  <2> QED BY <2>1, Zenon
<1> HIDE DEF after
<1> DEFINE S == {i \in 0 .. n : after[i] \in Q[i]}
<1>7. ASSUME NEW i \in 0 .. n, \A j \in 0 .. n : rank[j] < rank[i] => j \in S
      PROVE  i \in S
  <2>1. CASE i = 0
    BY <1>6, <2>1
  <2>2. CASE i # 0
    <3>1. i - 1 \in 0 .. n /\ rank[i - 1] < rank[i] /\ i \in 1 .. n
      BY <1>1, <2>2
    <3>2. after[i - 1] \in Q[i - 1]
      BY <1>7, <3>1
    <3>3. after[i] = steps[i][after[i - 1]]
      BY <1>6, <2>2
    <3> QED BY <3>1, <3>2, <3>3
  <2> QED BY <2>1, <2>2
<1>8. 0 .. n \subseteq S
  <2> DEFINE D == 0 .. n
  <2>1. rank \in [D -> Nat] /\ \A i \in D : (\A j \in D : rank[j] < rank[i] => j \in S) => i \in S
    BY <1>1, <1>7
  <2> HIDE DEF S, D, rank
  <2>2. D \subseteq S
    BY <2>1, RankInduction
  <2> QED BY <2>2 DEF D
<1> QED BY <1>1, <1>2, <1>8

-----------------------------------------------------------------------------
(***************************************************************************)
(* Free variables.                                                         *)
(***************************************************************************)
\* The variables of f that are not bound in it.
Free[f \in Formulas] ==
  IF IsLeaf(f) THEN Range(f.terms) \cap Var
  ELSE (UNION {Free[f.args[i]] : i \in DOMAIN f.args}) \ (IF Quantified(f) THEN Range(f.vars) ELSE {})

\* The body of Free.
FreeDef(p, g, f) ==
  IF IsLeaf(f) THEN Range(f.terms) \cap Var
  ELSE (UNION {g[f.args[i]] : i \in DOMAIN f.args}) \ (IF Quantified(f) THEN Range(f.vars) ELSE {})
FreeR == INSTANCE Recursion WITH Def <- FreeDef

\* Free, unfolded once.
LEMMA FreeAt == \A f \in Formulas : Free[f] = FreeDef(0, Free, f)
<1>1. FreeR!Grounded(0, Formulas, Height)
  <2> SUFFICES ASSUME NEW f \in Formulas, NEW g, NEW h,
                      \A e \in Formulas : Height[e] < Height[f] => g[e] = h[e]
               PROVE  FreeDef(0, g, f) = FreeDef(0, h, f)
    BY DEF FreeR!Grounded
  <2>1. CASE IsLeaf(f)
    BY <2>1 DEF FreeDef
  <2>2. CASE ~IsLeaf(f)
    <3> DEFINE A == {g[f.args[i]] : i \in DOMAIN f.args}
               B == {h[f.args[i]] : i \in DOMAIN f.args}
    <3>1. A = B
      BY <2>2, ArgumentsAgree
    <3> HIDE DEF A, B
    <3> QED BY <3>1 DEF FreeDef, A, B
  <2> QED BY <2>1, <2>2
<1>2. \E F : F = [f \in Formulas |-> FreeDef(0, F, f)]
  BY <1>1, HeightLeast, FreeR!RecursiveFunction, LeastNatural
<1>3. Free = [f \in Formulas |-> FreeDef(0, Free, f)]
  BY <1>2, Zenon DEF Free, FreeDef
<1> QED BY <1>3

\* Which variables are free in a leaf and in a node.
LEMMA FreeOf ==
  ASSUME NEW f \in Formulas
  PROVE  /\ IsLeaf(f) => Free[f] = Range(f.terms) \cap Var
         /\ ~IsLeaf(f) => \A x : x \in Free[f] <=>
              /\ \E i \in DOMAIN f.args : x \in Free[f.args[i]]
              /\ Quantified(f) => x \notin Range(f.vars)
<1>1. Free[f] = FreeDef(0, Free, f)
  BY FreeAt
<1>2. CASE IsLeaf(f)
  BY <1>1, <1>2 DEF FreeDef
<1>3. CASE ~IsLeaf(f) /\ Quantified(f)
  <2>1. FreeDef(0, Free, f) = (UNION {Free[f.args[i]] : i \in DOMAIN f.args}) \ Range(f.vars)
    BY <1>3, Zenon DEF FreeDef
  <2> QED BY <1>1, <1>3, <2>1
<1>4. CASE ~IsLeaf(f) /\ ~Quantified(f)
  <2>1. FreeDef(0, Free, f) = (UNION {Free[f.args[i]] : i \in DOMAIN f.args}) \ {}
    BY <1>4, Zenon DEF FreeDef
  <2> QED BY <1>1, <1>4, <2>1
<1> QED BY <1>2, <1>3, <1>4

\* The body of collectFreeVariables, for one stack and what was collected before.
Collected(g, f, stack, free) ==
  IF IsLeaf(f)
  THEN Run([i \in DOMAIN f.terms |->
              [fv \in Seq(Var) |-> CollectVariable(fv, f.terms[i], stack)]], free)
  ELSE LET inner == IF Quantified(f) THEN stack \cup Range(f.vars) ELSE stack
       IN  Run([i \in DOMAIN f.args |-> g[f.args[i]][inner]], free)
CollectDef(p, g, f) == [stack \in SUBSET Var |-> [free \in Seq(Var) |-> Collected(g, f, stack, free)]]
CollectR == INSTANCE Recursion WITH Def <- CollectDef

\* collectFreeVariables, unfolded once.
LEMMA CollectAt ==
  \A f \in Formulas : \A stack \in SUBSET Var : \A free \in Seq(Var) :
    collectFreeVariables[f][stack][free] = Collected(collectFreeVariables, f, stack, free)
<1>1. CollectR!Grounded(0, Formulas, Height)
  <2> SUFFICES ASSUME NEW f \in Formulas, NEW g, NEW h,
                      \A e \in Formulas : Height[e] < Height[f] => g[e] = h[e]
               PROVE  CollectDef(0, g, f) = CollectDef(0, h, f)
    BY DEF CollectR!Grounded
  <2>1. ASSUME NEW stack \in SUBSET Var, NEW free \in Seq(Var)
        PROVE  Collected(g, f, stack, free) = Collected(h, f, stack, free)
    <3>1. CASE IsLeaf(f)
      BY <3>1 DEF Collected
    <3>2. CASE ~IsLeaf(f)
      <4> DEFINE inner == IF Quantified(f) THEN stack \cup Range(f.vars) ELSE stack
                 A == [i \in DOMAIN f.args |-> g[f.args[i]][inner]]
                 B == [i \in DOMAIN f.args |-> h[f.args[i]][inner]]
      <4>1. \A i \in DOMAIN f.args : g[f.args[i]] = h[f.args[i]]
        BY <3>2, ArgumentsAgree
      <4>2. A = B
        <5> HIDE DEF inner
        <5> QED BY <4>1
      <4>3. Collected(g, f, stack, free) = Run(A, free) /\ Collected(h, f, stack, free) = Run(B, free)
        BY <3>2, Zenon DEF Collected
      <4> HIDE DEF A, B
      <4> QED BY <4>2, <4>3
    <3> QED BY <3>1, <3>2
  <2> QED BY <2>1 DEF CollectDef
<1>2. \E F : F = [f \in Formulas |-> CollectDef(0, F, f)]
  BY <1>1, HeightLeast, CollectR!RecursiveFunction, LeastNatural
<1>3. collectFreeVariables = [f \in Formulas |-> CollectDef(0, collectFreeVariables, f)]
  BY <1>2, Zenon DEF collectFreeVariables, CollectDef, Collected
<1> TAKE f \in Formulas
<1> DEFINE value(stack) == [free \in Seq(Var) |-> Collected(collectFreeVariables, f, stack, free)]
<1>4. collectFreeVariables[f] = [stack \in SUBSET Var |-> value(stack)]
  BY <1>3 DEF CollectDef
<1> TAKE stack \in SUBSET Var
<1>5. collectFreeVariables[f][stack] = value(stack)
  <2> HIDE DEF value
  <2> QED BY <1>4
<1> QED BY <1>5

\* The lists without repetition of the variables in S.
ListsOf(S) == {fv \in Seq(Var) : IsInjective(fv) /\ Range(fv) = S}

\* One more term.
LEMMA CollectOne ==
  ASSUME NEW stack, NEW S, NEW fv \in ListsOf(S), NEW t
  PROVE  CollectVariable(fv, t, stack) \in ListsOf(S \cup (({t} \cap Var) \ stack))
<1>1. fv \in Seq(Var) /\ IsInjective(fv) /\ Range(fv) = S
  BY DEF ListsOf
<1>2. CASE t \notin Var \/ t \in stack \/ t \in Range(fv)
  <2>1. S \cup (({t} \cap Var) \ stack) = S
    BY <1>1, <1>2
  <2>2. CollectVariable(fv, t, stack) = fv
    BY <1>2 DEF CollectVariable
  <2> QED BY <2>1, <2>2
<1>3. CASE t \in Var /\ t \notin stack /\ t \notin Range(fv)
  <2> DEFINE gv == Append(fv, t)
  <2>1. CollectVariable(fv, t, stack) = gv
    BY <1>3 DEF CollectVariable
  <2>2. /\ gv \in Seq(Var) /\ DOMAIN gv = DOMAIN fv \cup {Len(fv) + 1} /\ Len(fv) + 1 \notin DOMAIN fv
        /\ gv[Len(fv) + 1] = t /\ \A i \in DOMAIN fv : gv[i] = fv[i]
    BY <1>1, <1>3
  <2> HIDE DEF gv
  <2>3. IsInjective(gv)
    BY <1>1, <1>3, <2>2 DEF IsInjective, Range
  <2>4. Range(gv) = S \cup {t}
    BY <1>1, <2>2 DEF Range
  <2> QED BY <1>3, <2>1, <2>2, <2>3, <2>4 DEF ListsOf
<1> QED BY <1>2, <1>3

\* The length of a sequence that is given as a function.
LEMMA LengthOf ==
  ASSUME NEW m \in Nat, NEW s, s = [i \in 1 .. m |-> s[i]]
  PROVE  Len(s) = m /\ DOMAIN s = 1 .. m
<1> DEFINE S == {s[i] : i \in 1 .. m}
<1>1. s \in [1 .. m -> S]
  OBVIOUS
<1> HIDE DEF S
<1>2. s \in Seq(S)
  BY <1>1
<1> QED BY <1>1, <1>2

\* What is collected from a leaf.
LEMMA CollectLeaf ==
  ASSUME NEW f \in Formulas, IsLeaf(f), f.terms \in Terms,
         NEW stack \in SUBSET Var, NEW free \in Seq(Var), IsInjective(free)
  PROVE  collectFreeVariables[f][stack][free] \in ListsOf(Range(free) \cup (Free[f] \ stack))
<1> DEFINE steps == [i \in DOMAIN f.terms |->
                       [fv \in Seq(Var) |-> CollectVariable(fv, f.terms[i], stack)]]
           n == Len(f.terms)
           Up(i) == Range(free) \cup {t \in Var \ stack : \E j \in 1 .. i : f.terms[j] = t}
           Q == [i \in 0 .. n |-> ListsOf(Up(i))]
<1>1. n \in Nat /\ DOMAIN f.terms = 1 .. n
  BY DEF Terms
<1>2. collectFreeVariables[f][stack][free] = Run(steps, free)
  BY CollectAt, Zenon DEF Collected
<1>3. Len(steps) = n
  <2>1. steps = [i \in 1 .. n |-> steps[i]]
    BY <1>1
  <2> HIDE DEF steps, n
  <2> QED BY <1>1, <2>1, LengthOf
<1>4. free \in Q[0]
  <2>1. Up(0) = Range(free)
    OBVIOUS
  <2> QED BY <1>1, <2>1 DEF ListsOf
<1>5. ASSUME NEW i \in 1 .. n, NEW x \in Q[i - 1] PROVE steps[i][x] \in Q[i]
  <2>1. i - 1 \in 0 .. n /\ i \in 0 .. n /\ i \in DOMAIN f.terms
    BY <1>1
  <2>2. x \in ListsOf(Up(i - 1))
    BY <1>5, <2>1
  <2>3. CollectVariable(x, f.terms[i], stack) \in
          ListsOf(Up(i - 1) \cup (({f.terms[i]} \cap Var) \ stack))
    <3> HIDE DEF Up
    <3> QED BY <2>2, CollectOne
  <2>4. Up(i) = Up(i - 1) \cup (({f.terms[i]} \cap Var) \ stack)
    <3>1. \A j : j \in 1 .. i <=> j \in 1 .. i - 1 \/ j = i
      BY <2>1, <1>1
    <3> QED BY <3>1
  <2>5. steps[i][x] = CollectVariable(x, f.terms[i], stack)
    <3>1. x \in Seq(Var)
      BY <2>2 DEF ListsOf
    <3>2. steps[i] = [fv \in Seq(Var) |-> CollectVariable(fv, f.terms[i], stack)]
      BY <2>1
    <3> HIDE DEF steps
    <3> QED BY <3>1, <3>2
  <2>6. CollectVariable(x, f.terms[i], stack) \in ListsOf(Up(i))
    <3> HIDE DEF Up
    <3> QED BY <2>3, <2>4
  <2>7. Q[i] = ListsOf(Up(i))
    BY <2>1
  <2> HIDE DEF Q, Up, steps
  <2> QED BY <2>5, <2>6, <2>7
<1>6. Run(steps, free) \in Q[n]
  <2> HIDE DEF Q, steps, n
  <2> QED BY <1>1, <1>3, <1>4, <1>5, RunThrough
<1>7. Up(n) = Range(free) \cup (Free[f] \ stack)
  BY <1>1, FreeAt DEF FreeDef, Range
<1>8. Q[n] = ListsOf(Up(n))
  <2>1. n \in 0 .. n
    BY <1>1
  <2> HIDE DEF Up, steps, n
  <2> QED BY <2>1
<1> HIDE DEF Q, Up, steps, n
<1> QED BY <1>2, <1>6, <1>7, <1>8

\* What is collected from a node.
LEMMA CollectNode ==
  ASSUME NEW f \in Formulas, ~IsLeaf(f),
         NEW stack \in SUBSET Var, NEW free \in Seq(Var), IsInjective(free),
         \A i \in DOMAIN f.args : \A st \in SUBSET Var : \A fr \in Seq(Var) : IsInjective(fr) =>
           collectFreeVariables[f.args[i]][st][fr] \in ListsOf(Range(fr) \cup (Free[f.args[i]] \ st))
  PROVE  collectFreeVariables[f][stack][free] \in ListsOf(Range(free) \cup (Free[f] \ stack))
<1> DEFINE inner == IF Quantified(f) THEN stack \cup Range(f.vars) ELSE stack
           steps == [i \in DOMAIN f.args |-> collectFreeVariables[f.args[i]][inner]]
           n == Len(f.args)
           Up(i) == Range(free) \cup UNION {Free[f.args[j]] \ inner : j \in 1 .. i}
           Q == [i \in 0 .. n |-> ListsOf(Up(i))]
<1>1. n \in Nat /\ DOMAIN f.args = 1 .. n
  BY Subtrees
<1>2. collectFreeVariables[f][stack][free] = Run(steps, free)
  BY CollectAt, Zenon DEF Collected
<1>3. inner \in SUBSET Var
  <2>1. CASE Quantified(f)
    <3>1. f.vars \in Seq(Var)
      BY <2>1, Subtrees, NodeParts
    <3> QED BY <3>1 DEF Range
  <2>2. CASE ~Quantified(f)
    BY <2>2
  <2> QED BY <2>1, <2>2
<1>4. Len(steps) = n
  <2>1. steps = [i \in 1 .. n |-> steps[i]]
    BY <1>1
  <2> HIDE DEF steps, n
  <2> QED BY <1>1, <2>1, LengthOf
<1>5. free \in Q[0]
  <2>1. Up(0) = Range(free)
    OBVIOUS
  <2> QED BY <1>1, <2>1 DEF ListsOf
<1>6. ASSUME NEW i \in 1 .. n, NEW x \in Q[i - 1] PROVE steps[i][x] \in Q[i]
  <2>1. i - 1 \in 0 .. n /\ i \in 0 .. n /\ i \in DOMAIN f.args
    BY <1>1
  <2>2. x \in ListsOf(Up(i - 1))
    BY <1>6, <2>1
  <2>3. x \in Seq(Var) /\ IsInjective(x) /\ Range(x) = Up(i - 1)
    BY <2>2 DEF ListsOf
  <2>4. steps[i] = collectFreeVariables[f.args[i]][inner]
    BY <2>1
  <2>5. steps[i][x] \in ListsOf(Range(x) \cup (Free[f.args[i]] \ inner))
    <3> HIDE DEF steps, inner
    <3> QED BY <1>3, <2>1, <2>3, <2>4
  <2>6. Up(i) = Up(i - 1) \cup (Free[f.args[i]] \ inner)
    <3>1. \A j : j \in 1 .. i <=> j \in 1 .. i - 1 \/ j = i
      BY <2>1, <1>1
    <3> HIDE DEF inner
    <3> QED BY <3>1
  <2>7. Q[i] = ListsOf(Up(i))
    BY <2>1
  <2> HIDE DEF Q, Up, steps, inner
  <2> QED BY <2>3, <2>5, <2>6, <2>7
<1>7. Run(steps, free) \in Q[n]
  <2> HIDE DEF Q, steps, n
  <2> QED BY <1>1, <1>4, <1>5, <1>6, RunThrough
<1>8. Up(n) = Range(free) \cup (Free[f] \ stack)
  <2>1. \A x : x \in Up(n) <=> x \in Range(free) \/ \E i \in DOMAIN f.args : x \in Free[f.args[i]] \ inner
    <3> HIDE DEF inner, n
    <3> QED BY <1>1
  <2>2. \A x : x \in inner <=> x \in stack \/ (Quantified(f) /\ x \in Range(f.vars))
    OBVIOUS
  <2> HIDE DEF Up, inner
  <2>3. \A x : x \in Up(n) <=> x \in Range(free) \cup (Free[f] \ stack)
    BY <2>1, <2>2, FreeOf
  <2> QED BY <2>3
<1>9. Q[n] = ListsOf(Up(n))
  BY <1>1
<1> HIDE DEF Q, Up, steps, n
<1> QED BY <1>2, <1>7, <1>8, <1>9

\* A leaf's terms, and what else it consists of.
LEMMA LeafParts ==
  ASSUME NEW f \in Formulas, IsLeaf(f)
  PROVE  /\ f \in Leaf /\ f.terms \in Terms
         /\ f.op = "derived" => f.name \in Nat
         /\ f.op = "atom" => <<f.pred, Len(f.terms)>> \in Predicate
<1>1. f \in Trees[Height[f]] /\ Height[f] \in Nat
  BY HeightLeast
<1>2. f \in Leaf
  BY <1>1, TreeCases
<1> QED BY <1>2 DEF Leaf, Atomic

\* What holds of a formula whenever it holds of its arguments holds of all.
LEMMA FormulaInduction ==
  ASSUME NEW S, \A f \in Formulas : IsLeaf(f) => f \in S,
         \A f \in Formulas : ~IsLeaf(f) /\ (\A e \in Formulas : Height[e] < Height[f] => e \in S) => f \in S
  PROVE  Formulas \subseteq S
<1>1. \A f \in Formulas : (\A e \in Formulas : Height[e] < Height[f] => e \in S) => f \in S
  OBVIOUS
<1> QED BY <1>1, HeightLeast, RankInduction

\* collectFreeVariables adds the free variables that are not in the stack, none twice.
LEMMA Collects ==
  ASSUME NEW f \in Formulas, NEW stack \in SUBSET Var, NEW free \in Seq(Var), IsInjective(free)
  PROVE  collectFreeVariables[f][stack][free] \in ListsOf(Range(free) \cup (Free[f] \ stack))
<1> DEFINE Good(e) == \A st \in SUBSET Var : \A fr \in Seq(Var) : IsInjective(fr) =>
                        collectFreeVariables[e][st][fr] \in ListsOf(Range(fr) \cup (Free[e] \ st))
           S == {e \in Formulas : Good(e)}
<1>1. \A e \in Formulas : IsLeaf(e) => e \in S
  BY LeafParts, CollectLeaf
<1>2. ASSUME NEW e \in Formulas, ~IsLeaf(e), \A x \in Formulas : Height[x] < Height[e] => x \in S
      PROVE  e \in S
  <2>1. \A i \in DOMAIN e.args : Good(e.args[i])
    <3>1. \A i \in DOMAIN e.args : e.args[i] \in S
      BY <1>2, Subtrees
    <3> QED BY <3>1
  <2>2. Good(e)
    BY <1>2, <2>1, CollectNode
  <2> QED BY <2>2
<1>3. Formulas \subseteq S
  <2> HIDE DEF S
  <2> QED BY <1>1, <1>2, FormulaInduction
<1> QED BY <1>3

\* The parameters of a derived predicate are the free variables of what it replaces.
LEMMA Parameters ==
  ASSUME NEW f \in Formulas
  PROVE  LET params == collectFreeVariables[f][{}][<<>>]
         IN  params \in Seq(Var) /\ IsInjective(params) /\ Range(params) = Free[f]
<1>1. <<>> \in Seq(Var) /\ IsInjective(<<>>) /\ Range(<<>>) = {}
  BY DEF IsInjective, Range
<1>2. collectFreeVariables[f][{}][<<>>] \in ListsOf({} \cup (Free[f] \ {}))
  BY <1>1, Collects
<1> QED BY <1>2 DEF ListsOf

-----------------------------------------------------------------------------
(***************************************************************************)
(* What the meaning of a formula depends on.                               *)
(***************************************************************************)
\* Where x is in xs.
Position(xs, x) == CHOOSE i \in DOMAIN xs : xs[i] = x

\* What a variable stands for after binding xs.
LEMMA BindAt ==
  ASSUME NEW env, NEW xs, NEW os, NEW x \in Var
  PROVE  /\ x \in Range(xs) => Bind(env, xs, os)[x] = os[Position(xs, x)]
         /\ x \notin Range(xs) => Bind(env, xs, os)[x] = env[x]
BY DEF Bind, Range, Position

\* When a leaf is true.
LEMMA LeafModels ==
  ASSUME NEW I, NEW f \in Formulas, IsLeaf(f), NEW env \in Environments
  PROVE  env \in Models(I)[f] <=> GroundLeaf(f, env) \in I
<1> DEFINE M == Models(I)
<1>1. M[f] = Satisfying(M, f, I)
  BY ModelsAt
<1> HIDE DEF M
<1> QED BY <1>1 DEF Satisfying, IsLeaf, M

\* Environments that differ only in variables that are bound in f, or do not occur in
\* it, agree on f.
LEMMA Coincidence ==
  ASSUME NEW I, NEW f \in Formulas, NEW e1 \in Environments, NEW e2 \in Environments,
         \A x \in Free[f] : e1[x] = e2[x]
  PROVE  e1 \in Models(I)[f] <=> e2 \in Models(I)[f]
<1> DEFINE Good(g) == \A a \in Environments : \A b \in Environments :
                        (\A x \in Free[g] : a[x] = b[x]) => (a \in Models(I)[g] <=> b \in Models(I)[g])
           S == {g \in Formulas : Good(g)}
<1>1. ASSUME NEW g \in Formulas, IsLeaf(g) PROVE g \in S
  <2> SUFFICES ASSUME NEW a \in Environments, NEW b \in Environments, \A x \in Free[g] : a[x] = b[x]
               PROVE  a \in Models(I)[g] <=> b \in Models(I)[g]
    OBVIOUS
  <2>1. \A i \in DOMAIN g.terms : g.terms[i] \in Var => a[g.terms[i]] = b[g.terms[i]]
    BY <1>1, FreeOf DEF Range
  <2>2. GroundLeaf(g, a) = GroundLeaf(g, b)
    <3>1. Ground(g.terms, a) = Ground(g.terms, b)
      BY <2>1 DEF Ground
    <3> QED BY <3>1 DEF GroundLeaf
  <2>3. \A c \in Environments : c \in Models(I)[g] <=> GroundLeaf(g, c) \in I
    BY <1>1, LeafModels
  <2> QED BY <2>2, <2>3
<1>2. ASSUME NEW g \in Formulas, ~IsLeaf(g), \A h \in Formulas : Height[h] < Height[g] => h \in S
      PROVE  g \in S
  <2> SUFFICES ASSUME NEW a \in Environments, NEW b \in Environments, \A x \in Free[g] : a[x] = b[x]
               PROVE  a \in Models(I)[g] <=> b \in Models(I)[g]
    OBVIOUS
  <2>1. g \in Node(Formulas) /\ \A i \in DOMAIN g.args : g.args[i] \in Formulas /\ Good(g.args[i])
    BY <1>2, Subtrees
  <2> HIDE DEF S, Good
  <2>2. ASSUME ~Quantified(g), NEW i \in DOMAIN g.args
        PROVE  a \in Models(I)[g.args[i]] <=> b \in Models(I)[g.args[i]]
    <3>1. \A x \in Free[g.args[i]] : a[x] = b[x]
      BY <1>2, <2>2, FreeOf
    <3> QED BY <2>1, <3>1 DEF Good
  <2>3. ASSUME Quantified(g), NEW os
        PROVE  1 \in DOMAIN g.args /\ (os \in Tuples(g.vars) =>
                 (Bind(a, g.vars, os) \in Models(I)[g.args[1]] <=> Bind(b, g.vars, os) \in Models(I)[g.args[1]]))
    <3>1. g.vars \in Seq(Var) /\ 1 \in DOMAIN g.args
      BY <2>1, <2>3, NodeParts DEF Quantified
    <3>2. ASSUME NEW x \in Free[g.args[1]], x \in Var PROVE Bind(a, g.vars, os)[x] = Bind(b, g.vars, os)[x]
      <4>1. CASE x \in Range(g.vars)
        BY <3>2, <4>1, BindAt
      <4>2. CASE x \notin Range(g.vars)
        <5>1. x \in Free[g]
          BY <1>2, <3>1, <4>2, FreeOf
        <5>2. Bind(a, g.vars, os)[x] = a[x] /\ Bind(b, g.vars, os)[x] = b[x]
          BY <3>2, <4>2, BindAt
        <5> QED BY <5>1, <5>2
      <4> QED BY <4>1, <4>2
    <3>3. Free[g.args[1]] \subseteq Var
      BY <2>1, <3>1, Parameters DEF Range
    <3>4. ASSUME os \in Tuples(g.vars)
          PROVE  Bind(a, g.vars, os) \in Models(I)[g.args[1]] <=> Bind(b, g.vars, os) \in Models(I)[g.args[1]]
      <4>1. Bind(a, g.vars, os) \in Environments /\ Bind(b, g.vars, os) \in Environments
        BY <3>1, <3>4, BindType
      <4> QED BY <2>1, <3>1, <3>2, <3>3, <4>1 DEF Good
    <3> QED BY <3>1, <3>4
  <2>4. CASE g.op = "not"
    <3>1. 1 \in DOMAIN g.args
      BY <2>1, <2>4, NodeParts
    <3> QED BY <2>2, <2>4, <3>1, ModelsOf DEF Quantified
  <2>5. CASE g.op = "and"
    BY <2>2, <2>5, ModelsOf DEF Quantified
  <2>6. CASE g.op = "or"
    BY <2>2, <2>6, ModelsOf DEF Quantified
  <2>7. CASE g.op = "imply"
    <3>1. 1 \in DOMAIN g.args /\ 2 \in DOMAIN g.args
      BY <2>1, <2>7, NodeParts
    <3> QED BY <2>2, <2>7, <3>1, ModelsOf DEF Quantified
  <2>8. CASE g.op = "exists"
    BY <2>3, <2>8, QuantifiedModels DEF Quantified
  <2>9. CASE g.op = "forall"
    BY <2>3, <2>9, QuantifiedModels DEF Quantified
  <2> QED BY <2>1, <2>4, <2>5, <2>6, <2>7, <2>8, <2>9, NodeParts
<1>3. Formulas \subseteq S
  <2> HIDE DEF S
  <2> QED BY <1>1, <1>2, FormulaInduction
<1> QED BY <1>3

\* The leaves of a leaf and of a node.
LEMMA LeafSetOf ==
  ASSUME NEW f \in Formulas
  PROVE  /\ IsLeaf(f) => LeafSet(f) = {f}
         /\ ~IsLeaf(f) => \A g : g \in LeafSet(f) <=> \E i \in DOMAIN f.args : g \in LeafSet(f.args[i])
BY SubformulasOf DEF LeafSet

\* Interpretations that agree on the leaves of f agree on f.
LEMMA LeavesDecide ==
  ASSUME NEW I, NEW J, NEW f \in Formulas,
         \A g \in LeafSet(f) : \A env \in Environments : GroundLeaf(g, env) \in I <=> GroundLeaf(g, env) \in J
  PROVE  Models(I)[f] = Models(J)[f]
<1> DEFINE Same(h) == \A g \in LeafSet(h) : \A env \in Environments :
                        GroundLeaf(g, env) \in I <=> GroundLeaf(g, env) \in J
           S == {h \in Formulas : Same(h) => Models(I)[h] = Models(J)[h]}
<1>1. ASSUME NEW h \in Formulas, IsLeaf(h) PROVE h \in S
  <2> SUFFICES ASSUME Same(h) PROVE Models(I)[h] = Models(J)[h]
    OBVIOUS
  <2>1. \A env \in Environments : GroundLeaf(h, env) \in I <=> GroundLeaf(h, env) \in J
    BY <1>1, LeafSetOf
  <2>2. Models(I)[h] \subseteq Environments /\ Models(J)[h] \subseteq Environments
    BY ModelsOf
  <2>3. \A env \in Environments : env \in Models(I)[h] <=> env \in Models(J)[h]
    BY <1>1, <2>1, LeafModels
  <2> HIDE DEF S, Same
  <2> QED BY <2>2, <2>3
<1>2. ASSUME NEW h \in Formulas, ~IsLeaf(h), \A g \in Formulas : Height[g] < Height[h] => g \in S
      PROVE  h \in S
  <2> SUFFICES ASSUME Same(h) PROVE Models(I)[h] = Models(J)[h]
    OBVIOUS
  <2>1. h \in Node(Formulas) /\ \A i \in DOMAIN h.args : Models(I)[h.args[i]] = Models(J)[h.args[i]]
    <3>1. \A i \in DOMAIN h.args : h.args[i] \in S /\ Same(h.args[i])
      BY <1>2, Subtrees, LeafSetOf
    <3> QED BY <1>2, <3>1, Subtrees
  <2> HIDE DEF S, Same
  <2>2. /\ h.op \in {"not", "exists", "forall", "imply"} => 1 \in DOMAIN h.args
        /\ h.op = "imply" => 2 \in DOMAIN h.args
    BY <2>1, NodeParts
  <2>3. ASSUME NEW env \in Environments
        PROVE  env \in Models(I)[h] <=> env \in Models(J)[h]
    <3>1. CASE h.op = "not"
      BY <2>1, <2>2, <3>1, ModelsOf
    <3>2. CASE h.op = "and"
      BY <2>1, <3>2, ModelsOf
    <3>3. CASE h.op = "or"
      BY <2>1, <3>3, ModelsOf
    <3>4. CASE h.op = "imply"
      BY <2>1, <2>2, <3>4, ModelsOf
    <3>5. CASE h.op = "exists"
      BY <2>1, <2>2, <3>5, QuantifiedModels
    <3>6. CASE h.op = "forall"
      BY <2>1, <2>2, <3>6, QuantifiedModels
    <3> QED BY <2>1, <3>1, <3>2, <3>3, <3>4, <3>5, <3>6, NodeParts
  <2>4. Models(I)[h] \subseteq Environments /\ Models(J)[h] \subseteq Environments
    BY ModelsOf
  <2> QED BY <2>3, <2>4
<1>3. Formulas \subseteq S
  <2> HIDE DEF S
  <2> QED BY <1>1, <1>2, FormulaInduction
<1> QED BY <1>3

-----------------------------------------------------------------------------
(***************************************************************************)
(* Contexts.                                                               *)
(***************************************************************************)
\* The last number given out.
LastNumber(c) == c.start + Len(c.derivedPredicates) - 1

\* What a declaration should be once the last number given out is hi.
Proper(d, hi) ==
  /\ IsFlat(d.precondition, {"and", "or"})
  /\ IsInjective(d.parameters \o d.existentialParameters)
  /\ \A l \in LeafSet(d.precondition) :
       /\ Range(l.terms) \cap Var \subseteq Range(d.parameters) \cup Range(d.existentialParameters)
       /\ l.op = "derived" => l.name \in d.name + 1 .. hi

\* d continues c: the new declarations are numbered on and proper.
Grown(c, d) ==
  /\ c \in Contexts /\ d \in Contexts /\ d.start = c.start
  /\ Len(c.derivedPredicates) <= Len(d.derivedPredicates)
  /\ \A i \in 1 .. Len(c.derivedPredicates) : d.derivedPredicates[i] = c.derivedPredicates[i]
  /\ \A i \in Len(c.derivedPredicates) + 1 .. Len(d.derivedPredicates) :
       /\ d.derivedPredicates[i].name = d.start + i - 1
       /\ Proper(d.derivedPredicates[i], LastNumber(d))

\* In J, the declaration's predicate is true of what its body says.
Fulfils(J, d) ==
  \A ps \in Tuples(d.parameters) : <<"derived", d.name, ps>> \in J <=>
    \E os \in Tuples(d.existentialParameters) :
      Bind(Bind(NoBinding, d.parameters, ps), d.existentialParameters, os) \in Models(J)[d.precondition]
FulfilsNew(J, c, d) ==
  \A i \in Len(c.derivedPredicates) + 1 .. Len(d.derivedPredicates) : Fulfils(J, d.derivedPredicates[i])

\* What the declarations that d adds to c make of g is f.
Related(f, g, c, d) ==
  /\ g \in Formulas
  /\ \A l \in LeafSet(g) : /\ Range(l.terms) \cap Var \subseteq Free[f]
                           /\ l.op = "derived" => l.name \in LastNumber(c) + 1 .. LastNumber(d)
  /\ \A J : FulfilsNew(J, c, d) => Models(J)[g] = Models(J)[f]

\* What a context consists of.
LEMMA ContextParts ==
  ASSUME NEW c \in Contexts
  PROVE  /\ c.start \in Nat /\ c.derivedPredicates \in Seq(DerivedPredicates)
         /\ Len(c.derivedPredicates) \in Nat
         /\ DOMAIN c.derivedPredicates = 1 .. Len(c.derivedPredicates)
         /\ \A i \in DOMAIN c.derivedPredicates : c.derivedPredicates[i] \in DerivedPredicates
BY DEF Contexts

\* A context continues itself.
LEMMA GrownSelf == \A c \in Contexts : Grown(c, c)
<1> TAKE c \in Contexts
<1>1. Len(c.derivedPredicates) \in Nat
  BY ContextParts
<1> QED BY <1>1 DEF Grown

\* A declaration that is proper remains so.
LEMMA ProperGrows ==
  ASSUME NEW d \in DerivedPredicates, NEW m \in Int, NEW n \in Int, m <= n, Proper(d, m)
  PROVE  Proper(d, n)
<1>1. d.name \in Nat
  BY DEF DerivedPredicates
<1>2. d.name + 1 .. m \subseteq d.name + 1 .. n
  BY <1>1
<1> QED BY <1>2 DEF Proper

\* What continues a continuation of c continues c.
LEMMA GrownOn ==
  ASSUME NEW c, NEW d, NEW e, Grown(c, d), Grown(d, e)
  PROVE  Grown(c, e)
<1> DEFINE C == c.derivedPredicates
           D == d.derivedPredicates
           E == e.derivedPredicates
<1>1. /\ c \in Contexts /\ d \in Contexts /\ e \in Contexts /\ e.start = c.start /\ d.start = c.start
      /\ Len(C) <= Len(D) /\ Len(D) <= Len(E)
      /\ \A i \in 1 .. Len(C) : D[i] = C[i]
      /\ \A i \in 1 .. Len(D) : E[i] = D[i]
      /\ \A i \in Len(C) + 1 .. Len(D) : D[i].name = d.start + i - 1 /\ Proper(D[i], LastNumber(d))
      /\ \A i \in Len(D) + 1 .. Len(E) : E[i].name = e.start + i - 1 /\ Proper(E[i], LastNumber(e))
  BY DEF Grown
<1>2. /\ Len(C) \in Nat /\ Len(D) \in Nat /\ Len(E) \in Nat /\ c.start \in Nat
      /\ DOMAIN D = 1 .. Len(D) /\ \A i \in DOMAIN D : D[i] \in DerivedPredicates
  BY <1>1, ContextParts
<1>3. LastNumber(d) \in Int /\ LastNumber(e) \in Int /\ LastNumber(d) <= LastNumber(e)
  BY <1>1, <1>2 DEF LastNumber
<1> HIDE DEF C, D, E
<1>4. \A i \in 1 .. Len(C) : E[i] = C[i]
  BY <1>1, <1>2
<1>5. ASSUME NEW i \in Len(C) + 1 .. Len(E)
      PROVE  E[i].name = e.start + i - 1 /\ Proper(E[i], LastNumber(e))
  <2>1. CASE i \in Len(C) + 1 .. Len(D)
    <3>1. E[i] = D[i] /\ D[i] \in DerivedPredicates
      BY <1>1, <1>2, <2>1
    <3>2. Proper(D[i], LastNumber(e))
      BY <1>1, <1>3, <2>1, <3>1, ProperGrows
    <3> QED BY <1>1, <2>1, <3>1, <3>2
  <2>2. CASE i \in Len(D) + 1 .. Len(E)
    BY <1>1, <2>2
  <2> QED BY <1>1, <1>2, <1>5, <2>1, <2>2
<1>6. Len(C) <= Len(E)
  BY <1>1, <1>2
<1> QED BY <1>1, <1>4, <1>5, <1>6 DEF Grown, C, D, E

\* What fulfils all new declarations fulfils those of a part of the way.
LEMMA FulfilsPart ==
  ASSUME NEW J, NEW a, NEW b, NEW c, NEW d, Grown(a, b), Grown(b, c), Grown(c, d), FulfilsNew(J, a, d)
  PROVE  FulfilsNew(J, b, c)
<1> SUFFICES ASSUME NEW i \in Len(b.derivedPredicates) + 1 .. Len(c.derivedPredicates)
             PROVE  Fulfils(J, c.derivedPredicates[i])
  BY DEF FulfilsNew
<1>1. /\ Len(a.derivedPredicates) \in Nat /\ Len(b.derivedPredicates) \in Nat
      /\ Len(c.derivedPredicates) \in Nat /\ Len(d.derivedPredicates) \in Nat
  BY ContextParts DEF Grown
<1>2. /\ Len(a.derivedPredicates) <= Len(b.derivedPredicates)
      /\ Len(c.derivedPredicates) <= Len(d.derivedPredicates)
      /\ \A j \in 1 .. Len(c.derivedPredicates) : d.derivedPredicates[j] = c.derivedPredicates[j]
  BY DEF Grown
<1>3. /\ i \in 1 .. Len(c.derivedPredicates)
      /\ i \in Len(a.derivedPredicates) + 1 .. Len(d.derivedPredicates)
  BY <1>1, <1>2
<1> QED BY <1>2, <1>3 DEF FulfilsNew

\* On the way the last number grows.
LEMMA NumbersGrow ==
  ASSUME NEW a, NEW b, NEW c, NEW d, Grown(a, b), Grown(b, c), Grown(c, d)
  PROVE  /\ LastNumber(a) \in Int /\ LastNumber(b) \in Int /\ LastNumber(c) \in Int /\ LastNumber(d) \in Int
         /\ LastNumber(a) <= LastNumber(b) /\ LastNumber(c) <= LastNumber(d)
<1> DEFINE A == Len(a.derivedPredicates)
           B == Len(b.derivedPredicates)
           C == Len(c.derivedPredicates)
           D == Len(d.derivedPredicates)
<1>1. /\ A \in Nat /\ B \in Nat /\ C \in Nat /\ D \in Nat
      /\ a.start \in Nat /\ b.start = a.start /\ c.start = a.start /\ d.start = a.start
      /\ A <= B /\ C <= D
  BY ContextParts DEF Grown
<1>2. /\ LastNumber(a) = a.start + A - 1 /\ LastNumber(b) = b.start + B - 1
      /\ LastNumber(c) = c.start + C - 1 /\ LastNumber(d) = d.start + D - 1
  BY DEF LastNumber
<1> HIDE DEF A, B, C, D
<1> QED BY <1>1, <1>2

\* What is related on a part of the way is related on all of it.
LEMMA RelatedOn ==
  ASSUME NEW f, NEW g, NEW a, NEW b, NEW c, NEW d, Grown(a, b), Grown(b, c), Grown(c, d), Related(f, g, b, c)
  PROVE  Related(f, g, a, d)
<1>1. /\ LastNumber(a) \in Int /\ LastNumber(b) \in Int /\ LastNumber(c) \in Int /\ LastNumber(d) \in Int
      /\ LastNumber(a) <= LastNumber(b) /\ LastNumber(c) <= LastNumber(d)
  BY NumbersGrow
<1>2. LastNumber(b) + 1 .. LastNumber(c) \subseteq LastNumber(a) + 1 .. LastNumber(d)
  BY <1>1
<1>3. ASSUME NEW J, FulfilsNew(J, a, d) PROVE Models(J)[g] = Models(J)[f]
  BY <1>3, FulfilsPart DEF Related
<1> QED BY <1>2, <1>3 DEF Related

-----------------------------------------------------------------------------
(***************************************************************************)
(* One formula after the other.                                            *)
(***************************************************************************)
\* One more result, and the context its step leaves.
Extended(x, step) ==
  [result |-> Append(x.result, step[x.context].result), context |-> step[x.context].context]

\* The body of the recursion in NormalizeEach.
EachDef(p, g, i) ==
  IF i = 0 THEN [result |-> <<>>, context |-> p[2]] ELSE Extended(g[i - 1], p[1][i])
EachR == INSTANCE Recursion WITH Def <- EachDef

\* If each step leads from one set of a row to the next, all lead to the last.
LEMMA EachThrough ==
  ASSUME NEW steps, NEW context, Len(steps) \in Nat, NEW Q, [result |-> <<>>, context |-> context] \in Q[0],
         \A i \in 1 .. Len(steps) : \A x \in Q[i - 1] : Extended(x, steps[i]) \in Q[i]
  PROVE  NormalizeEach(steps, context) \in Q[Len(steps)]
<1> DEFINE n == Len(steps)
           p == <<steps, context>>
           first == [result |-> <<>>, context |-> context]
           next(last, step) == LET r == step[last.context]
                               IN  [result |-> Append(last.result, r.result), context |-> r.context]
           after == CHOOSE F : F = [i \in 0 .. n |-> IF i = 0 THEN first
                                                     ELSE next(F[i - 1], steps[i])]
           rank == [i \in 0 .. n |-> i]
<1>1. n \in Nat /\ rank \in [0 .. n -> Nat]
  OBVIOUS
<1>2. NormalizeEach(steps, context) = after[n]
  BY Zenon DEF NormalizeEach
<1>3. EachR!Grounded(p, 0 .. n, rank)
  <2> SUFFICES ASSUME NEW i \in 0 .. n, NEW g, NEW h,
                      \A j \in 0 .. n : rank[j] < rank[i] => g[j] = h[j]
               PROVE  EachDef(p, g, i) = EachDef(p, h, i)
    BY DEF EachR!Grounded
  <2>1. CASE i = 0
    BY <2>1 DEF EachDef
  <2>2. CASE i # 0
    <3>1. i - 1 \in 0 .. n /\ rank[i - 1] < rank[i]
      BY <1>1, <2>2
    <3>2. g[i - 1] = h[i - 1]
      BY <3>1
    <3> QED BY <2>2, <3>2 DEF EachDef
  <2> QED BY <2>1, <2>2
<1>4. \E F : F = [i \in 0 .. n |-> EachDef(p, F, i)]
  <2> DEFINE D == 0 .. n
  <2>1. rank \in [D -> Nat] /\ EachR!Grounded(p, D, rank)
    BY <1>1, <1>3
  <2> HIDE DEF D, p, rank
  <2>2. \E F : F = [i \in D |-> EachDef(p, F, i)]
    BY <2>1, EachR!RecursiveFunction, LeastNatural
  <2> QED BY <2>2 DEF D
<1>5. \A F : [i \in 0 .. n |-> EachDef(p, F, i)] =
             [i \in 0 .. n |-> IF i = 0 THEN first ELSE next(F[i - 1], steps[i])]
  BY DEF EachDef, Extended
<1>6. after = [i \in 0 .. n |-> IF i = 0 THEN first ELSE next(after[i - 1], steps[i])]
  <2>1. \E F : F = [i \in 0 .. n |-> IF i = 0 THEN first ELSE next(F[i - 1], steps[i])]
    <3> PICK F : F = [i \in 0 .. n |-> EachDef(p, F, i)]
      BY <1>4
    <3>1. F = [i \in 0 .. n |-> IF i = 0 THEN first ELSE next(F[i - 1], steps[i])]
      BY <1>5, Zenon
    <3> QED BY <3>1
  <2> HIDE DEF n, next, first
  <2> QED BY <2>1, Zenon
<1>7. \A x, step : next(x, step) = Extended(x, step)
  BY DEF Extended
<1> HIDE DEF after, next
<1> DEFINE S == {i \in 0 .. n : after[i] \in Q[i]}
<1>8. ASSUME NEW i \in 0 .. n, \A j \in 0 .. n : rank[j] < rank[i] => j \in S
      PROVE  i \in S
  <2>1. CASE i = 0
    BY <1>6, <2>1
  <2>2. CASE i # 0
    <3>1. i - 1 \in 0 .. n /\ rank[i - 1] < rank[i] /\ i \in 1 .. n
      BY <1>1, <2>2
    <3>2. after[i - 1] \in Q[i - 1]
      BY <1>8, <3>1
    <3>3. after[i] = Extended(after[i - 1], steps[i])
      BY <1>6, <1>7, <2>2
    <3> QED BY <3>1, <3>2, <3>3
  <2> QED BY <2>1, <2>2
<1>9. 0 .. n \subseteq S
  <2> DEFINE D == 0 .. n
  <2>1. rank \in [D -> Nat] /\ \A i \in D : (\A j \in D : rank[j] < rank[i] => j \in S) => i \in S
    BY <1>1, <1>8
  <2> HIDE DEF S, D, rank
  <2>2. D \subseteq S
    BY <2>1, RankInduction
  <2> QED BY <2>2 DEF D
<1> QED BY <1>1, <1>2, <1>9

\* W relates what goes into a step and what comes out of it with the contexts before
\* and after; what it relates on a part of the way it relates on all of it.
Lasting(W) ==
  \A f, g, a, b, c, d : Grown(a, b) /\ Grown(b, c) /\ Grown(c, d) /\ <<f, g, b, c>> \in W => <<f, g, a, d>> \in W

\* What normalizes one formula, and what normalizes n of them in turn.
EachStep(n, fs, steps, T, W) ==
  \A i \in 1 .. n : \A c \in Contexts :
    /\ steps[i][c].result \in T /\ Grown(c, steps[i][c].context)
    /\ <<fs[i], steps[i][c].result, c, steps[i][c].context>> \in W
All(n, fs, r, context, T, W) ==
  /\ r \in [result : Seq(T), context : Contexts] /\ Len(r.result) = n /\ Grown(context, r.context)
  /\ \A i \in 1 .. n : <<fs[i], r.result[i], context, r.context>> \in W

\* What each step does for one formula, all do for all of them.
LEMMA EachMeets ==
  ASSUME NEW n \in Nat, NEW fs, NEW steps, Len(steps) = n, NEW context \in Contexts, NEW T, NEW W, Lasting(W),
         EachStep(n, fs, steps, T, W)
  PROVE  All(n, fs, NormalizeEach(steps, context), context, T, W)
<1>0. \A i \in 1 .. n : \A c \in Contexts :
           /\ steps[i][c].result \in T /\ Grown(c, steps[i][c].context)
           /\ <<fs[i], steps[i][c].result, c, steps[i][c].context>> \in W
  BY DEF EachStep
<1> DEFINE Good(i, x) == /\ Len(x.result) = i /\ Grown(context, x.context)
                         /\ \A j \in 1 .. i : <<fs[j], x.result[j], context, x.context>> \in W
           R == [result : Seq(T), context : Contexts]
           Q == [i \in 0 .. n |-> {x \in R : Good(i, x)}]
<1>1. [result |-> <<>>, context |-> context] \in Q[0]
  BY GrownSelf
<1>2. ASSUME NEW i \in 1 .. n, NEW x \in Q[i - 1] PROVE Extended(x, steps[i]) \in Q[i]
  <2> DEFINE y == steps[i][x.context]
             s == x.result
             t == Append(s, y.result)
  <2>1. i - 1 \in 0 .. n /\ i \in 0 .. n /\ i - 1 \in Nat
    OBVIOUS
  <2>2. /\ s \in Seq(T) /\ x.context \in Contexts /\ Len(s) = i - 1 /\ Grown(context, x.context)
        /\ \A j \in 1 .. i - 1 : <<fs[j], s[j], context, x.context>> \in W
    BY <2>1
  <2>3. y.result \in T /\ Grown(x.context, y.context) /\ <<fs[i], y.result, x.context, y.context>> \in W
    BY <1>0, <2>2
  <2>4. Extended(x, steps[i]) = [result |-> t, context |-> y.context]
    BY DEF Extended
  <2> HIDE DEF s, y, Q
  <2>5. t \in Seq(T) /\ Len(t) = i /\ t[i] = y.result /\ \A j \in 1 .. i - 1 : t[j] = s[j]
    BY <2>1, <2>2, <2>3
  <2>6. y.context \in Contexts /\ Grown(context, y.context)
    <3>1. y.context \in Contexts
      BY <2>3 DEF Grown
    <3>2. Grown(context, y.context)
      BY <2>2, <2>3, GrownOn
    <3> QED BY <3>1, <3>2
  <2>7. Grown(y.context, y.context) /\ Grown(context, context)
    BY <2>6, GrownSelf
  <2>8. ASSUME NEW j \in 1 .. i PROVE <<fs[j], t[j], context, y.context>> \in W
    <3>1. CASE j \in 1 .. i - 1
      <4>1. <<fs[j], s[j], context, x.context>> \in W /\ t[j] = s[j]
        BY <2>2, <2>5, <3>1
      <4> QED BY <2>2, <2>3, <2>7, <4>1 DEF Lasting
    <3>2. CASE j = i
      BY <2>2, <2>3, <2>5, <2>7, <3>2 DEF Lasting
    <3>3. j \in 1 .. i - 1 \/ j = i
      BY <2>1, <2>8
    <3> QED BY <3>1, <3>2, <3>3
  <2> HIDE DEF t
  <2>9. [result |-> t, context |-> y.context] \in R /\ Good(i, [result |-> t, context |-> y.context])
    BY <2>5, <2>6, <2>8
  <2> QED BY <2>1, <2>4, <2>9 DEF Q
<1>3. NormalizeEach(steps, context) \in Q[n]
  <2> HIDE DEF Q
  <2> QED BY <1>1, <1>2, EachThrough
<1> QED BY <1>3 DEF All

-----------------------------------------------------------------------------
(***************************************************************************)
(* Nested conditions.                                                      *)
(***************************************************************************)
\* What a reduced condition consists of.
LEMMA NormalParts ==
  ASSUME NEW f \in NormalForm
  PROVE  /\ f \in Formulas
         /\ ~IsLeaf(f) => /\ f \in Node(Formulas) /\ f.op \in {"not", "and", "or", "exists"}
                          /\ Len(f.args) \in Nat /\ DOMAIN f.args = 1 .. Len(f.args)
                          /\ f.op \in {"not", "exists"} => Len(f.args) = 1 /\ 1 \in DOMAIN f.args
                          /\ f.op = "exists" => f.vars \in Seq(Var) /\ IsInjective(f.vars)
                          /\ f.op = "not" => f.args[1].op # "not"
                          /\ \A i \in DOMAIN f.args : f.args[i] \in NormalForm /\ Height[f.args[i]] < Height[f]
<1>1. f \in Formulas /\ f \in Subformulas[f]
  BY SubformulasOf DEF NormalForm
<1>2. ASSUME ~IsLeaf(f)
      PROVE  /\ f \in Node(Formulas) /\ f.op \in {"not", "and", "or", "exists"}
             /\ Len(f.args) \in Nat /\ DOMAIN f.args = 1 .. Len(f.args)
             /\ f.op \in {"not", "exists"} => Len(f.args) = 1 /\ 1 \in DOMAIN f.args
             /\ f.op = "exists" => f.vars \in Seq(Var) /\ IsInjective(f.vars)
             /\ f.op = "not" => f.args[1].op # "not"
             /\ \A i \in DOMAIN f.args : f.args[i] \in NormalForm /\ Height[f.args[i]] < Height[f]
  <2>1. /\ f \in Node(Formulas) /\ f.args \in Seq(Formulas)
        /\ \A i \in DOMAIN f.args : f.args[i] \in Formulas /\ Height[f.args[i]] < Height[f]
    BY <1>1, <1>2, Subtrees
  <2>2. f.op \notin {"imply", "forall"} /\ (f.op = "not" => f.args[1].op # "not")
    BY <1>1 DEF NormalForm
  <2>3. Len(f.args) \in Nat /\ DOMAIN f.args = 1 .. Len(f.args)
    BY <2>1
  <2>4. ASSUME NEW i \in DOMAIN f.args PROVE f.args[i] \in NormalForm
    <3>1. Subformulas[f.args[i]] \subseteq Subformulas[f]
      BY <1>1, <1>2, <2>4, SubformulasOf
    <3> QED BY <2>1, <2>4, <3>1 DEF NormalForm
  <2>5. /\ f.op \in {"and", "or", "imply", "not", "exists", "forall"}
        /\ f.op \in {"not", "exists"} => Len(f.args) = 1
        /\ f.op = "exists" => f.vars \in Seq(Var) /\ IsInjective(f.vars)
    BY <2>1, NodeParts DEF Quantified
  <2> QED BY <2>1, <2>2, <2>3, <2>4, <2>5
<1> QED BY <1>1, <1>2

\* The body of normalizeNested, for one context.
NestedValue(g, f, context) ==
  CASE IsLeaf(f)    -> [result |-> f, context |-> context]
    [] f.op = "not" -> LET r == g[f.args[1]][context] IN [r EXCEPT !.result = Not(@)]
    [] OTHER        -> Replaced(g, f, context)
NestedDef(p, g, f) == [context \in Contexts |-> NestedValue(g, f, context)]
NestedR == INSTANCE Recursion WITH Def <- NestedDef

\* TopLevel depends on what becomes of the arguments of "and" and "or", and of any other
\* condition itself.
LEMMA TopLevelAgrees ==
  ASSUME NEW f \in NormalForm, NEW g, NEW h, NEW context,
         ~IsLeaf(f) => \A i \in DOMAIN f.args : g[f.args[i]] = h[f.args[i]],
         g[f] = h[f] \/ f.op \in {"and", "or"}
  PROVE  TopLevel(g, f, context) = TopLevel(h, f, context)
<1>1. CASE f.op \in {"and", "or"}
  <2> DEFINE A == [i \in DOMAIN f.args |-> g[f.args[i]]]
             B == [i \in DOMAIN f.args |-> h[f.args[i]]]
  <2>1. A = B
    BY <1>1 DEF IsLeaf
  <2>2. /\ TopLevel(g, f, context) = [result |-> [f EXCEPT !.args = NormalizeEach(A, context).result],
                                      context |-> NormalizeEach(A, context).context]
        /\ TopLevel(h, f, context) = [result |-> [f EXCEPT !.args = NormalizeEach(B, context).result],
                                      context |-> NormalizeEach(B, context).context]
    BY <1>1 DEF TopLevel
  <2> HIDE DEF A, B
  <2> QED BY <2>1, <2>2
<1>2. CASE f.op \notin {"and", "or"}
  BY <1>2 DEF TopLevel
<1> QED BY <1>1, <1>2

\* normalizeNested, unfolded once.
LEMMA NestedAt ==
  \A f \in NormalForm : \A context \in Contexts :
    normalizeNested[f][context] = NestedValue(normalizeNested, f, context)
<1> DEFINE rank == [f \in NormalForm |-> Height[f]]
<1>1. rank \in [NormalForm -> Nat]
  BY HeightLeast DEF NormalForm
<1>2. NestedR!Grounded(0, NormalForm, rank)
  <2> SUFFICES ASSUME NEW f \in NormalForm, NEW g, NEW h,
                      \A e \in NormalForm : rank[e] < rank[f] => g[e] = h[e]
               PROVE  NestedDef(0, g, f) = NestedDef(0, h, f)
    BY DEF NestedR!Grounded
  <2>1. \A e \in NormalForm : Height[e] < Height[f] => g[e] = h[e]
    OBVIOUS
  <2> HIDE DEF rank
  <2>2. ASSUME NEW context \in Contexts
        PROVE  NestedValue(g, f, context) = NestedValue(h, f, context)
    <3>1. CASE IsLeaf(f)
      <4>1. f.op # "not"
        BY <3>1 DEF IsLeaf
      <4>2. \A k : NestedValue(k, f, context) = [result |-> f, context |-> context]
        BY <3>1, <4>1 DEF NestedValue
      <4> QED BY <4>2
    <3>2. CASE ~IsLeaf(f) /\ f.op = "not"
      <4>1. g[f.args[1]] = h[f.args[1]]
        BY <2>1, <3>2, NormalParts
      <4>2. /\ NestedValue(g, f, context) = [g[f.args[1]][context] EXCEPT !.result = Not(@)]
            /\ NestedValue(h, f, context) = [h[f.args[1]][context] EXCEPT !.result = Not(@)]
        BY <3>2 DEF NestedValue
      <4> QED BY <4>1, <4>2
    <3>3. CASE ~IsLeaf(f) /\ f.op # "not"
      <4> DEFINE params == collectFreeVariables[f][{}][<<>>]
                 added  == addDerivedPredicate(params, context)
      <4>1. TopLevel(g, Scope(f), added) = TopLevel(h, Scope(f), added)
        <5>1. CASE f.op = "exists"
          <6>1. f.args[1] \in NormalForm /\ Height[f.args[1]] < Height[f] /\ Scope(f) = f.args[1]
            BY <3>3, <5>1, NormalParts DEF Scope
          <6>2. ~IsLeaf(f.args[1]) => \A i \in DOMAIN f.args[1].args :
                  g[f.args[1].args[i]] = h[f.args[1].args[i]]
            <7>1. /\ \A e \in NormalForm : Height[e] \in Nat
                  /\ ~IsLeaf(f.args[1]) => \A i \in DOMAIN f.args[1].args :
                       f.args[1].args[i] \in NormalForm /\ Height[f.args[1].args[i]] < Height[f.args[1]]
              BY <6>1, NormalParts, HeightLeast
            <7>2. ~IsLeaf(f.args[1]) => \A i \in DOMAIN f.args[1].args :
                       Height[f.args[1].args[i]] < Height[f]
              BY <6>1, <7>1
            <7> QED BY <2>1, <7>1, <7>2
          <6>3. g[f.args[1]] = h[f.args[1]]
            BY <2>1, <6>1
          <6> QED BY <6>1, <6>2, <6>3, TopLevelAgrees
        <5>2. CASE f.op # "exists"
          <6>1. f.op \in {"and", "or"} /\ Scope(f) = f
            BY <3>3, <5>2, NormalParts DEF Scope
          <6>2. \A i \in DOMAIN f.args : g[f.args[i]] = h[f.args[i]]
            BY <2>1, <3>3, NormalParts
          <6> QED BY <6>1, <6>2, TopLevelAgrees
        <5> QED BY <5>1, <5>2
      <4>2. Replaced(g, f, context) = Replaced(h, f, context)
        BY <4>1 DEF Replaced
      <4> QED BY <3>3, <4>2 DEF NestedValue
    <3> QED BY <3>1, <3>2, <3>3
  <2> QED BY <2>2 DEF NestedDef
<1>3. \E F : F = [f \in NormalForm |-> NestedDef(0, F, f)]
  <2> HIDE DEF rank
  <2> QED BY <1>1, <1>2, NestedR!RecursiveFunction, LeastNatural
<1>4. normalizeNested = [f \in NormalForm |-> NestedDef(0, normalizeNested, f)]
  BY <1>3, Zenon DEF normalizeNested, NestedDef, NestedValue
<1> TAKE f \in NormalForm
<1> DEFINE value(context) == NestedValue(normalizeNested, f, context)
<1>5. normalizeNested[f] = [context \in Contexts |-> value(context)]
  BY <1>4 DEF NestedDef
<1> TAKE context \in Contexts
<1>6. normalizeNested[f][context] = value(context)
  <2> HIDE DEF value
  <2> QED BY <1>5
<1> QED BY <1>6

-----------------------------------------------------------------------------
(***************************************************************************)
(* What a derived predicate means.                                         *)
(***************************************************************************)
\* Where there is an environment at all, NoBinding is one.
LEMMA NoBindingType == \A env \in Environments : NoBinding \in Environments
<1> TAKE env \in Environments
<1>1. \A x \in Var : (CHOOSE o \in Object : TRUE) \in Object
  <2> TAKE x \in Var
  <2>1. env[x] \in Object
    BY DEF Environments
  <2> QED BY <2>1
<1> QED BY <1>1 DEF NoBinding, Environments

\* The terms of a use of a derived predicate are its parameters.
LEMMA DerivedLeaf ==
  ASSUME NEW n \in Nat, NEW params \in Seq(Var)
  PROVE  LET l == Derived(n, params)
         IN  /\ l \in Leaf /\ l \in Formulas /\ IsLeaf(l)
             /\ l.op = "derived" /\ l.name = n /\ l.terms = params
             /\ \A env : GroundLeaf(l, env) = <<"derived", n, [i \in DOMAIN params |-> env[params[i]]]>>
<1> DEFINE l == Derived(n, params)
<1>1. params \in Terms
  BY DEF Terms
<1>2. l \in Leaf /\ IsLeaf(l) /\ l.op = "derived" /\ l.name = n /\ l.terms = params
  BY <1>1 DEF Derived, Leaf, IsLeaf
<1>3. l \in Formulas
  <2>1. 0 \in Nat /\ 0 <= 6 * Depth
    BY DepthAssumption
  <2> QED BY <1>2, <2>1, NodeTree, TreesAreFormulas
<1>4. ASSUME NEW env PROVE GroundLeaf(l, env) = <<"derived", n, [i \in DOMAIN params |-> env[params[i]]]>>
  <2>1. Ground(params, env) = [i \in DOMAIN params |-> env[params[i]]]
    <3>1. \A i \in DOMAIN params : params[i] \in Var
      OBVIOUS
    <3> QED BY <3>1 DEF Ground
  <2>2. GroundLeaf(l, env) = <<"derived", n, Ground(params, env)>>
    BY <1>2 DEF GroundLeaf
  <2> QED BY <2>1, <2>2
<1> QED BY <1>2, <1>3, <1>4

\* Binding a list of distinct variables to what they stand for in env.
LEMMA BindBack ==
  ASSUME NEW xs \in Seq(Var), IsInjective(xs), NEW env \in Environments
  PROVE  LET os == [i \in DOMAIN xs |-> env[xs[i]]]
             b  == Bind(NoBinding, xs, os)
         IN  os \in Tuples(xs) /\ b \in Environments /\ \A x \in Range(xs) : b[x] = env[x]
<1> DEFINE os == [i \in DOMAIN xs |-> env[xs[i]]]
           b == Bind(NoBinding, xs, os)
<1>1. os \in Tuples(xs)
  BY DEF Tuples, Environments
<1>2. b \in Environments
  <2> HIDE DEF os
  <2> QED BY <1>1, NoBindingType, BindType
<1>3. ASSUME NEW x \in Range(xs) PROVE b[x] = env[x]
  <2>1. x \in Var
    BY DEF Range
  <2>2. b[x] = os[Position(xs, x)]
    BY <2>1, BindAt
  <2>3. Position(xs, x) \in DOMAIN xs /\ xs[Position(xs, x)] = x
    BY DEF Range, Position
  <2> HIDE DEF b
  <2> QED BY <2>2, <2>3
<1> QED BY <1>1, <1>2, <1>3

\* Binding no variable.
LEMMA BindNothing ==
  ASSUME NEW env \in Environments, NEW os
  PROVE  Bind(env, <<>>, os) = env
<1>1. \A x \in Var : ~\E i \in DOMAIN <<>> : <<>>[i] = x
  OBVIOUS
<1>2. Bind(env, <<>>, os) = [x \in Var |-> env[x]]
  BY <1>1 DEF Bind
<1> QED BY <1>2 DEF Environments

\* A derived predicate whose body says what f says, or what is quantified in f, means f.
LEMMA DerivedMeaning ==
  ASSUME NEW J, NEW d \in DerivedPredicates, Fulfils(J, d), NEW f \in Formulas, ~IsLeaf(f),
         d.parameters \in Seq(Var), IsInjective(d.parameters), Range(d.parameters) = Free[f],
         d.existentialParameters = Bound(f), Models(J)[d.precondition] = Models(J)[Scope(f)]
  PROVE  Models(J)[Derived(d.name, d.parameters)] = Models(J)[f]
<1> DEFINE l == Derived(d.name, d.parameters)
           P == d.parameters
           M == Models(J)
<1>1. d.name \in Nat /\ l \in Formulas /\ IsLeaf(l)
  BY DerivedLeaf DEF DerivedPredicates
<1>2. M[l] \subseteq Environments /\ M[f] \subseteq Environments
  BY <1>1, ModelsOf
<1>3. ASSUME NEW env \in Environments PROVE env \in M[l] <=> env \in M[f]
  <2> DEFINE ps == [i \in DOMAIN P |-> env[P[i]]]
             b == Bind(NoBinding, P, ps)
  <2>1. ps \in Tuples(P) /\ b \in Environments /\ \A x \in Free[f] : b[x] = env[x]
    BY BindBack
  <2>2. env \in M[l] <=> <<"derived", d.name, ps>> \in J
    <3>1. GroundLeaf(l, env) = <<"derived", d.name, ps>>
      BY <1>1, DerivedLeaf
    <3> HIDE DEF l, ps
    <3>2. env \in M[l] <=> GroundLeaf(l, env) \in J
      BY <1>1, LeafModels
    <3> QED BY <3>1, <3>2
  <2> HIDE DEF l, M
  <2>3. env \in M[l] <=> \E os \in Tuples(Bound(f)) : Bind(b, Bound(f), os) \in M[Scope(f)]
    <3> HIDE DEF ps
    <3> QED BY <2>1, <2>2 DEF Fulfils, M
  <2> HIDE DEF b
  <2>4. (\E os \in Tuples(Bound(f)) : Bind(b, Bound(f), os) \in M[Scope(f)]) <=> b \in M[f]
    <3>1. CASE f.op = "exists"
      BY <2>1, <3>1, QuantifiedModels DEF Bound, Scope, M
    <3>2. CASE f.op # "exists"
      <4>1. Bound(f) = <<>> /\ Scope(f) = f
        BY <3>2 DEF Bound, Scope
      <4>2. \A os : Bind(b, <<>>, os) = b
        BY <2>1, BindNothing
      <4>3. \E os : os \in Tuples(<<>>)
        <5>1. [i \in DOMAIN <<>> |-> i] \in Tuples(<<>>)
          BY DEF Tuples
        <5> QED BY <5>1
      <4> QED BY <4>1, <4>2, <4>3
    <3> QED BY <3>1, <3>2
  <2>5. b \in M[f] <=> env \in M[f]
    BY <2>1, Coincidence DEF M
  <2> QED BY <2>3, <2>4, <2>5
<1> HIDE DEF M, l
<1>4. M[l] = M[f]
  BY <1>2, <1>3
<1> QED BY <1>4 DEF M, l

-----------------------------------------------------------------------------
(***************************************************************************)
(* Declaring a derived predicate.                                          *)
(***************************************************************************)
\* Conditions with a connective leave room for two connectives.
LEMMA DepthOfNode ==
  ASSUME NEW f \in Formulas, ~IsLeaf(f)
  PROVE  Trees[1] \subseteq Formulas /\ Trees[2] \subseteq Formulas
<1>1. 6 * Depth \in Nat /\ Depth \in Nat
  BY DepthAssumption
<1>2. 6 * Depth # 0
  BY <1>1, TreeCases DEF Formulas
<1>3. 1 \in Nat /\ 2 \in Nat /\ 1 <= 6 * Depth /\ 2 <= 6 * Depth
  BY <1>1, <1>2
<1> QED BY <1>3, TreesAreFormulas

\* The body a declaration has until its own is known.
LEMMA NoPreconditionTree == NoPrecondition \in Trees[1]
<1>1. <<>> \in Seq(Trees[0])
  OBVIOUS
<1>2. NoPrecondition \in Node(Trees[0])
  BY <1>1, JunctionNode DEF NoPrecondition
<1>3. 0 \in Nat /\ 0 + 1 = 1
  OBVIOUS
<1> QED BY <1>2, <1>3, NodeTree

\* The context with one more declaration.
LEMMA Added ==
  ASSUME NEW c \in Contexts, NEW params \in Seq(Var), NoPrecondition \in Formulas
  PROVE  LET a == addDerivedPredicate(params, c)
             D == c.derivedPredicates
             A == a.derivedPredicates
         IN  /\ a \in Contexts /\ a.start = c.start /\ Len(A) = Len(D) + 1
             /\ \A i \in 1 .. Len(D) : A[i] = D[i]
             /\ A[Len(D) + 1].name = c.start + Len(D) /\ A[Len(D) + 1].parameters = params
<1> DEFINE a == addDerivedPredicate(params, c)
           D == c.derivedPredicates
           new == [name |-> c.start + Len(D), parameters |-> params,
                   existentialParameters |-> <<>>, precondition |-> NoPrecondition]
<1>1. /\ c.start \in Nat /\ D \in Seq(DerivedPredicates) /\ Len(D) \in Nat
      /\ c = [start |-> c.start, derivedPredicates |-> D]
  BY ContextParts DEF Contexts
<1>2. new \in DerivedPredicates
  <2>1. c.start + Len(D) \in Nat /\ <<>> \in Seq(Var)
    BY <1>1
  <2> HIDE DEF D
  <2> QED BY <2>1 DEF DerivedPredicates
<1>3. a = [c EXCEPT !.derivedPredicates = Append(D, new)]
  BY DEF addDerivedPredicate
<1>4. new.name = c.start + Len(D) /\ new.parameters = params
  OBVIOUS
<1> HIDE DEF new, D
<1>5. Append(D, new) \in Seq(DerivedPredicates)
  BY <1>1, <1>2
<1>6. a = [start |-> c.start, derivedPredicates |-> Append(D, new)]
  BY <1>1, <1>3
<1>7. a \in Contexts
  <2> HIDE DEF a
  <2> QED BY <1>1, <1>5, <1>6 DEF Contexts
<1>8. /\ Len(Append(D, new)) = Len(D) + 1 /\ Append(D, new)[Len(D) + 1] = new
      /\ \A i \in 1 .. Len(D) : Append(D, new)[i] = D[i]
  BY <1>1
<1> QED BY <1>4, <1>6, <1>7, <1>8 DEF D

\* The context with a body for one of its declarations.
LEMMA Defined ==
  ASSUME NEW b \in Contexts, NEW k \in 1 .. Len(b.derivedPredicates), NEW xs \in Seq(Var), NEW body \in Formulas
  PROVE  LET e == Define(b, k, xs, body)
             B == b.derivedPredicates
             E == e.derivedPredicates
         IN  /\ e \in Contexts /\ e.start = b.start /\ Len(E) = Len(B)
             /\ \A i \in 1 .. Len(B) : i # k => E[i] = B[i]
             /\ E[k].name = B[k].name /\ E[k].parameters = B[k].parameters
             /\ E[k].existentialParameters = xs /\ E[k].precondition = body
<1> DEFINE e == Define(b, k, xs, body)
           B == b.derivedPredicates
           new == [B[k] EXCEPT !.existentialParameters = xs, !.precondition = body]
           F == [B EXCEPT ![k] = new]
<1>1. /\ b.start \in Nat /\ B \in Seq(DerivedPredicates) /\ Len(B) \in Nat /\ DOMAIN B = 1 .. Len(B)
      /\ b = [start |-> b.start, derivedPredicates |-> B]
  BY ContextParts DEF Contexts
<1>2. B[k] \in DerivedPredicates
  BY <1>1
<1>3. /\ new \in DerivedPredicates /\ new.name = B[k].name /\ new.parameters = B[k].parameters
      /\ new.existentialParameters = xs /\ new.precondition = body
  BY <1>2 DEF DerivedPredicates
<1>4. e = [b EXCEPT !.derivedPredicates = F]
  BY DEF Define
<1> HIDE DEF new, B
<1>5. F \in Seq(DerivedPredicates) /\ Len(F) = Len(B) /\ F[k] = new /\ \A i \in 1 .. Len(B) : i # k => F[i] = B[i]
  BY <1>1, <1>3 DEF B
<1> HIDE DEF F
<1>6. e = [start |-> b.start, derivedPredicates |-> F]
  BY <1>1, <1>4
<1>7. e \in Contexts
  <2> HIDE DEF e
  <2> QED BY <1>1, <1>5, <1>6 DEF Contexts
<1> QED BY <1>3, <1>5, <1>6, <1>7 DEF B

-----------------------------------------------------------------------------
(***************************************************************************)
(* What normalization makes of a nested condition.                         *)
(***************************************************************************)
\* Reduced conditions as they come out of the parser's: without derived predicates.
Underived == {f \in NormalForm : Without(f, {"derived"})}
Literals == {g \in Trees[1] : IsLiteral(g)}

\* What r, which f is normalized to in the context c, is like.
Sound(f, r, c) == Grown(c, r.context) /\ Related(f, r.result, c, r.context)
SoundLiteral(f, r, c) == r \in [result : Literals, context : Contexts] /\ Sound(f, r, c)
Nested(f) == \A c \in Contexts : /\ SoundLiteral(f, normalizeNested[f][c], c)
                                 /\ f.op # "not" => IsLeaf(normalizeNested[f][c].result)

\* The triples of Related as a set.
Relation == {w \in Formulas \X Formulas \X Contexts \X Contexts : Related(w[1], w[2], w[3], w[4])}

\* Relation, pair by pair.
LEMMA InRelation ==
  \A f, g, c, d : <<f, g, c, d>> \in Relation <=>
    f \in Formulas /\ g \in Formulas /\ c \in Contexts /\ d \in Contexts /\ Related(f, g, c, d)
BY DEF Relation

\* What is related remains so.
LEMMA RelationLasts == Lasting(Relation)
<1> SUFFICES ASSUME NEW f, NEW g, NEW a, NEW b, NEW c, NEW d,
                    Grown(a, b), Grown(b, c), Grown(c, d), <<f, g, b, c>> \in Relation
             PROVE  <<f, g, a, d>> \in Relation
  BY DEF Lasting
<1>1. f \in Formulas /\ g \in Formulas /\ Related(f, g, b, c)
  BY InRelation
<1>2. a \in Contexts /\ d \in Contexts
  BY DEF Grown
<1>3. Related(f, g, a, d)
  BY <1>1, RelatedOn
<1> QED BY <1>1, <1>2, <1>3, InRelation

\* A literal is a formula of one connective at most, and what holds of its leaf holds of it.
LEMMA LiteralIsFlat ==
  ASSUME NEW g, IsLiteral(g), NEW ops, ops \subseteq {"and", "or"}
  PROVE  IsFlat(g, ops)
BY DEF IsLiteral, IsFlat, IsLeaf

\* What an "and" or an "or" of normalized arguments is like.
LEMMA JunctionSound ==
  ASSUME NEW f \in NormalForm, f.op \in {"and", "or"}, \A i \in DOMAIN f.args : Nested(f.args[i]), NEW c \in Contexts
  PROVE  LET r == TopLevel(normalizeNested, f, c)
         IN  /\ r \in [result : Formulas, context : Contexts] /\ r.result.op = f.op
             /\ IsFlat(r.result, {f.op}) /\ Sound(f, r, c)
<1> DEFINE steps == [i \in DOMAIN f.args |-> normalizeNested[f.args[i]]]
           n == Len(f.args)
           s == NormalizeEach(steps, c)
           g == [f EXCEPT !.args = s.result]
<1>1. /\ f \in Formulas /\ ~IsLeaf(f) /\ f \in Node(Formulas) /\ n \in Nat /\ DOMAIN f.args = 1 .. n
      /\ ~Quantified(f) /\ \A i \in 1 .. n : f.args[i] \in Formulas
  <2>1. ~IsLeaf(f) /\ ~Quantified(f)
    BY DEF IsLeaf, Quantified
  <2>2. \A i \in DOMAIN f.args : f.args[i] \in NormalForm
    BY <2>1, NormalParts
  <2>3. NormalForm \subseteq Formulas
    BY DEF NormalForm
  <2> QED BY <2>1, <2>2, <2>3, NormalParts
<1>2. Trees[1] \subseteq Formulas /\ Trees[2] \subseteq Formulas
  BY <1>1, DepthOfNode
<1>3. TopLevel(normalizeNested, f, c) = [result |-> g, context |-> s.context]
  BY DEF TopLevel
<1>4. Len(steps) = n
  <2>1. steps = [i \in 1 .. n |-> steps[i]]
    BY <1>1
  <2> HIDE DEF steps, n
  <2> QED BY <1>1, <2>1, LengthOf
<1>5. ASSUME NEW i \in 1 .. n, NEW d \in Contexts
      PROVE  /\ steps[i][d].result \in Literals /\ Grown(d, steps[i][d].context)
             /\ <<f.args[i], steps[i][d].result, d, steps[i][d].context>> \in Relation
  <2> DEFINE r == normalizeNested[f.args[i]][d]
  <2>1. steps[i][d] = r
    BY <1>1
  <2>2. r \in [result : Literals, context : Contexts] /\ Grown(d, r.context) /\ Related(f.args[i], r.result, d, r.context)
    BY <1>1 DEF Nested, SoundLiteral, Sound
  <2> HIDE DEF r, steps
  <2>3. r.result \in Literals /\ r.context \in Contexts /\ r.result \in Formulas
    BY <2>2 DEF Related
  <2>4. <<f.args[i], r.result, d, r.context>> \in Relation
    BY <1>1, <2>2, <2>3, InRelation
  <2> QED BY <2>1, <2>2, <2>3, <2>4
<1>6. /\ s \in [result : Seq(Literals), context : Contexts] /\ Len(s.result) = n /\ Grown(c, s.context)
      /\ \A i \in 1 .. n : <<f.args[i], s.result[i], c, s.context>> \in Relation
  <2>1. EachStep(n, f.args, steps, Literals, Relation)
    <3> HIDE DEF steps, n
    <3> QED BY <1>5 DEF EachStep
  <2>2. n \in Nat /\ Len(steps) = n /\ Lasting(Relation)
    BY <1>1, <1>4, RelationLasts
  <2> HIDE DEF steps, n
  <2>3. All(n, f.args, s, c, Literals, Relation)
    BY <2>1, <2>2, EachMeets
  <2> QED BY <2>3 DEF All
<1> HIDE DEF s, steps
<1>7. s.result \in Seq(Literals) /\ s.context \in Contexts /\ DOMAIN s.result = 1 .. n
  BY <1>6
<1>8. s.result \in Seq(Trees[1])
  <2>1. Literals \subseteq Trees[1]
    BY DEF Literals
  <2> QED BY <1>7, <2>1
<1>9. g \in Node(Trees[1]) /\ g.op = f.op /\ g.args = s.result
  BY <1>1, <1>6, <1>8, NodeRebuilt
<1>10. g \in Formulas /\ ~IsLeaf(g)
  <2>1. 1 \in Nat /\ 1 + 1 = 2
    OBVIOUS
  <2>2. Node(Trees[1]) \subseteq Trees[2]
    BY <2>1, NodeTree
  <2> QED BY <1>2, <1>9, <2>2, NodeParts
<1> HIDE DEF g
<1>11. IsFlat(g, {f.op})
  <2>1. \A i \in DOMAIN g.args : IsLiteral(g.args[i])
    <3>1. \A i \in 1 .. n : s.result[i] \in Literals
      BY <1>7
    <3> QED BY <1>7, <1>9, <3>1 DEF Literals
  <2> QED BY <1>9, <2>1 DEF IsFlat
<1>12. \A i \in 1 .. n : s.result[i] \in Formulas /\ Related(f.args[i], s.result[i], c, s.context)
  BY <1>6, InRelation
<1>13. ASSUME NEW l \in LeafSet(g)
       PROVE  /\ Range(l.terms) \cap Var \subseteq Free[f]
              /\ l.op = "derived" => l.name \in LastNumber(c) + 1 .. LastNumber(s.context)
  <2>1. PICK i \in 1 .. n : l \in LeafSet(s.result[i])
    BY <1>7, <1>9, <1>10, LeafSetOf
  <2>2. /\ Range(l.terms) \cap Var \subseteq Free[f.args[i]]
        /\ l.op = "derived" => l.name \in LastNumber(c) + 1 .. LastNumber(s.context)
    BY <1>12, <2>1 DEF Related
  <2>3. Free[f.args[i]] \subseteq Free[f]
    BY <1>1, FreeOf
  <2> QED BY <2>2, <2>3
<1>14. ASSUME NEW J, FulfilsNew(J, c, s.context) PROVE Models(J)[g] = Models(J)[f]
  <2>1. \A i \in 1 .. n : Models(J)[s.result[i]] = Models(J)[f.args[i]]
    BY <1>12, <1>14 DEF Related
  <2> DEFINE M == Models(J)
  <2>2. CASE f.op = "and"
    <3>1. M[f] = {env \in Environments : \A i \in DOMAIN f.args : env \in M[f.args[i]]}
      BY <1>1, <2>2, ModelsOf
    <3>2. M[g] = {env \in Environments : \A i \in DOMAIN g.args : env \in M[g.args[i]]}
      BY <1>9, <1>10, <2>2, ModelsOf
    <3> HIDE DEF M
    <3>3. \A env : env \in M[f] <=> env \in M[g]
      BY <1>1, <1>7, <1>9, <2>1, <3>1, <3>2 DEF M
    <3>4. M[f] = M[g]
      BY <3>1, <3>2, <3>3
    <3> QED BY <3>4 DEF M
  <2>3. CASE f.op = "or"
    <3>1. M[f] = {env \in Environments : \E i \in DOMAIN f.args : env \in M[f.args[i]]}
      BY <1>1, <2>3, ModelsOf
    <3>2. M[g] = {env \in Environments : \E i \in DOMAIN g.args : env \in M[g.args[i]]}
      BY <1>9, <1>10, <2>3, ModelsOf
    <3> HIDE DEF M
    <3>3. \A env : env \in M[f] <=> env \in M[g]
      BY <1>1, <1>7, <1>9, <2>1, <3>1, <3>2 DEF M
    <3>4. M[f] = M[g]
      BY <3>1, <3>2, <3>3
    <3> QED BY <3>4 DEF M
  <2> QED BY <2>2, <2>3
<1>15. Related(f, g, c, s.context)
  BY <1>10, <1>13, <1>14 DEF Related
<1> QED BY <1>3, <1>6, <1>7, <1>9, <1>10, <1>11, <1>15 DEF Sound

\* What remains of a condition's top level in a body.
Body(f) == \A c \in Contexts :
  LET r == TopLevel(normalizeNested, f, c)
  IN  r \in [result : Formulas, context : Contexts] /\ IsFlat(r.result, {"and", "or"}) /\ Sound(f, r, c)

\* A body is as it should be if the nested conditions are.
LEMMA BodySound ==
  ASSUME NEW f \in NormalForm,
         IF f.op \in {"and", "or"} THEN \A i \in DOMAIN f.args : Nested(f.args[i]) ELSE Nested(f)
  PROVE  Body(f)
<1> SUFFICES ASSUME NEW c \in Contexts
             PROVE  LET r == TopLevel(normalizeNested, f, c)
                    IN  /\ r \in [result : Formulas, context : Contexts]
                        /\ IsFlat(r.result, {"and", "or"}) /\ Sound(f, r, c)
  BY DEF Body
<1> DEFINE r == TopLevel(normalizeNested, f, c)
<1>1. CASE f.op \in {"and", "or"} /\ \A i \in DOMAIN f.args : Nested(f.args[i])
  <2>1. /\ r \in [result : Formulas, context : Contexts] /\ r.result.op = f.op
        /\ IsFlat(r.result, {f.op}) /\ Sound(f, r, c)
    BY <1>1, JunctionSound
  <2> HIDE DEF r
  <2>2. IsFlat(r.result, {"and", "or"})
    BY <1>1, <2>1 DEF IsFlat
  <2> QED BY <2>1, <2>2 DEF r
<1>2. CASE f.op \notin {"and", "or"} /\ Nested(f)
  <2>1. r = normalizeNested[f][c]
    BY <1>2 DEF TopLevel
  <2>2. SoundLiteral(f, r, c)
    BY <1>2, <2>1 DEF Nested
  <2> HIDE DEF r
  <2>3. r \in [result : Formulas, context : Contexts] /\ Sound(f, r, c)
    BY <2>2 DEF SoundLiteral, Sound, Related
  <2>4. IsFlat(r.result, {"and", "or"})
    BY <2>2, LiteralIsFlat DEF SoundLiteral, Literals
  <2> QED BY <2>3, <2>4 DEF r
<1> QED BY <1>1, <1>2

\* A condition that a derived predicate replaces.
LEMMA ReplacedSound ==
  ASSUME NEW f \in NormalForm, ~IsLeaf(f), f.op # "not", Scope(f) \in NormalForm, Body(Scope(f)), NEW c \in Contexts
  PROVE  LET r == Replaced(normalizeNested, f, c) IN SoundLiteral(f, r, c) /\ IsLeaf(r.result)
<1> DEFINE params == collectFreeVariables[f][{}][<<>>]
           added  == addDerivedPredicate(params, c)
           A      == added.derivedPredicates
           i      == Len(A)
           body   == TopLevel(normalizeNested, Scope(f), added)
           b      == body.context
           B      == b.derivedPredicates
           e      == Define(b, i, Bound(f), body.result)
           E      == e.derivedPredicates
           C      == c.derivedPredicates
           k      == Len(C) + 1
           l      == Derived(A[i].name, params)
<1>1. Replaced(normalizeNested, f, c) = [result |-> l, context |-> e]
  BY DEF Replaced
<1>2. /\ f \in Formulas /\ f \in Node(Formulas) /\ f.op \in {"and", "or", "exists"}
      /\ f.op = "exists" => f.vars \in Seq(Var) /\ IsInjective(f.vars) /\ 1 \in DOMAIN f.args /\ DOMAIN f.args = 1 .. 1
  BY NormalParts
<1>3. Trees[1] \subseteq Formulas /\ NoPrecondition \in Formulas
  BY <1>2, DepthOfNode, NoPreconditionTree
<1>4. params \in Seq(Var) /\ IsInjective(params) /\ Range(params) = Free[f]
  BY <1>2, Parameters
<1>5. Bound(f) \in Seq(Var) /\ IsInjective(Bound(f))
  BY <1>2 DEF Bound, IsInjective
<1>6. \A x : x \in Free[f] <=> x \in Free[Scope(f)] /\ x \notin Range(Bound(f))
  <2>1. CASE f.op = "exists"
    <3>1. Scope(f) = f.args[1] /\ Bound(f) = f.vars /\ Quantified(f)
      BY <2>1 DEF Scope, Bound, Quantified
    <3>2. \A x : x \in Free[f] <=> (\E j \in 1 .. 1 : x \in Free[f.args[j]]) /\ x \notin Range(f.vars)
      BY <1>2, <2>1, <3>1, FreeOf
    <3> QED BY <3>1, <3>2
  <2>2. CASE f.op # "exists"
    <3>1. Scope(f) = f /\ Bound(f) = <<>>
      BY <2>2 DEF Scope, Bound
    <3>2. Range(<<>>) = {}
      BY DEF Range
    <3> QED BY <3>1, <3>2
  <2> QED BY <2>1, <2>2
<1> HIDE DEF params
<1>7. /\ c.start \in Nat /\ Len(C) \in Nat /\ k \in Nat /\ added \in Contexts /\ added.start = c.start /\ i = k
      /\ \A j \in 1 .. Len(C) : A[j] = C[j]
      /\ A[k].name = c.start + Len(C) /\ A[k].parameters = params
  BY <1>3, <1>4, ContextParts, Added
<1> HIDE DEF added, C, k
<1>8. /\ body \in [result : Formulas, context : Contexts] /\ IsFlat(body.result, {"and", "or"})
      /\ Grown(added, b) /\ Related(Scope(f), body.result, added, b)
  BY <1>7 DEF Body, Sound
<1> HIDE DEF body
<1>9. /\ b \in Contexts /\ b.start = c.start /\ Len(B) \in Nat /\ k <= Len(B)
      /\ \A j \in 1 .. k : B[j] = A[j]
      /\ \A j \in k + 1 .. Len(B) : B[j].name = b.start + j - 1 /\ Proper(B[j], LastNumber(b))
  <2>1. b \in Contexts
    BY <1>8
  <2> QED BY <1>7, <1>8, <2>1, ContextParts DEF Grown
<1> HIDE DEF b
<1>10. /\ e \in Contexts /\ e.start = c.start /\ Len(E) = Len(B) /\ k \in 1 .. Len(B)
       /\ \A j \in 1 .. Len(B) : j # k => E[j] = B[j]
       /\ E[k].name = c.start + Len(C) /\ E[k].parameters = params
       /\ E[k].existentialParameters = Bound(f) /\ E[k].precondition = body.result
  <2>1. k \in 1 .. Len(B) /\ B[k] = A[k]
    BY <1>7, <1>9 DEF k, C
  <2>2. body.result \in Formulas
    BY <1>8
  <2> QED BY <1>5, <1>7, <1>9, <2>1, <2>2, Defined
<1>11. /\ LastNumber(c) = c.start + Len(C) - 1 /\ LastNumber(added) = c.start + k - 1
       /\ LastNumber(b) = c.start + Len(B) - 1 /\ LastNumber(e) = c.start + Len(B) - 1
       /\ k = Len(C) + 1
  BY <1>7, <1>9, <1>10 DEF LastNumber, k, C
<1> DEFINE N == c.start + Len(C)
<1>12. N \in Nat /\ A[i].name = N
  BY <1>7
<1>13. /\ IsLeaf(l) /\ l \in Leaf /\ l \in Formulas /\ l.op = "derived" /\ l.name = N /\ l.terms = params
  BY <1>4, <1>12, DerivedLeaf
<1> HIDE DEF l, e
<1>14. Proper(E[k], LastNumber(e))
  <2>1. IsInjective(params \o Bound(f))
    <3> DEFINE xs == Bound(f)
               m == Len(params)
    <3>1. /\ params \in Seq(Var) /\ xs \in Seq(Var) /\ IsInjective(params) /\ IsInjective(xs)
          /\ \A x : ~(x \in Range(params) /\ x \in Range(xs))
      BY <1>4, <1>5, <1>6
    <3> HIDE DEF xs
    <3>2. /\ DOMAIN params = 1 .. m /\ m \in Nat /\ DOMAIN xs = 1 .. Len(xs) /\ Len(xs) \in Nat
          /\ DOMAIN (params \o xs) = 1 .. m + Len(xs)
          /\ \A j \in 1 .. m + Len(xs) : (params \o xs)[j] = IF j <= m THEN params[j] ELSE xs[j - m]
      BY <3>1
    <3>3. ASSUME NEW j \in 1 .. m + Len(xs), NEW h \in 1 .. m + Len(xs), (params \o xs)[j] = (params \o xs)[h]
          PROVE  j = h
      <4>1. /\ j <= m => j \in DOMAIN params
            /\ h <= m => h \in DOMAIN params
            /\ ~(j <= m) => j - m \in DOMAIN xs
            /\ ~(h <= m) => h - m \in DOMAIN xs
        BY <3>2
      <4>2. CASE j <= m /\ h <= m
        BY <3>1, <3>2, <3>3, <4>1, <4>2 DEF IsInjective
      <4>3. CASE ~(j <= m) /\ ~(h <= m)
        <5>1. j - m = h - m
          BY <3>1, <3>2, <3>3, <4>1, <4>3 DEF IsInjective
        <5> QED BY <3>2, <5>1
      <4>4. CASE j <= m /\ ~(h <= m)
        <5>1. params[j] = xs[h - m]
          BY <3>2, <3>3, <4>4
        <5> QED BY <3>1, <4>1, <4>4, <5>1 DEF Range
      <4>5. CASE ~(j <= m) /\ h <= m
        <5>1. params[h] = xs[j - m]
          BY <3>2, <3>3, <4>5
        <5> QED BY <3>1, <4>1, <4>5, <5>1 DEF Range
      <4> QED BY <4>2, <4>3, <4>4, <4>5
    <3>4. IsInjective(params \o xs)
      BY <3>2, <3>3 DEF IsInjective
    <3> QED BY <3>4 DEF xs
  <2>2. ASSUME NEW g \in LeafSet(body.result)
        PROVE  /\ Range(g.terms) \cap Var \subseteq Range(params) \cup Range(Bound(f))
               /\ g.op = "derived" => g.name \in N + 1 .. LastNumber(e)
    <3>1. /\ Range(g.terms) \cap Var \subseteq Free[Scope(f)]
          /\ g.op = "derived" => g.name \in LastNumber(added) + 1 .. LastNumber(b)
      BY <1>8 DEF Related
    <3>2. LastNumber(added) = N /\ LastNumber(b) = LastNumber(e)
      BY <1>7, <1>11
    <3> QED BY <1>4, <1>6, <3>1, <3>2
  <2> HIDE DEF N
  <2> QED BY <1>8, <1>10, <2>1, <2>2 DEF Proper, N
<1>15. Grown(c, e)
  <2>1. \A j \in 1 .. Len(C) : E[j] = C[j]
    <3> TAKE j \in 1 .. Len(C)
    <3>1. j \in 1 .. k /\ j \in 1 .. Len(B) /\ j # k
      BY <1>7, <1>9, <1>11
    <3> QED BY <1>7, <1>9, <1>10, <3>1
  <2>2. ASSUME NEW j \in Len(C) + 1 .. Len(E)
        PROVE  E[j].name = e.start + j - 1 /\ Proper(E[j], LastNumber(e))
    <3>1. CASE j = k
      BY <1>7, <1>10, <1>11, <1>14, <3>1
    <3>2. CASE j # k
      <4>1. j \in k + 1 .. Len(B) /\ j \in 1 .. Len(B)
        BY <1>7, <1>9, <1>10, <1>11, <2>2, <3>2
      <4>2. LastNumber(b) = LastNumber(e)
        BY <1>11
      <4> QED BY <1>9, <1>10, <3>2, <4>1, <4>2
    <3> QED BY <3>1, <3>2
  <2>3. Len(C) <= Len(E)
    BY <1>7, <1>9, <1>10, <1>11
  <2> QED BY <1>10, <2>1, <2>2, <2>3 DEF Grown, C
<1>16. ASSUME NEW J, FulfilsNew(J, c, e) PROVE Models(J)[l] = Models(J)[f]
  <2>1. \A j \in k .. Len(B) : Fulfils(J, E[j])
    BY <1>7, <1>10, <1>11, <1>16 DEF FulfilsNew, C
  <2>2. k \in k .. Len(B) /\ \A j \in k + 1 .. Len(B) : j \in k .. Len(B) /\ j \in 1 .. Len(B) /\ j # k
    BY <1>7, <1>9
  <2>3. FulfilsNew(J, added, b)
    <3>1. \A j \in k + 1 .. Len(B) : Fulfils(J, B[j])
      BY <1>10, <2>1, <2>2
    <3> QED BY <1>7, <3>1 DEF FulfilsNew
  <2>4. Models(J)[body.result] = Models(J)[Scope(f)]
    BY <1>8, <2>3 DEF Related
  <2>5. E[k] \in DerivedPredicates
    BY <1>10, ContextParts
  <2>6. Models(J)[Derived(E[k].name, E[k].parameters)] = Models(J)[f]
    <3> DEFINE d == E[k]
    <3>1. /\ d \in DerivedPredicates /\ Fulfils(J, d) /\ d.parameters \in Seq(Var) /\ IsInjective(d.parameters)
          /\ Range(d.parameters) = Free[f] /\ d.existentialParameters = Bound(f)
          /\ Models(J)[d.precondition] = Models(J)[Scope(f)]
      BY <1>4, <1>10, <2>1, <2>2, <2>4, <2>5
    <3> HIDE DEF d
    <3>2. Models(J)[Derived(d.name, d.parameters)] = Models(J)[f]
      BY <1>2, <3>1, DerivedMeaning
    <3> QED BY <3>2 DEF d
  <2>7. l = Derived(E[k].name, E[k].parameters)
    BY <1>10, <1>12 DEF l
  <2> QED BY <2>6, <2>7
<1>17. Related(f, l, c, e)
  <2>1. \A g \in LeafSet(l) : g = l
    BY <1>13, LeafSetOf
  <2>2. N \in LastNumber(c) + 1 .. LastNumber(e)
    BY <1>7, <1>9, <1>11
  <2> HIDE DEF N
  <2> QED BY <1>4, <1>13, <1>16, <2>1, <2>2 DEF Related
<1>18. l \in Literals
  <2>1. l \in Trees[1]
    <3>1. 1 \in Nat
      OBVIOUS
    <3> QED BY <1>13, <3>1, NodeTree
  <2>2. IsLiteral(l)
    BY <1>13 DEF IsLiteral
  <2> QED BY <2>1, <2>2 DEF Literals
<1> DEFINE r == [result |-> l, context |-> e]
<1>19. SoundLiteral(f, r, c) /\ IsLeaf(r.result)
  BY <1>10, <1>13, <1>15, <1>17, <1>18 DEF SoundLiteral, Sound
<1> HIDE DEF r
<1> QED BY <1>1, <1>19 DEF r

\* The parts of a reduced condition without derived predicates.
LEMMA UnderivedParts ==
  ASSUME NEW f \in Underived
  PROVE  /\ f \in NormalForm /\ f \in Formulas
         /\ IsLeaf(f) => f.op = "atom" /\ f \in Trees[1]
         /\ ~IsLeaf(f) => \A i \in DOMAIN f.args : f.args[i] \in Underived
<1>1. f \in NormalForm /\ f \in Formulas /\ Without(f, {"derived"})
  BY DEF Underived, NormalForm
<1>2. ASSUME IsLeaf(f) PROVE f.op = "atom" /\ f \in Trees[1]
  <2>1. f.op # "derived"
    BY <1>1, <1>2, WithoutOf
  <2>2. f \in Leaf /\ 1 \in Nat
    BY <1>1, <1>2, LeafParts
  <2>3. f \in Trees[1]
    BY <2>2, NodeTree
  <2> QED BY <1>2, <2>1, <2>3 DEF IsLeaf
<1>3. ASSUME ~IsLeaf(f) PROVE \A i \in DOMAIN f.args : f.args[i] \in Underived
  BY <1>1, <1>3, NormalParts, WithoutOf DEF Underived
<1> QED BY <1>1, <1>2, <1>3

\* A literal stays as it is.
LEMMA LeafSound ==
  ASSUME NEW f \in Underived, IsLeaf(f)
  PROVE  Nested(f)
<1> SUFFICES ASSUME NEW c \in Contexts
             PROVE  SoundLiteral(f, normalizeNested[f][c], c) /\ IsLeaf(normalizeNested[f][c].result)
  BY DEF Nested
<1>1. f \in NormalForm /\ f \in Formulas /\ f.op = "atom" /\ f \in Trees[1]
  BY UnderivedParts
<1>2. normalizeNested[f][c] = [result |-> f, context |-> c]
  <2>1. normalizeNested[f][c] = NestedValue(normalizeNested, f, c)
    BY <1>1, NestedAt
  <2>2. f.op # "not"
    BY <1>1
  <2> QED BY <2>1, <2>2 DEF NestedValue
<1>3. f \in Literals
  BY <1>1 DEF Literals, IsLiteral
<1>4. Related(f, f, c, c)
  <2>1. \A l \in LeafSet(f) : l = f
    BY <1>1, LeafSetOf
  <2>2. Free[f] = Range(f.terms) \cap Var
    BY <1>1, FreeOf
  <2> QED BY <1>1, <2>1, <2>2 DEF Related
<1>5. Grown(c, c)
  BY GrownSelf
<1> QED BY <1>2, <1>3, <1>4, <1>5 DEF SoundLiteral, Sound

\* What is made of a "not".
LEMMA NotSound ==
  ASSUME NEW f \in Underived, f.op = "not", Nested(f.args[1])
  PROVE  Nested(f)
<1> SUFFICES ASSUME NEW c \in Contexts
             PROVE  SoundLiteral(f, normalizeNested[f][c], c)
  BY DEF Nested
<1> DEFINE r == normalizeNested[f.args[1]][c]
           g == r.result
           h == Not(g)
<1>1. /\ f \in NormalForm /\ f \in Formulas /\ ~IsLeaf(f) /\ ~Quantified(f)
      /\ DOMAIN f.args = 1 .. 1 /\ f.args[1].op # "not" /\ f.args[1] \in Formulas
  <2>1. ~IsLeaf(f) /\ ~Quantified(f)
    BY DEF IsLeaf, Quantified
  <2>2. /\ f \in NormalForm /\ f \in Formulas /\ 1 \in DOMAIN f.args /\ f.args[1].op # "not"
        /\ DOMAIN f.args = 1 .. Len(f.args) /\ Len(f.args) = 1
    BY <2>1, UnderivedParts, NormalParts
  <2>3. f.args[1] \in Formulas
    BY <2>1, <2>2, UnderivedParts
  <2> QED BY <2>1, <2>2, <2>3
<1>2. normalizeNested[f][c] = [r EXCEPT !.result = Not(@)]
  <2>1. normalizeNested[f][c] = NestedValue(normalizeNested, f, c)
    BY <1>1, NestedAt
  <2> QED BY <1>1, <2>1 DEF NestedValue
<1>3. /\ r \in [result : Literals, context : Contexts] /\ Grown(c, r.context)
      /\ Related(f.args[1], g, c, r.context) /\ IsLeaf(g)
  BY <1>1 DEF Nested, SoundLiteral, Sound
<1>4. normalizeNested[f][c] = [result |-> h, context |-> r.context]
  BY <1>2, <1>3
<1> HIDE DEF r
<1>5. Trees[1] \subseteq Formulas /\ g \in Formulas
  BY <1>1, <1>3, DepthOfNode DEF Related
<1>6. /\ h \in Trees[1] /\ h \in Formulas /\ ~IsLeaf(h) /\ h.op = "not" /\ h.args = <<g>>
  <2>1. g \in Leaf
    BY <1>3, <1>5, LeafParts
  <2>2. 0 \in Nat /\ 0 + 1 = 1
    OBVIOUS
  <2>3. g \in Trees[0]
    BY <2>1, <2>2, NodeTree
  <2>4. h \in Node(Trees[0]) /\ h.op = "not" /\ h.args = <<g>>
    BY <2>3, NotNode
  <2>5. h \in Trees[1]
    BY <2>2, <2>4, NodeTree
  <2> HIDE DEF h
  <2>6. ~IsLeaf(h)
    BY <2>4 DEF IsLeaf
  <2> QED BY <1>5, <2>4, <2>5, <2>6
<1> HIDE DEF h
<1>7. h \in Literals
  BY <1>3, <1>6 DEF Literals, IsLiteral
<1>8. \A l \in LeafSet(h) : l \in LeafSet(g)
  <2>1. \A i \in DOMAIN h.args : h.args[i] = g
    BY <1>6
  <2> QED BY <1>6, <2>1, LeafSetOf
<1>9. Free[f.args[1]] \subseteq Free[f]
  BY <1>1, FreeOf
<1>10. ASSUME NEW J, FulfilsNew(J, c, r.context) PROVE Models(J)[h] = Models(J)[f]
  <2>1. Models(J)[g] = Models(J)[f.args[1]]
    BY <1>3, <1>10 DEF Related
  <2>2. Models(J)[h] = Environments \ Models(J)[h.args[1]] /\ Models(J)[f] = Environments \ Models(J)[f.args[1]]
    BY <1>1, <1>6, ModelsOf
  <2> QED BY <1>6, <2>1, <2>2
<1>11. Related(f, h, c, r.context)
  <2>1. \A l \in LeafSet(h) :
          /\ Range(l.terms) \cap Var \subseteq Free[f]
          /\ l.op = "derived" => l.name \in LastNumber(c) + 1 .. LastNumber(r.context)
    BY <1>3, <1>8, <1>9 DEF Related
  <2> QED BY <1>6, <1>10, <2>1 DEF Related
<1> DEFINE s == normalizeNested[f][c]
<1>12. s = [result |-> h, context |-> r.context] /\ r.context \in Contexts
  BY <1>3, <1>4
<1> HIDE DEF s
<1> QED BY <1>3, <1>7, <1>11, <1>12 DEF SoundLiteral, Sound, s

\* Every nested condition is normalized as it should be.
LEMMA NestedSound == \A f \in Underived : Nested(f)
<1> DEFINE S == {f \in Formulas : f \in Underived => Nested(f)}
<1>1. \A f \in Formulas : IsLeaf(f) => f \in S
  BY LeafSound
<1>2. ASSUME NEW f \in Formulas, ~IsLeaf(f), \A e \in Formulas : Height[e] < Height[f] => e \in S
      PROVE  f \in S
  <2> SUFFICES ASSUME f \in Underived PROVE Nested(f)
    OBVIOUS
  <2>1. /\ f \in NormalForm /\ f.op \in {"not", "and", "or", "exists"}
        /\ f.op \in {"not", "exists"} => 1 \in DOMAIN f.args
    BY <1>2, UnderivedParts, NormalParts
  <2>2. \A i \in DOMAIN f.args : f.args[i] \in Underived /\ f.args[i] \in Formulas /\ Height[f.args[i]] < Height[f]
    BY <1>2, UnderivedParts, Subtrees
  <2>3. \A i \in DOMAIN f.args : Nested(f.args[i])
    BY <1>2, <2>2
  <2> HIDE DEF S
  <2>4. CASE f.op = "not"
    BY <2>1, <2>3, <2>4, NotSound
  <2>5. CASE f.op # "not"
    <3>1. Scope(f) \in Underived /\ Body(Scope(f))
      <4>1. CASE f.op = "exists"
        <5> DEFINE g == f.args[1]
        <5>1. g \in Underived /\ Nested(g) /\ Height[g] < Height[f] /\ Scope(f) = g
          BY <2>1, <2>2, <2>3, <4>1 DEF Scope
        <5> HIDE DEF g
        <5>2. g.op \in {"and", "or"} => \A i \in DOMAIN g.args : Nested(g.args[i])
          <6> SUFFICES ASSUME g.op \in {"and", "or"}, NEW i \in DOMAIN g.args PROVE Nested(g.args[i])
            OBVIOUS
          <6>1. ~IsLeaf(g) /\ g \in Formulas /\ g.args[i] \in Underived
            <7>1. ~IsLeaf(g)
              BY DEF IsLeaf
            <7> QED BY <5>1, <7>1, UnderivedParts
          <6>2. g.args[i] \in Formulas /\ Height[g.args[i]] < Height[g]
            BY <6>1, Subtrees
          <6>3. Height[g.args[i]] \in Nat /\ Height[g] \in Nat /\ Height[f] \in Nat
            BY <6>1, <6>2, HeightLeast
          <6>4. Height[g.args[i]] < Height[f]
            BY <5>1, <6>2, <6>3
          <6> QED BY <1>2, <6>1, <6>2, <6>4 DEF S
        <5>3. g \in NormalForm
          BY <5>1, UnderivedParts
        <5>4. Body(g)
          BY <5>1, <5>2, <5>3, BodySound
        <5> QED BY <5>1, <5>4
      <4>2. CASE f.op # "exists"
        <5>1. f.op \in {"and", "or"} /\ Scope(f) = f
          BY <2>1, <2>5, <4>2 DEF Scope
        <5> QED BY <2>1, <2>3, <5>1, BodySound
      <4> QED BY <4>1, <4>2
    <3>2. ASSUME NEW c \in Contexts
          PROVE  SoundLiteral(f, normalizeNested[f][c], c) /\ IsLeaf(normalizeNested[f][c].result)
      <4>1. normalizeNested[f][c] = NestedValue(normalizeNested, f, c)
        BY <2>1, NestedAt
      <4>2. normalizeNested[f][c] = Replaced(normalizeNested, f, c)
        BY <1>2, <2>5, <4>1 DEF NestedValue
      <4>3. Scope(f) \in NormalForm
        BY <3>1, UnderivedParts
      <4> QED BY <1>2, <2>1, <2>5, <3>1, <4>2, <4>3, ReplacedSound
    <3> QED BY <3>2 DEF Nested
  <2> QED BY <2>4, <2>5
<1>3. Formulas \subseteq S
  <2> HIDE DEF S
  <2> QED BY <1>1, <1>2, FormulaInduction
<1>4. Underived \subseteq Formulas
  BY DEF Underived, NormalForm
<1> QED BY <1>3, <1>4

-----------------------------------------------------------------------------
(***************************************************************************)
(* What normalization makes of a condition.                                *)
(***************************************************************************)
\* What the declarations that d adds to c make of the condition g is f.
Translated(f, g, c, d) ==
  /\ IsFlat(g, {"and"})
  /\ \A l \in LeafSet(g) : l.op = "derived" => l.name \in LastNumber(c) + 1 .. LastNumber(d)
  /\ \A J : FulfilsNew(J, c, d) => Models(J)[g] = Models(J)[f]
Pairs(c, d) == {w \in Conditions \X Formulas : Translated(w[1], w[2], c, d)}
ConditionRelation == {w \in Conditions \X Formulas \X Contexts \X Contexts : Translated(w[1], w[2], w[3], w[4])}

\* What is translated on a part of the way is translated on all of it.
LEMMA TranslatedOn ==
  ASSUME NEW f, NEW g, NEW a, NEW b, NEW c, NEW d, Grown(a, b), Grown(b, c), Grown(c, d), Translated(f, g, b, c)
  PROVE  Translated(f, g, a, d)
<1>1. /\ LastNumber(a) \in Int /\ LastNumber(b) \in Int /\ LastNumber(c) \in Int /\ LastNumber(d) \in Int
      /\ LastNumber(a) <= LastNumber(b) /\ LastNumber(c) <= LastNumber(d)
  BY NumbersGrow
<1>2. LastNumber(b) + 1 .. LastNumber(c) \subseteq LastNumber(a) + 1 .. LastNumber(d)
  BY <1>1
<1>3. ASSUME NEW J, FulfilsNew(J, a, d) PROVE Models(J)[g] = Models(J)[f]
  BY <1>3, FulfilsPart DEF Translated
<1> QED BY <1>2, <1>3 DEF Translated

\* ConditionRelation and Pairs, pair by pair.
LEMMA InConditions ==
  /\ \A f, g, c, d : <<f, g, c, d>> \in ConditionRelation <=>
       f \in Conditions /\ g \in Formulas /\ c \in Contexts /\ d \in Contexts /\ Translated(f, g, c, d)
  /\ \A f, g, c, d : <<f, g>> \in Pairs(c, d) <=>
       f \in Conditions /\ g \in Formulas /\ Translated(f, g, c, d)
BY DEF ConditionRelation, Pairs

\* What is translated remains so.
LEMMA ConditionsLast ==
  /\ Lasting(ConditionRelation)
  /\ \A a, b, c, d : Grown(a, b) /\ Grown(b, c) /\ Grown(c, d) => Pairs(b, c) \subseteq Pairs(a, d)
<1>1. ASSUME NEW f, NEW g, NEW a, NEW b, NEW c, NEW d,
             Grown(a, b), Grown(b, c), Grown(c, d), <<f, g, b, c>> \in ConditionRelation
      PROVE  <<f, g, a, d>> \in ConditionRelation
  <2>1. f \in Conditions /\ g \in Formulas /\ Translated(f, g, b, c)
    BY <1>1, InConditions
  <2>2. a \in Contexts /\ d \in Contexts
    BY <1>1 DEF Grown
  <2>3. Translated(f, g, a, d)
    BY <1>1, <2>1, TranslatedOn
  <2> QED BY <2>1, <2>2, <2>3, InConditions
<1>2. ASSUME NEW a, NEW b, NEW c, NEW d, Grown(a, b), Grown(b, c), Grown(c, d), NEW w \in Pairs(b, c)
      PROVE  w \in Pairs(a, d)
  <2>1. w \in Conditions \X Formulas /\ Translated(w[1], w[2], b, c)
    BY <1>2 DEF Pairs
  <2>2. Translated(w[1], w[2], a, d)
    BY <1>2, <2>1, TranslatedOn
  <2> QED BY <2>1, <2>2 DEF Pairs
<1> QED BY <1>1, <1>2 DEF Lasting

\* Reduction makes a condition one that can be normalized.
LEMMA ConditionReduced ==
  ASSUME NEW f \in Conditions
  PROVE  reduce(f) \in Underived /\ \A J : Models(J)[reduce(f)] = Models(J)[f]
<1>1. f \in Trees[Depth] /\ Without(f, {"derived"})
  BY DEF Conditions, Without
<1>2. reduce(f) = Reduced(f)
  BY DEF reduce, Reduced, NoForAll, NoImply
<1>3. /\ Reduced(f) \in Formulas /\ Kept(f, Reduced(f)) /\ Without(Reduced(f), Earlier) /\ Negative(Reduced(f))
  BY <1>1, ReductionKept
<1> DEFINE g == Reduced(f)
<1> HIDE DEF g
<1>4. g \in Formulas => (Without(g, Earlier) /\ Negative(g) => g \in Underived)
  BY DEF Underived, NormalForm, Without, Negative, Earlier
<1>5. g \in Underived
  BY <1>3, <1>4 DEF g
<1> QED BY <1>2, <1>3, <1>5 DEF Kept, g

\* Every condition is normalized as it should be.
LEMMA ConditionSound ==
  ASSUME NEW f \in Conditions, NEW c \in Contexts
  PROVE  LET r == normalize(f)[c]
         IN  /\ r \in [result : Formulas, context : Contexts] /\ Grown(c, r.context)
             /\ Translated(f, r.result, c, r.context)
<1> DEFINE g == reduce(f)
           r == normalize(f)[c]
<1>1. g \in Underived /\ (\A J : Models(J)[g] = Models(J)[f]) /\ g \in NormalForm
  BY ConditionReduced, UnderivedParts
<1>2. normalize(f) = IF g.op = "or" THEN normalizeNested[g] ELSE normalizeTopLevel(g)
  BY DEF normalize
<1> HIDE DEF g
<1>3. r \in [result : Formulas, context : Contexts] /\ IsFlat(r.result, {"and"}) /\ Sound(g, r, c)
  <2>1. CASE g.op = "and"
    <3>1. r = TopLevel(normalizeNested, g, c)
      BY <1>2, <2>1 DEF normalizeTopLevel
    <3>2. ~IsLeaf(g)
      BY <2>1 DEF IsLeaf
    <3>3. \A i \in DOMAIN g.args : Nested(g.args[i])
      BY <1>1, <3>2, UnderivedParts, NestedSound
    <3>4. LET t == TopLevel(normalizeNested, g, c)
          IN  /\ t \in [result : Formulas, context : Contexts] /\ t.result.op = g.op
              /\ IsFlat(t.result, {g.op}) /\ Sound(g, t, c)
      BY <1>1, <2>1, <3>3, JunctionSound
    <3> HIDE DEF r
    <3> QED BY <2>1, <3>1, <3>4
  <2>2. CASE g.op # "and"
    <3>1. r = normalizeNested[g][c]
      <4>1. CASE g.op = "or"
        BY <1>2, <4>1
      <4>2. CASE g.op # "or"
        <5>1. r = TopLevel(normalizeNested, g, c)
          BY <1>2, <4>2 DEF normalizeTopLevel
        <5>2. TopLevel(normalizeNested, g, c) = normalizeNested[g][c]
          BY <2>2, <4>2 DEF TopLevel
        <5> QED BY <5>1, <5>2
      <4> QED BY <4>1, <4>2
    <3>2. SoundLiteral(g, r, c)
      BY <1>1, <3>1, NestedSound DEF Nested
    <3> HIDE DEF r
    <3>3. r \in [result : Formulas, context : Contexts] /\ Sound(g, r, c)
      BY <3>2 DEF SoundLiteral, Sound, Related
    <3>4. IsFlat(r.result, {"and"})
      BY <3>2, LiteralIsFlat DEF SoundLiteral, Literals
    <3> QED BY <3>3, <3>4
  <2> QED BY <2>1, <2>2
<1> HIDE DEF r
<1>4. Grown(c, r.context) /\ Translated(f, r.result, c, r.context)
  BY <1>1, <1>3 DEF Sound, Related, Translated
<1> QED BY <1>3, <1>4 DEF r

-----------------------------------------------------------------------------
(***************************************************************************)
(* Flattened sequences.                                                    *)
(***************************************************************************)
\* What becomes of i sequences that are appended to each other, one by one.
FlatDef(p, g, i) == IF i = 1 THEN p[i] ELSE g[i - 1] \o p[i]
FlatR == INSTANCE Recursion WITH Def <- FlatDef

\* FlattenSeq appends the sequences one after the other.
LEMMA FlattenAt ==
  ASSUME NEW ss, Len(ss) \in Nat, Len(ss) # 0
  PROVE  \E F : /\ FlattenSeq(ss) = F[Len(ss)] /\ F[1] = ss[1]
                /\ \A i \in 2 .. Len(ss) : F[i] = F[i - 1] \o ss[i]
<1> DEFINE n == Len(ss)
           flatten == CHOOSE F : F = [i \in 1 .. n |-> IF i = 1 THEN ss[i] ELSE F[i - 1] \o ss[i]]
           rank == [i \in 1 .. n |-> i]
<1>1. n \in Nat /\ n # 0 /\ 1 \in 1 .. n /\ rank \in [1 .. n -> Nat]
  OBVIOUS
<1>2. FlattenSeq(ss) = flatten[n]
  BY <1>1, Zenon DEF FlattenSeq
<1>3. FlatR!Grounded(ss, 1 .. n, rank)
  <2> SUFFICES ASSUME NEW i \in 1 .. n, NEW g, NEW h,
                      \A j \in 1 .. n : rank[j] < rank[i] => g[j] = h[j]
               PROVE  FlatDef(ss, g, i) = FlatDef(ss, h, i)
    BY DEF FlatR!Grounded
  <2>1. CASE i = 1
    BY <2>1 DEF FlatDef
  <2>2. CASE i # 1
    <3>1. i - 1 \in 1 .. n /\ rank[i - 1] < rank[i]
      BY <1>1, <2>2
    <3>2. g[i - 1] = h[i - 1]
      BY <3>1
    <3> QED BY <2>2, <3>2 DEF FlatDef
  <2> QED BY <2>1, <2>2
<1>4. \E F : F = [i \in 1 .. n |-> FlatDef(ss, F, i)]
  <2> HIDE DEF n, rank
  <2> QED BY <1>1, <1>3, FlatR!RecursiveFunction, LeastNatural
<1>5. flatten = [i \in 1 .. n |-> IF i = 1 THEN ss[i] ELSE flatten[i - 1] \o ss[i]]
  <2>1. \E F : F = [i \in 1 .. n |-> IF i = 1 THEN ss[i] ELSE F[i - 1] \o ss[i]]
    BY <1>4, Zenon DEF FlatDef
  <2> HIDE DEF n
  <2> QED BY <2>1, Zenon
<1> HIDE DEF flatten
<1>6. flatten[1] = ss[1]
  BY <1>1, <1>5
<1>7. \A i \in 2 .. n : flatten[i] = flatten[i - 1] \o ss[i]
  <2> TAKE i \in 2 .. n
  <2>1. i \in 1 .. n /\ i # 1
    BY <1>1
  <2> QED BY <1>5, <2>1
<1> QED BY <1>2, <1>6, <1>7

\* Sequences over S and T whose elements are related one by one.
Paired(s, t, S, T, W) ==
  s \in Seq(S) /\ t \in Seq(T) /\ Len(s) = Len(t) /\ \A j \in 1 .. Len(s) : <<s[j], t[j]>> \in W

\* The elements of two sequences that are appended.
LEMMA Appended ==
  ASSUME NEW S, NEW s \in Seq(S), NEW u \in Seq(S)
  PROVE  /\ s \o u \in Seq(S) /\ Len(s \o u) = Len(s) + Len(u) /\ Len(s) \in Nat /\ Len(u) \in Nat
         /\ \A j \in 1 .. Len(s) + Len(u) : (s \o u)[j] = IF j <= Len(s) THEN s[j] ELSE u[j - Len(s)]
OBVIOUS

\* So are they when one pair is appended to another.
LEMMA PairedAppended ==
  ASSUME NEW S, NEW T, NEW W, NEW s, NEW t, NEW u, NEW v, Paired(s, t, S, T, W), Paired(u, v, S, T, W)
  PROVE  Paired(s \o u, t \o v, S, T, W)
<1> DEFINE m == Len(s)
           n == Len(u)
<1>1. /\ s \in Seq(S) /\ t \in Seq(T) /\ u \in Seq(S) /\ v \in Seq(T) /\ m \in Nat /\ n \in Nat
      /\ Len(t) = m /\ Len(v) = n
      /\ \A j \in 1 .. m : <<s[j], t[j]>> \in W
      /\ \A j \in 1 .. n : <<u[j], v[j]>> \in W
  BY DEF Paired
<1>2. /\ s \o u \in Seq(S) /\ t \o v \in Seq(T) /\ Len(s \o u) = m + n /\ Len(t \o v) = m + n
      /\ \A j \in 1 .. m + n : (s \o u)[j] = IF j <= m THEN s[j] ELSE u[j - m]
      /\ \A j \in 1 .. m + n : (t \o v)[j] = IF j <= m THEN t[j] ELSE v[j - m]
  <2>1. /\ s \o u \in Seq(S) /\ Len(s \o u) = Len(s) + Len(u)
        /\ \A j \in 1 .. Len(s) + Len(u) : (s \o u)[j] = IF j <= Len(s) THEN s[j] ELSE u[j - Len(s)]
    BY <1>1, Appended
  <2>2. /\ t \o v \in Seq(T) /\ Len(t \o v) = Len(t) + Len(v)
        /\ \A j \in 1 .. Len(t) + Len(v) : (t \o v)[j] = IF j <= Len(t) THEN t[j] ELSE v[j - Len(t)]
    BY <1>1, Appended
  <2> QED BY <1>1, <2>1, <2>2
<1> HIDE DEF m, n
<1>3. ASSUME NEW j \in 1 .. m + n PROVE <<(s \o u)[j], (t \o v)[j]>> \in W
  <2>1. CASE j <= m
    <3>1. j \in 1 .. m
      BY <1>1, <2>1
    <3> QED BY <1>1, <1>2, <2>1, <3>1
  <2>2. CASE ~(j <= m)
    <3>1. j - m \in 1 .. n
      BY <1>1, <2>2
    <3> QED BY <1>1, <1>2, <2>2, <3>1
  <2> QED BY <2>1, <2>2
<1> QED BY <1>2, <1>3 DEF Paired

\* So are they when many are flattened.
LEMMA PairedFlattened ==
  ASSUME NEW S, NEW T, NEW W, NEW n \in Nat, NEW ss, NEW tt, Len(ss) = n, Len(tt) = n,
         n = 0 => ss = <<>> /\ tt = <<>>,
         \A i \in 1 .. n : Paired(ss[i], tt[i], S, T, W)
  PROVE  Paired(FlattenSeq(ss), FlattenSeq(tt), S, T, W)
<1>1. CASE n = 0
  <2>1. FlattenSeq(ss) = <<>> /\ FlattenSeq(tt) = <<>>
    BY <1>1 DEF FlattenSeq
  <2> QED BY <2>1 DEF Paired
<1>2. CASE n # 0
  <2>1. PICK F : FlattenSeq(ss) = F[n] /\ F[1] = ss[1] /\ \A i \in 2 .. n : F[i] = F[i - 1] \o ss[i]
    BY <1>2, FlattenAt
  <2>2. PICK G : FlattenSeq(tt) = G[n] /\ G[1] = tt[1] /\ \A i \in 2 .. n : G[i] = G[i - 1] \o tt[i]
    BY <1>2, FlattenAt
  <2> DEFINE D == 1 .. n
             R == {i \in D : Paired(F[i], G[i], S, T, W)}
             rank == [i \in D |-> i]
  <2>3. ASSUME NEW i \in D, \A j \in D : rank[j] < rank[i] => j \in R PROVE i \in R
    <3>1. CASE i = 1
      BY <2>1, <2>2, <3>1
    <3>2. CASE i # 1
      <4>1. i - 1 \in D /\ rank[i - 1] < rank[i] /\ i \in 2 .. n
        BY <3>2
      <4>2. Paired(F[i - 1], G[i - 1], S, T, W) /\ Paired(ss[i], tt[i], S, T, W)
        BY <2>3, <4>1
      <4>3. F[i] = F[i - 1] \o ss[i] /\ G[i] = G[i - 1] \o tt[i]
        BY <2>1, <2>2, <4>1
      <4>4. Paired(F[i - 1] \o ss[i], G[i - 1] \o tt[i], S, T, W)
        BY <4>2, PairedAppended
      <4> QED BY <4>3, <4>4
    <3> QED BY <3>1, <3>2
  <2>4. n \in D
    BY <1>2
  <2>5. D \subseteq R
    <3>1. rank \in [D -> Nat] /\ \A i \in D : (\A j \in D : rank[j] < rank[i] => j \in R) => i \in R
      BY <2>3
    <3> HIDE DEF D, R, rank
    <3>2. D \subseteq R
      BY <3>1, RankInduction
    <3> QED BY <3>2
  <2> QED BY <2>1, <2>2, <2>4, <2>5
<1> QED BY <1>1, <1>2

-----------------------------------------------------------------------------
(***************************************************************************)
(* Effects.                                                                *)
(***************************************************************************)
\* The body of EffectTrees.
LevelDef(C, g, n) == IF n = 0 THEN EffectLeaf(C) ELSE EffectLeaf(C) \cup EffectNode(g[n - 1])
LevelR == INSTANCE Recursion WITH Def <- LevelDef

\* EffectTrees, unfolded once.
LEMMA EffectTreesAt ==
  ASSUME NEW C, NEW n \in Nat
  PROVE  EffectTrees(C)[n] = IF n = 0 THEN EffectLeaf(C) ELSE EffectLeaf(C) \cup EffectNode(EffectTrees(C)[n - 1])
<1> DEFINE T == CHOOSE F : F = [k \in Nat |-> IF k = 0 THEN EffectLeaf(C)
                                              ELSE EffectLeaf(C) \cup EffectNode(F[k - 1])]
           rank == [k \in Nat |-> k]
<1>1. EffectTrees(C) = T
  BY Zenon DEF EffectTrees
<1>2. LevelR!Grounded(C, Nat, rank)
  <2> SUFFICES ASSUME NEW k \in Nat, NEW g, NEW h,
                      \A m \in Nat : rank[m] < rank[k] => g[m] = h[m]
               PROVE  LevelDef(C, g, k) = LevelDef(C, h, k)
    BY DEF LevelR!Grounded
  <2>1. CASE k = 0
    BY <2>1 DEF LevelDef
  <2>2. CASE k # 0
    <3>1. k - 1 \in Nat /\ k - 1 < k
      BY <2>2
    <3>2. g[k - 1] = h[k - 1]
      BY <3>1
    <3> QED BY <2>2, <3>2 DEF LevelDef
  <2> QED BY <2>1, <2>2
<1>3. \E F : F = [k \in Nat |-> LevelDef(C, F, k)]
  <2> DEFINE D == Nat
  <2>1. rank \in [D -> Nat] /\ LevelR!Grounded(C, D, rank)
    BY <1>2
  <2> HIDE DEF D, rank
  <2>2. \E F : F = [k \in D |-> LevelDef(C, F, k)]
    BY <2>1, LevelR!RecursiveFunction, LeastNatural
  <2> QED BY <2>2 DEF D
<1>4. T = [k \in Nat |-> IF k = 0 THEN EffectLeaf(C) ELSE EffectLeaf(C) \cup EffectNode(T[k - 1])]
  <2>1. \E F : F = [k \in Nat |-> IF k = 0 THEN EffectLeaf(C) ELSE EffectLeaf(C) \cup EffectNode(F[k - 1])]
    BY <1>3, Zenon DEF LevelDef
  <2> QED BY <2>1, Zenon
<1> HIDE DEF T
<1>5. T[n] = IF n = 0 THEN EffectLeaf(C) ELSE EffectLeaf(C) \cup EffectNode(T[n - 1])
  BY <1>4
<1> QED BY <1>1, <1>5

\* What an effect that is no "and" or "forall" consists of, and one that is.
LEMMA EffectParts ==
  /\ \A C : \A e \in EffectLeaf(C) :
       /\ e.op \in {"atom", "not", "when"}
       /\ e.op = "when" => e.condition \in C /\ e \in [op : {"when"}, condition : C, args : Seq(EffectLiteral)]
       /\ e.op # "when" => e \in EffectLiteral
  /\ \A S : \A e \in EffectNode(S) : e.op \in {"and", "forall"} /\ e.args \in Seq(S)
<1>1. \A e \in EffectLiteral : e.op \in {"atom", "not"}
  BY DEF EffectLiteral, Atomic
<1> QED BY <1>1 DEF EffectLeaf, EffectNode

\* Effects over more conditions, or nested deeper, are effects.
LEMMA EffectsGrow ==
  ASSUME NEW C, NEW D, C \subseteq D
  PROVE  \A n \in Nat : \A m \in Nat : m <= n => EffectTrees(C)[m] \subseteq EffectTrees(D)[n]
<1> DEFINE Good(n) == \A m \in Nat : m <= n => EffectTrees(C)[m] \subseteq EffectTrees(D)[n]
           S == {n \in Nat : Good(n)}
           rank == [n \in Nat |-> n]
<1>1. EffectLeaf(C) \subseteq EffectLeaf(D)
  BY DEF EffectLeaf
<1>2. ASSUME NEW X, NEW Y, X \subseteq Y PROVE EffectNode(X) \subseteq EffectNode(Y)
  <2>1. Seq(X) \subseteq Seq(Y)
    BY <1>2
  <2> QED BY <2>1 DEF EffectNode
<1>3. ASSUME NEW n \in Nat, \A k \in Nat : rank[k] < rank[n] => k \in S
      PROVE  n \in S
  <2> SUFFICES ASSUME NEW m \in Nat, m <= n PROVE EffectTrees(C)[m] \subseteq EffectTrees(D)[n]
    OBVIOUS
  <2>1. CASE m = 0
    <3>1. EffectTrees(C)[m] = EffectLeaf(C)
      BY <2>1, EffectTreesAt
    <3>2. EffectLeaf(D) \subseteq EffectTrees(D)[n]
      BY EffectTreesAt
    <3> QED BY <1>1, <3>1, <3>2
  <2>2. CASE m # 0
    <3>1. m - 1 \in Nat /\ n - 1 \in Nat /\ m - 1 <= n - 1 /\ n - 1 < n /\ n # 0
      BY <2>2
    <3>2. EffectTrees(C)[m - 1] \subseteq EffectTrees(D)[n - 1]
      BY <1>3, <3>1
    <3>3. EffectNode(EffectTrees(C)[m - 1]) \subseteq EffectNode(EffectTrees(D)[n - 1])
      BY <1>2, <3>2
    <3>4. /\ EffectTrees(C)[m] = EffectLeaf(C) \cup EffectNode(EffectTrees(C)[m - 1])
          /\ EffectTrees(D)[n] = EffectLeaf(D) \cup EffectNode(EffectTrees(D)[n - 1])
      BY <2>2, <3>1, EffectTreesAt
    <3> QED BY <1>1, <3>3, <3>4
  <2> QED BY <2>1, <2>2
<1>4. Nat \subseteq S
  <2>1. rank \in [Nat -> Nat] /\ \A n \in Nat : (\A k \in Nat : rank[k] < rank[n] => k \in S) => n \in S
    BY <1>3
  <2> HIDE DEF S, rank
  <2> QED BY <2>1, RankInduction
<1> QED BY <1>4

\* How deep an effect is.
EffectHeight ==
  [e \in Effects |-> CHOOSE n \in Nat : /\ e \in EffectTrees(Formulas)[n]
                                        /\ \A m \in Nat : e \in EffectTrees(Formulas)[m] => n <= m]

\* It is the least of the depths that allow the effect.
LEMMA EffectHeightLeast ==
  /\ EffectHeight \in [Effects -> Nat]
  /\ \A e \in Effects : /\ e \in EffectTrees(Formulas)[EffectHeight[e]]
                        /\ \A m \in Nat : e \in EffectTrees(Formulas)[m] => EffectHeight[e] <= m
<1>1. \A e \in Effects :
        /\ EffectHeight[e] \in Nat /\ e \in EffectTrees(Formulas)[EffectHeight[e]]
        /\ \A m \in Nat : e \in EffectTrees(Formulas)[m] => EffectHeight[e] <= m
  <2> TAKE e \in Effects
  <2> DEFINE T == {n \in Nat : e \in EffectTrees(Formulas)[n]}
  <2>1. T \in SUBSET Nat /\ Depth \in T
    BY DepthAssumption DEF Effects
  <2>2. \E m \in T : \A k \in T : m <= k
    <3> HIDE DEF T
    <3> QED BY <2>1, LeastNatural
  <2>3. \E n \in Nat : /\ e \in EffectTrees(Formulas)[n]
                       /\ \A m \in Nat : e \in EffectTrees(Formulas)[m] => n <= m
    BY <2>2
  <2>4. EffectHeight[e] = CHOOSE n \in Nat : /\ e \in EffectTrees(Formulas)[n]
                                             /\ \A m \in Nat : e \in EffectTrees(Formulas)[m] => n <= m
    BY DEF EffectHeight
  <2> QED BY <2>3, <2>4
<1> QED BY <1>1 DEF EffectHeight

\* The arguments of an "and" or a "forall" are lower.
LEMMA Subeffects ==
  ASSUME NEW e \in Effects, e.op \in {"and", "forall"}
  PROVE  /\ e.args \in Seq(Effects)
         /\ \A i \in DOMAIN e.args : e.args[i] \in Effects /\ EffectHeight[e.args[i]] < EffectHeight[e]
<1> DEFINE n == EffectHeight[e]
           T == EffectTrees(Formulas)
<1>1. n \in Nat /\ e \in T[n] /\ Depth \in Nat /\ n <= Depth
  BY EffectHeightLeast, DepthAssumption DEF Effects
<1> HIDE DEF n
<1>2. e \notin EffectLeaf(Formulas)
  BY EffectParts
<1>3. n # 0 /\ e \in EffectNode(T[n - 1])
  BY <1>1, <1>2, EffectTreesAt
<1>4. e.args \in Seq(T[n - 1])
  BY <1>3, EffectParts
<1>5. n - 1 \in Nat /\ n - 1 <= Depth
  BY <1>1, <1>3
<1>6. T[n - 1] \subseteq Effects
  BY <1>1, <1>5, EffectsGrow DEF Effects
<1>7. \A i \in DOMAIN e.args : e.args[i] \in Effects /\ EffectHeight[e.args[i]] < n
  <2> TAKE i \in DOMAIN e.args
  <2>1. e.args[i] \in T[n - 1]
    BY <1>4
  <2>2. e.args[i] \in Effects /\ EffectHeight[e.args[i]] <= n - 1 /\ EffectHeight[e.args[i]] \in Nat
    BY <1>5, <1>6, <2>1, EffectHeightLeast
  <2> QED BY <1>1, <2>2
<1>8. e.args \in Seq(Effects)
  <2> HIDE DEF T
  <2> QED BY <1>4, <1>6
<1> QED BY <1>7, <1>8 DEF n

\* The conditions the parser delivers are formulas.
LEMMA SourceConditions == Conditions \subseteq Formulas
<1>1. Depth \in Nat /\ Depth <= 6 * Depth /\ 6 * Depth \in Nat
  BY DepthAssumption
<1> QED BY <1>1, TreesGrow DEF Conditions, Formulas

\* What the parser delivers is among the effects, and so is what it consists of.
LEMMA SourceParts ==
  ASSUME NEW e \in SourceEffects
  PROVE  /\ e \in Effects
         /\ e.op \in {"and", "forall"} => \A i \in DOMAIN e.args : e.args[i] \in SourceEffects
<1>1. Depth \in Nat
  BY DepthAssumption
<1>2. Conditions \subseteq Formulas
  BY SourceConditions
<1>3. e \in Effects
  BY <1>1, <1>2, EffectsGrow DEF SourceEffects, Effects
<1>4. ASSUME e.op \in {"and", "forall"} PROVE \A i \in DOMAIN e.args : e.args[i] \in SourceEffects
  <2> DEFINE T == EffectTrees(Conditions)
  <2>1. e \notin EffectLeaf(Conditions)
    BY <1>4, EffectParts
  <2>2. Depth # 0 /\ e \in EffectNode(T[Depth - 1])
    BY <1>1, <2>1, EffectTreesAt DEF SourceEffects
  <2>3. e.args \in Seq(T[Depth - 1])
    BY <2>2, EffectParts
  <2>4. Depth - 1 \in Nat /\ Depth - 1 <= Depth
    BY <1>1, <2>2
  <2>5. T[Depth - 1] \subseteq SourceEffects
    BY <1>1, <2>4, EffectsGrow DEF SourceEffects
  <2> HIDE DEF T
  <2> QED BY <2>3, <2>5
<1> QED BY <1>3, <1>4

\* A "forall" has one argument, and variables.
LEMMA ForAllParts ==
  ASSUME NEW e \in Effects, e.op = "forall"
  PROVE  e.vars \in Seq(Var) /\ Len(e.args) = 1 /\ 1 \in DOMAIN e.args
<1>1. PICK n \in Nat : e \in EffectTrees(Formulas)[n]
  BY DepthAssumption DEF Effects
<1>2. e \notin EffectLeaf(Formulas)
  BY EffectParts
<1>3. \E S : e \in EffectNode(S)
  BY <1>1, <1>2, EffectTreesAt
<1>4. PICK S : e \in [op : {"forall"}, vars : Seq(Var), args : Seq(S)] /\ Len(e.args) = 1
  BY <1>3 DEF EffectNode
<1> QED BY <1>4

\* The body of EffectConditions.
ListDef(p, g, e) ==
  CASE e.op \in {"and", "forall"} -> FlattenSeq([i \in DOMAIN e.args |-> g[e.args[i]]])
    [] e.op = "when"              -> <<e.condition>>
    [] OTHER                      -> <<>>
ListR == INSTANCE Recursion WITH Def <- ListDef

\* EffectConditions, unfolded once.
LEMMA EffectConditionsAt == \A e \in Effects : EffectConditions[e] = ListDef(0, EffectConditions, e)
<1>1. ListR!Grounded(0, Effects, EffectHeight)
  <2> SUFFICES ASSUME NEW e \in Effects, NEW g, NEW h,
                      \A d \in Effects : EffectHeight[d] < EffectHeight[e] => g[d] = h[d]
               PROVE  ListDef(0, g, e) = ListDef(0, h, e)
    BY DEF ListR!Grounded
  <2>1. CASE e.op \in {"and", "forall"}
    <3> DEFINE A == [i \in DOMAIN e.args |-> g[e.args[i]]]
               B == [i \in DOMAIN e.args |-> h[e.args[i]]]
    <3>1. \A i \in DOMAIN e.args : g[e.args[i]] = h[e.args[i]]
      BY <2>1, Subeffects
    <3>2. A = B
      BY <3>1
    <3>3. ListDef(0, g, e) = FlattenSeq(A) /\ ListDef(0, h, e) = FlattenSeq(B)
      BY <2>1 DEF ListDef
    <3> HIDE DEF A, B
    <3> QED BY <3>2, <3>3
  <2>2. CASE e.op \notin {"and", "forall"}
    BY <2>2 DEF ListDef
  <2> QED BY <2>1, <2>2
<1>2. \E F : F = [e \in Effects |-> ListDef(0, F, e)]
  BY <1>1, EffectHeightLeast, ListR!RecursiveFunction, LeastNatural
<1>3. EffectConditions = [e \in Effects |-> ListDef(0, EffectConditions, e)]
  BY <1>2, Zenon DEF EffectConditions, ListDef
<1> QED BY <1>3

\* The body of normalizeEffect, for one context.
EffectValue(g, e, context) ==
  CASE e.op \in {"and", "forall"} ->
         LET r == NormalizeEach([i \in DOMAIN e.args |-> g[e.args[i]]], context)
         IN  [result |-> [e EXCEPT !.args = r.result], context |-> r.context]
    [] e.op = "when" -> LET r == normalize(e.condition)[context]
                        IN  [result |-> [e EXCEPT !.condition = r.result], context |-> r.context]
    [] OTHER -> [result |-> e, context |-> context]
EffectDef(p, g, e) == [context \in Contexts |-> EffectValue(g, e, context)]
EffectR == INSTANCE Recursion WITH Def <- EffectDef

\* normalizeEffect, unfolded once.
LEMMA NormalizeEffectAt ==
  \A e \in SourceEffects : \A context \in Contexts :
    normalizeEffect[e][context] = EffectValue(normalizeEffect, e, context)
<1> DEFINE rank == [e \in SourceEffects |-> EffectHeight[e]]
<1>1. rank \in [SourceEffects -> Nat]
  BY EffectHeightLeast, SourceParts
<1>2. EffectR!Grounded(0, SourceEffects, rank)
  <2> SUFFICES ASSUME NEW e \in SourceEffects, NEW g, NEW h,
                      \A d \in SourceEffects : rank[d] < rank[e] => g[d] = h[d]
               PROVE  EffectDef(0, g, e) = EffectDef(0, h, e)
    BY DEF EffectR!Grounded
  <2>1. \A d \in SourceEffects : EffectHeight[d] < EffectHeight[e] => g[d] = h[d]
    OBVIOUS
  <2> HIDE DEF rank
  <2>2. ASSUME NEW context \in Contexts
        PROVE  EffectValue(g, e, context) = EffectValue(h, e, context)
    <3>1. CASE e.op \in {"and", "forall"}
      <4> DEFINE A == [i \in DOMAIN e.args |-> g[e.args[i]]]
                 B == [i \in DOMAIN e.args |-> h[e.args[i]]]
      <4>1. \A i \in DOMAIN e.args : g[e.args[i]] = h[e.args[i]]
        BY <2>1, <3>1, SourceParts, Subeffects
      <4>2. A = B
        BY <4>1
      <4>3. /\ EffectValue(g, e, context) = [result |-> [e EXCEPT !.args = NormalizeEach(A, context).result],
                                             context |-> NormalizeEach(A, context).context]
            /\ EffectValue(h, e, context) = [result |-> [e EXCEPT !.args = NormalizeEach(B, context).result],
                                             context |-> NormalizeEach(B, context).context]
        BY <3>1 DEF EffectValue
      <4> HIDE DEF A, B
      <4> QED BY <4>2, <4>3
    <3>2. CASE e.op \notin {"and", "forall"}
      BY <3>2 DEF EffectValue
    <3> QED BY <3>1, <3>2
  <2> QED BY <2>2 DEF EffectDef
<1>3. \E F : F = [e \in SourceEffects |-> EffectDef(0, F, e)]
  <2> HIDE DEF rank
  <2> QED BY <1>1, <1>2, EffectR!RecursiveFunction, LeastNatural
<1>4. normalizeEffect = [e \in SourceEffects |-> EffectDef(0, normalizeEffect, e)]
  BY <1>3, Zenon DEF normalizeEffect, EffectDef, EffectValue
<1> TAKE e \in SourceEffects
<1> DEFINE value(context) == EffectValue(normalizeEffect, e, context)
<1>5. normalizeEffect[e] = [context \in Contexts |-> value(context)]
  BY <1>4 DEF EffectDef
<1> TAKE context \in Contexts
<1>6. normalizeEffect[e][context] = value(context)
  <2> HIDE DEF value
  <2> QED BY <1>5
<1> QED BY <1>6

\* The body of Placed.
PlaceDef(p, g, e) ==
  CASE e.op = "and"    -> FlattenSeq([i \in DOMAIN e.args |-> g[e.args[i]]])
    [] e.op = "forall" -> LET inner == g[e.args[1]] IN [i \in DOMAIN inner |-> Within(inner[i], e.vars)]
    [] OTHER           -> <<[effect |-> e, scope |-> [env \in Environments |-> {env}]]>>
PlaceR == INSTANCE Recursion WITH Def <- PlaceDef

\* Placed, unfolded once.
LEMMA PlacedAt == \A e \in Effects : Placed[e] = PlaceDef(0, Placed, e)
<1>1. PlaceR!Grounded(0, Effects, EffectHeight)
  <2> SUFFICES ASSUME NEW e \in Effects, NEW g, NEW h,
                      \A d \in Effects : EffectHeight[d] < EffectHeight[e] => g[d] = h[d]
               PROVE  PlaceDef(0, g, e) = PlaceDef(0, h, e)
    BY DEF PlaceR!Grounded
  <2>1. CASE e.op = "and"
    <3> DEFINE A == [i \in DOMAIN e.args |-> g[e.args[i]]]
               B == [i \in DOMAIN e.args |-> h[e.args[i]]]
    <3>1. \A i \in DOMAIN e.args : g[e.args[i]] = h[e.args[i]]
      BY <2>1, Subeffects
    <3>2. A = B
      BY <3>1
    <3>3. PlaceDef(0, g, e) = FlattenSeq(A) /\ PlaceDef(0, h, e) = FlattenSeq(B)
      BY <2>1 DEF PlaceDef
    <3> HIDE DEF A, B
    <3> QED BY <3>2, <3>3
  <2>2. CASE e.op = "forall"
    <3>1. 1 \in DOMAIN e.args
      BY <2>2, ForAllParts
    <3>2. g[e.args[1]] = h[e.args[1]]
      BY <2>2, <3>1, Subeffects
    <3> QED BY <2>2, <3>2 DEF PlaceDef
  <2>3. CASE e.op \notin {"and", "forall"}
    BY <2>3 DEF PlaceDef
  <2> QED BY <2>1, <2>2, <2>3
<1>2. \E F : F = [e \in Effects |-> PlaceDef(0, F, e)]
  BY <1>1, EffectHeightLeast, PlaceR!RecursiveFunction, LeastNatural
<1>3. Placed = [e \in Effects |-> PlaceDef(0, Placed, e)]
  BY <1>2, Zenon DEF Placed, PlaceDef
<1> QED BY <1>3

\* Placed effects, and pairs of them that differ in their conditions alone, which
\* W relates.
Places == [effect : EffectLeaf(Formulas), scope : [Environments -> SUBSET Environments]]
Twins(W) ==
  {w \in Places \X Places :
     /\ w[1].scope = w[2].scope
     /\ \/ w[1].effect.op # "when" /\ w[1].effect = w[2].effect
        \/ /\ w[1].effect.op = "when" /\ w[2].effect.op = "when"
           /\ w[1].effect.args = w[2].effect.args
           /\ <<w[1].effect.condition, w[2].effect.condition>> \in W}

\* A placed effect keeps its effect when its scope is widened.
LEMMA WithinPlaces ==
  ASSUME NEW p \in Places, NEW xs \in Seq(Var)
  PROVE  /\ Within(p, xs) \in Places /\ Within(p, xs).effect = p.effect
         /\ \A env \in Environments :
              Within(p, xs).scope[env] = UNION {p.scope[Bind(env, xs, os)] : os \in Tuples(xs)}
<1> DEFINE F == [env \in Environments |-> UNION {p.scope[Bind(env, xs, os)] : os \in Tuples(xs)}]
<1>1. p \in [effect : EffectLeaf(Formulas), scope : [Environments -> SUBSET Environments]]
  BY DEF Places
<1>2. \A env \in Environments : \A os \in Tuples(xs) : p.scope[Bind(env, xs, os)] \in SUBSET Environments
  BY <1>1, BindType
<1>3. F \in [Environments -> SUBSET Environments]
  BY <1>2
<1>4. Within(p, xs) = [p EXCEPT !.scope = F]
  BY DEF Within
<1>5. \A env \in Environments : F[env] = UNION {p.scope[Bind(env, xs, os)] : os \in Tuples(xs)}
  OBVIOUS
<1> HIDE DEF F
<1>6. [p EXCEPT !.scope = F] \in [effect : EffectLeaf(Formulas), scope : [Environments -> SUBSET Environments]]
      /\ [p EXCEPT !.scope = F].effect = p.effect /\ [p EXCEPT !.scope = F].scope = F
  BY <1>1, <1>3
<1> QED BY <1>4, <1>5, <1>6 DEF Places

\* Twins remain twins in a wider scope.
LEMMA TwinsWithin ==
  ASSUME NEW W, NEW s, NEW t, Paired(s, t, Places, Places, Twins(W)), NEW xs \in Seq(Var)
  PROVE  Paired([i \in DOMAIN s |-> Within(s[i], xs)], [i \in DOMAIN t |-> Within(t[i], xs)], Places, Places, Twins(W))
<1> DEFINE n == Len(s)
           u == [i \in DOMAIN s |-> Within(s[i], xs)]
           v == [i \in DOMAIN t |-> Within(t[i], xs)]
<1>1. /\ n \in Nat /\ DOMAIN s = 1 .. n /\ DOMAIN t = 1 .. n
      /\ \A i \in 1 .. n : s[i] \in Places /\ t[i] \in Places /\ <<s[i], t[i]>> \in Twins(W)
  BY DEF Paired
<1> HIDE DEF n
<1>2. ASSUME NEW i \in 1 .. n
      PROVE  /\ Within(s[i], xs) \in Places /\ Within(t[i], xs) \in Places
             /\ <<Within(s[i], xs), Within(t[i], xs)>> \in Twins(W)
  <2> DEFINE p == s[i]
             q == t[i]
             p2 == Within(p, xs)
             q2 == Within(q, xs)
  <2>1. p \in Places /\ q \in Places /\ <<p, q>> \in Twins(W)
    BY <1>1
  <2> HIDE DEF p, q
  <2>2. p2 \in Places /\ q2 \in Places /\ p2.effect = p.effect /\ q2.effect = q.effect
    BY <2>1, WithinPlaces
  <2>3. p.scope = q.scope
    BY <2>1 DEF Twins
  <2>4. p2.scope = q2.scope
    <3>1. p2.scope = [env \in Environments |-> UNION {p.scope[Bind(env, xs, os)] : os \in Tuples(xs)}]
          /\ q2.scope = [env \in Environments |-> UNION {q.scope[Bind(env, xs, os)] : os \in Tuples(xs)}]
      BY <2>1 DEF Within, Places
    <3> HIDE DEF p2, q2
    <3> QED BY <2>3, <3>1
  <2> HIDE DEF p2, q2
  <2>5. <<p2, q2>> \in Twins(W)
    BY <2>1, <2>2, <2>4 DEF Twins
  <2> QED BY <2>2, <2>5 DEF p, q, p2, q2
<1>3. /\ Len(u) = n /\ Len(v) = n /\ u \in Seq(Places) /\ v \in Seq(Places)
      /\ \A i \in 1 .. n : <<u[i], v[i]>> \in Twins(W)
  <2>1. u \in [1 .. n -> Places] /\ v \in [1 .. n -> Places]
    BY <1>1, <1>2
  <2>2. \A i \in 1 .. n : u[i] = Within(s[i], xs) /\ v[i] = Within(t[i], xs)
    BY <1>1
  <2> HIDE DEF u, v
  <2>3. u \in Seq(Places) /\ v \in Seq(Places) /\ Len(u) = n /\ Len(v) = n
    BY <1>1, <2>1
  <2> QED BY <1>2, <2>2, <2>3
<1> QED BY <1>1, <1>3 DEF Paired, n

\* The conditions of e and of what it is normalized to, and the placed effects.
PairedConditions(e, d, W) ==
  /\ Paired(EffectConditions[e], EffectConditions[d], Conditions, Formulas, W)
  /\ Paired(Placed[e], Placed[d], Places, Places, Twins(W))
EffectRelation ==
  {w \in SourceEffects \X Effects \X Contexts \X Contexts : PairedConditions(w[1], w[2], Pairs(w[3], w[4]))}

\* EffectRelation, pair by pair.
LEMMA InEffects ==
  \A e, d, a, b : <<e, d, a, b>> \in EffectRelation <=>
    e \in SourceEffects /\ d \in Effects /\ a \in Contexts /\ b \in Contexts /\ PairedConditions(e, d, Pairs(a, b))
BY DEF EffectRelation

\* What is paired remains so.
LEMMA PairedOn ==
  ASSUME NEW S, NEW T, NEW s, NEW t, NEW W, NEW X, W \subseteq X, Paired(s, t, S, T, W)
  PROVE  Paired(s, t, S, T, X)
BY DEF Paired

\* Lasting: what an effect is normalized to stays its translation.
LEMMA EffectsLast == Lasting(EffectRelation)
<1> SUFFICES ASSUME NEW e, NEW e2, NEW a, NEW b, NEW c, NEW d,
                    Grown(a, b), Grown(b, c), Grown(c, d), <<e, e2, b, c>> \in EffectRelation
             PROVE  <<e, e2, a, d>> \in EffectRelation
  BY DEF Lasting
<1>1. e \in SourceEffects /\ e2 \in Effects /\ PairedConditions(e, e2, Pairs(b, c))
  BY InEffects
<1>2. a \in Contexts /\ d \in Contexts
  BY DEF Grown
<1>3. Pairs(b, c) \subseteq Pairs(a, d)
  BY ConditionsLast
<1>4. Twins(Pairs(b, c)) \subseteq Twins(Pairs(a, d))
  BY <1>3 DEF Twins
<1>5. PairedConditions(e, e2, Pairs(a, d))
  BY <1>1, <1>3, <1>4, PairedOn DEF PairedConditions
<1> QED BY <1>1, <1>2, <1>5, InEffects

\* Pairs of no conditions, and of one.
LEMMA PairedFew ==
  ASSUME NEW S, NEW T, NEW W
  PROVE  /\ Paired(<<>>, <<>>, S, T, W)
         /\ \A f \in S : \A g \in T : <<f, g>> \in W => Paired(<<f>>, <<g>>, S, T, W)
<1>1. ASSUME NEW f \in S, NEW g \in T, <<f, g>> \in W PROVE Paired(<<f>>, <<g>>, S, T, W)
  <2>1. /\ <<f>> \in Seq(S) /\ <<g>> \in Seq(T) /\ Len(<<f>>) = 1 /\ Len(<<g>>) = 1
        /\ <<f>>[1] = f /\ <<g>>[1] = g
    OBVIOUS
  <2>2. \A j \in 1 .. 1 : j = 1
    OBVIOUS
  <2> QED BY <1>1, <2>1, <2>2 DEF Paired
<1>2. Paired(<<>>, <<>>, S, T, W)
  BY DEF Paired
<1> QED BY <1>1, <1>2

\* What is left of an "and" or a "forall" when its arguments are replaced.
LEMMA EffectRebuilt ==
  ASSUME NEW S, NEW e \in EffectNode(S), NEW T, NEW args \in Seq(T), Len(args) = Len(e.args)
  PROVE  LET d == [e EXCEPT !.args = args]
         IN  d \in EffectNode(T) /\ d.op = e.op /\ d.args = args /\ (e.op = "forall" => d.vars = e.vars)
<1>1. CASE e \in [op : {"and"}, args : Seq(S)]
  <2>1. PICK a \in Seq(S) : e = [op |-> "and", args |-> a]
    BY <1>1
  <2>2. [e EXCEPT !.args = args] = [op |-> "and", args |-> args]
    BY <2>1
  <2>3. [op |-> "and", args |-> args] \in EffectNode(T)
    BY DEF EffectNode
  <2> QED BY <2>1, <2>2, <2>3
<1>2. CASE e \notin [op : {"and"}, args : Seq(S)]
  <2>1. /\ e \in [op : {"forall"}, vars : Seq(Var), args : Seq(S)]
        /\ IsInjective(e.vars) /\ Len(e.args) = 1
    BY <1>2 DEF EffectNode
  <2>2. PICK xs \in Seq(Var), a \in Seq(S) : e = [op |-> "forall", vars |-> xs, args |-> a]
    BY <2>1
  <2>3. [e EXCEPT !.args = args] = [op |-> "forall", vars |-> xs, args |-> args]
    BY <2>2
  <2>4. [op |-> "forall", vars |-> xs, args |-> args] \in EffectNode(T)
    <3>1. IsInjective(xs) /\ Len(args) = 1
      BY <2>1, <2>2
    <3> QED BY <3>1 DEF EffectNode
  <2> QED BY <2>2, <2>3, <2>4
<1> QED BY <1>1, <1>2

\* What an effect of at most n "and" and "forall" nested is normalized to.
SoundEffect(n, e, c) ==
  LET r == normalizeEffect[e][c]
  IN  /\ r \in [result : EffectTrees(Formulas)[n], context : Contexts] /\ Grown(c, r.context)
      /\ PairedConditions(e, r.result, Pairs(c, r.context))

\* An effect without arguments to be normalized.
LEMMA EffectLeafSound ==
  ASSUME NEW n \in Nat, n <= Depth, NEW e \in EffectLeaf(Conditions), NEW c \in Contexts
  PROVE  SoundEffect(n, e, c)
<1> DEFINE r == normalizeEffect[e][c]
<1>1. Depth \in Nat /\ \A k \in Nat : k <= Depth => EffectTrees(Formulas)[k] \subseteq Effects
  BY DepthAssumption, EffectsGrow DEF Effects
<1>2. e \in SourceEffects /\ e \in Effects /\ EffectLeaf(Formulas) \subseteq EffectTrees(Formulas)[n]
  <2>1. e \in SourceEffects
    BY <1>1, EffectTreesAt DEF SourceEffects
  <2>2. EffectLeaf(Formulas) \subseteq EffectTrees(Formulas)[n]
    BY EffectTreesAt
  <2> QED BY <2>1, <2>2, SourceParts
<1>3. EffectConditions[e] = ListDef(0, EffectConditions, e)
  BY <1>2, EffectConditionsAt
<1>4. r = EffectValue(normalizeEffect, e, c)
  BY <1>2, NormalizeEffectAt
<1>5. CASE e.op = "when"
  <2> DEFINE s == normalize(e.condition)[c]
             d == [e EXCEPT !.condition = s.result]
  <2>1. e.condition \in Conditions /\ e \in [op : {"when"}, condition : Conditions, args : Seq(EffectLiteral)]
    BY <1>5, EffectParts
  <2>2. /\ s \in [result : Formulas, context : Contexts] /\ Grown(c, s.context)
        /\ Translated(e.condition, s.result, c, s.context)
    BY <2>1, ConditionSound
  <2>3. r = [result |-> d, context |-> s.context]
    BY <1>4, <1>5 DEF EffectValue
  <2> HIDE DEF r, s
  <2>4. /\ d \in [op : {"when"}, condition : Formulas, args : Seq(EffectLiteral)]
        /\ d.op = "when" /\ d.condition = s.result
    BY <2>1, <2>2
  <2> HIDE DEF d
  <2>5. d \in EffectLeaf(Formulas)
    BY <2>4 DEF EffectLeaf
  <2>6. d \in Effects
    BY <1>1, <1>2, <2>5
  <2>7. EffectConditions[e] = <<e.condition>> /\ EffectConditions[d] = <<s.result>>
    BY <1>3, <1>5, <2>4, <2>6, EffectConditionsAt DEF ListDef
  <2>8. <<e.condition, s.result>> \in Pairs(c, s.context)
    BY <2>1, <2>2, InConditions
  <2>11. Paired(Placed[e], Placed[d], Places, Places, Twins(Pairs(c, s.context)))
    <3> DEFINE p == [effect |-> e, scope |-> [env \in Environments |-> {env}]]
               q == [effect |-> d, scope |-> [env \in Environments |-> {env}]]
               W == Pairs(c, s.context)
    <3>1. Placed[e] = <<p>> /\ Placed[d] = <<q>>
      BY <1>2, <1>5, <2>4, <2>6, PlacedAt DEF PlaceDef
    <3>2. e \in EffectLeaf(Formulas)
      BY <2>1, SourceConditions DEF EffectLeaf
    <3>3. p \in Places /\ q \in Places
      BY <2>5, <3>2 DEF Places
    <3>4. p.scope = q.scope /\ p.effect = e /\ q.effect = d
      OBVIOUS
    <3>5. d.args = e.args /\ <<e.condition, d.condition>> \in W
      BY <2>1, <2>4, <2>8 DEF d
    <3> HIDE DEF p, q, W
    <3>6. <<p, q>> \in Twins(W)
      BY <1>5, <2>4, <3>3, <3>4, <3>5 DEF Twins
    <3>7. Paired(<<p>>, <<q>>, Places, Places, Twins(W))
      BY <3>3, <3>6, PairedFew
    <3> QED BY <3>1, <3>7 DEF W
  <2>9. PairedConditions(e, d, Pairs(c, s.context))
    <3> DEFINE f == e.condition
               g == s.result
               W == Pairs(c, s.context)
    <3>1. f \in Conditions /\ g \in Formulas /\ <<f, g>> \in W
      BY <2>1, <2>2, <2>8
    <3>2. EffectConditions[e] = <<f>> /\ EffectConditions[d] = <<g>>
      BY <2>7
    <3> HIDE DEF f, g, W
    <3>3. Paired(<<f>>, <<g>>, Conditions, Formulas, W)
      BY <3>1, PairedFew
    <3>4. PairedConditions(e, d, W)
      BY <2>11, <3>2, <3>3 DEF PairedConditions, W
    <3> QED BY <3>4 DEF W
  <2>10. r \in [result : EffectTrees(Formulas)[n], context : Contexts]
    BY <1>2, <2>2, <2>3, <2>5
  <2> QED BY <2>2, <2>3, <2>9, <2>10 DEF SoundEffect, r
<1>6. CASE e.op # "when"
  <2>1. e.op \in {"atom", "not"} /\ e \in EffectLiteral
    BY <1>6, EffectParts
  <2>2. r = [result |-> e, context |-> c]
    BY <1>4, <2>1 DEF EffectValue
  <2>3. EffectConditions[e] = <<>>
    BY <1>3, <2>1 DEF ListDef
  <2>6. Paired(Placed[e], Placed[e], Places, Places, Twins(Pairs(c, c)))
    <3> DEFINE p == [effect |-> e, scope |-> [env \in Environments |-> {env}]]
               W == Pairs(c, c)
    <3>1. Placed[e] = <<p>>
      BY <1>2, <2>1, PlacedAt DEF PlaceDef
    <3>2. p \in Places /\ p.effect = e
      BY <2>1 DEF Places, EffectLeaf
    <3> HIDE DEF p, W
    <3>3. <<p, p>> \in Twins(W)
      BY <1>6, <3>2 DEF Twins
    <3>4. Paired(<<p>>, <<p>>, Places, Places, Twins(W))
      BY <3>2, <3>3, PairedFew
    <3> QED BY <3>1, <3>4 DEF W
  <2>4. PairedConditions(e, e, Pairs(c, c))
    BY <2>3, <2>6, PairedFew DEF PairedConditions
  <2>5. e \in EffectTrees(Formulas)[n] /\ Grown(c, c)
    BY <1>2, <2>1, GrownSelf DEF EffectLeaf
  <2> HIDE DEF r
  <2> QED BY <2>2, <2>4, <2>5 DEF SoundEffect, r
<1> QED BY <1>5, <1>6

\* An effect whose arguments are normalized as they should be.
LEMMA EffectNodeSound ==
  ASSUME NEW n \in Nat, n <= Depth, n # 0, NEW e \in EffectNode(EffectTrees(Conditions)[n - 1]),
         \A d \in EffectTrees(Conditions)[n - 1] : \A b \in Contexts : SoundEffect(n - 1, d, b),
         NEW c \in Contexts
  PROVE  SoundEffect(n, e, c)
<1> DEFINE A == EffectTrees(Conditions)[n - 1]
           B == EffectTrees(Formulas)[n - 1]
           r == normalizeEffect[e][c]
           m == Len(e.args)
           steps == [i \in DOMAIN e.args |-> normalizeEffect[e.args[i]]]
           s == NormalizeEach(steps, c)
           d == [e EXCEPT !.args = s.result]
<1>1. Depth \in Nat /\ n - 1 \in Nat /\ n - 1 <= Depth
  BY DepthAssumption
<1>2. A \subseteq SourceEffects /\ B \subseteq Effects /\ EffectTrees(Formulas)[n] \subseteq Effects
  BY <1>1, EffectsGrow DEF Effects, SourceEffects
<1>3. e \in SourceEffects /\ e \in Effects /\ EffectNode(B) \subseteq EffectTrees(Formulas)[n]
  <2>1. e \in EffectTrees(Conditions)[n] /\ EffectNode(B) \subseteq EffectTrees(Formulas)[n]
    BY EffectTreesAt
  <2>2. EffectTrees(Conditions)[n] \subseteq SourceEffects
    BY <1>1, EffectsGrow DEF SourceEffects
  <2> QED BY <2>1, <2>2, SourceParts
<1>4. /\ e.op \in {"and", "forall"} /\ e.args \in Seq(A) /\ m \in Nat /\ DOMAIN e.args = 1 .. m
      /\ \A i \in 1 .. m : e.args[i] \in A
  BY EffectParts
<1>5. r = [result |-> d, context |-> s.context]
  <2>1. r = EffectValue(normalizeEffect, e, c)
    BY <1>3, NormalizeEffectAt
  <2> QED BY <1>4, <2>1 DEF EffectValue
<1> HIDE DEF r
<1>6. Len(steps) = m /\ \A i \in 1 .. m : steps[i] = normalizeEffect[e.args[i]]
  <2>1. steps = [i \in 1 .. m |-> steps[i]] /\ \A i \in 1 .. m : steps[i] = normalizeEffect[e.args[i]]
    BY <1>4
  <2> HIDE DEF steps, m
  <2> QED BY <1>4, <2>1, LengthOf
<1> HIDE DEF steps
<1>7. EachStep(m, e.args, steps, B, EffectRelation)
  <2> SUFFICES ASSUME NEW i \in 1 .. m, NEW b \in Contexts
               PROVE  /\ steps[i][b].result \in B /\ Grown(b, steps[i][b].context)
                      /\ <<e.args[i], steps[i][b].result, b, steps[i][b].context>> \in EffectRelation
    BY DEF EachStep
  <2> DEFINE t == normalizeEffect[e.args[i]][b]
  <2>1. steps[i][b] = t
    BY <1>6
  <2>2. /\ t \in [result : B, context : Contexts] /\ Grown(b, t.context)
        /\ PairedConditions(e.args[i], t.result, Pairs(b, t.context))
    BY <1>4 DEF SoundEffect
  <2> HIDE DEF t
  <2>3. t.result \in B /\ t.context \in Contexts /\ e.args[i] \in SourceEffects /\ t.result \in Effects
    BY <1>2, <1>4, <2>2
  <2> QED BY <2>1, <2>2, <2>3, InEffects
<1>8. All(m, e.args, s, c, B, EffectRelation)
  <2> HIDE DEF m, A, B
  <2> QED BY <1>4, <1>6, <1>7, EffectsLast, EachMeets
<1> HIDE DEF s
<1>9. /\ s \in [result : Seq(B), context : Contexts] /\ Len(s.result) = m /\ Grown(c, s.context)
      /\ \A i \in 1 .. m : <<e.args[i], s.result[i], c, s.context>> \in EffectRelation
  BY <1>8 DEF All
<1>10. d \in EffectNode(B) /\ d.op = e.op /\ d.args = s.result /\ (e.op = "forall" => d.vars = e.vars)
  BY <1>9, EffectRebuilt
<1> HIDE DEF d
<1>11. d \in EffectTrees(Formulas)[n] /\ d \in Effects
  BY <1>2, <1>3, <1>10
<1> DEFINE ss == [i \in DOMAIN e.args |-> EffectConditions[e.args[i]]]
           tt == [i \in DOMAIN d.args |-> EffectConditions[d.args[i]]]
           W == Pairs(c, s.context)
<1>12. EffectConditions[e] = FlattenSeq(ss)
  BY <1>3, <1>4, EffectConditionsAt DEF ListDef
<1>13. EffectConditions[d] = FlattenSeq(tt)
  BY <1>4, <1>10, <1>11, EffectConditionsAt DEF ListDef
<1>14. DOMAIN d.args = 1 .. m /\ \A i \in 1 .. m : d.args[i] = s.result[i]
  BY <1>9, <1>10
<1>15. /\ ss = [i \in 1 .. m |-> ss[i]] /\ tt = [i \in 1 .. m |-> tt[i]]
       /\ \A i \in 1 .. m : ss[i] = EffectConditions[e.args[i]] /\ tt[i] = EffectConditions[s.result[i]]
  BY <1>4, <1>14
<1> HIDE DEF ss, tt
<1>16. \A i \in 1 .. m : Paired(ss[i], tt[i], Conditions, Formulas, W)
  <2> TAKE i \in 1 .. m
  <2>1. PairedConditions(e.args[i], s.result[i], W)
    BY <1>9, InEffects
  <2>2. Paired(EffectConditions[e.args[i]], EffectConditions[s.result[i]], Conditions, Formulas, W)
    BY <2>1 DEF PairedConditions
  <2> QED BY <1>15, <2>2
<1>17. Len(ss) = m /\ Len(tt) = m /\ (m = 0 => ss = <<>> /\ tt = <<>>)
  <2> HIDE DEF m
  <2>1. Len(ss) = m /\ Len(tt) = m
    BY <1>4, <1>15, LengthOf
  <2>2. ASSUME m = 0 PROVE ss = <<>> /\ tt = <<>>
    BY <1>15, <2>2
  <2> QED BY <2>1, <2>2
<1>18. Paired(FlattenSeq(ss), FlattenSeq(tt), Conditions, Formulas, W)
  <2> HIDE DEF m, W
  <2> QED BY <1>4, <1>16, <1>17, PairedFlattened
<1>20. \A i \in 1 .. m : Paired(Placed[e.args[i]], Placed[s.result[i]], Places, Places, Twins(W))
  <2> TAKE i \in 1 .. m
  <2>1. PairedConditions(e.args[i], s.result[i], W)
    BY <1>9, InEffects
  <2> QED BY <2>1 DEF PairedConditions
<1>21. Paired(Placed[e], Placed[d], Places, Places, Twins(W))
  <2>1. CASE e.op = "and"
    <3> DEFINE pp == [i \in DOMAIN e.args |-> Placed[e.args[i]]]
               qq == [i \in DOMAIN d.args |-> Placed[d.args[i]]]
    <3>1. Placed[e] = FlattenSeq(pp) /\ Placed[d] = FlattenSeq(qq)
      BY <1>3, <1>10, <1>11, <2>1, PlacedAt DEF PlaceDef
    <3>2. /\ pp = [i \in 1 .. m |-> pp[i]] /\ qq = [i \in 1 .. m |-> qq[i]]
          /\ \A i \in 1 .. m : pp[i] = Placed[e.args[i]] /\ qq[i] = Placed[s.result[i]]
      BY <1>4, <1>14
    <3> HIDE DEF pp, qq, m, W
    <3>3. \A i \in 1 .. m : Paired(pp[i], qq[i], Places, Places, Twins(W))
      BY <1>20, <3>2
    <3>4. Len(pp) = m /\ Len(qq) = m
      BY <1>4, <3>2, LengthOf
    <3>5. ASSUME m = 0 PROVE pp = <<>> /\ qq = <<>>
      BY <3>2, <3>5
    <3>6. Paired(FlattenSeq(pp), FlattenSeq(qq), Places, Places, Twins(W))
      BY <1>4, <3>3, <3>4, <3>5, PairedFlattened
    <3> QED BY <3>1, <3>6
  <2>2. CASE e.op = "forall"
    <3> DEFINE p == Placed[e.args[1]]
               q == Placed[s.result[1]]
    <3>1. e.vars \in Seq(Var) /\ 1 \in 1 .. m /\ d.vars = e.vars /\ d.op = "forall"
      BY <1>3, <1>4, <1>10, <2>2, ForAllParts
    <3>2. Paired(p, q, Places, Places, Twins(W))
      BY <1>20, <3>1
    <3>3. d.args[1] = s.result[1]
      BY <1>14, <3>1
    <3>4. /\ Placed[e] = [i \in DOMAIN p |-> Within(p[i], e.vars)]
          /\ Placed[d] = [i \in DOMAIN q |-> Within(q[i], e.vars)]
      BY <1>3, <1>11, <2>2, <3>1, <3>3, PlacedAt DEF PlaceDef
    <3> HIDE DEF p, q, W
    <3> QED BY <3>1, <3>2, <3>4, TwinsWithin
  <2> QED BY <1>4, <2>1, <2>2
<1>19. PairedConditions(e, d, W)
  BY <1>12, <1>13, <1>18, <1>21 DEF PairedConditions
<1>0. r \in [result : EffectTrees(Formulas)[n], context : Contexts]
  BY <1>5, <1>9, <1>11
<1> QED BY <1>5, <1>9, <1>19, <1>0 DEF SoundEffect, r

\* Every effect is normalized as it should be.
LEMMA EffectsSound ==
  \A n \in Nat : n <= Depth => \A e \in EffectTrees(Conditions)[n] : \A c \in Contexts : SoundEffect(n, e, c)
<1> DEFINE Good(n) == n <= Depth => \A e \in EffectTrees(Conditions)[n] : \A c \in Contexts : SoundEffect(n, e, c)
           S == {n \in Nat : Good(n)}
           rank == [n \in Nat |-> n]
<1>1. ASSUME NEW n \in Nat, \A k \in Nat : rank[k] < rank[n] => k \in S PROVE n \in S
  <2> SUFFICES ASSUME n <= Depth, NEW e \in EffectTrees(Conditions)[n], NEW c \in Contexts
               PROVE  SoundEffect(n, e, c)
    OBVIOUS
  <2>1. CASE e \in EffectLeaf(Conditions)
    BY <2>1, EffectLeafSound
  <2>2. CASE e \notin EffectLeaf(Conditions)
    <3>1. n # 0 /\ e \in EffectNode(EffectTrees(Conditions)[n - 1])
      BY <2>2, EffectTreesAt
    <3>2. n - 1 \in Nat /\ n - 1 < n /\ n - 1 <= Depth
      BY <3>1, DepthAssumption
    <3>3. \A d \in EffectTrees(Conditions)[n - 1] : \A b \in Contexts : SoundEffect(n - 1, d, b)
      BY <1>1, <3>2
    <3> HIDE DEF S, rank
    <3> QED BY <3>1, <3>3, EffectNodeSound
  <2> QED BY <2>1, <2>2
<1>2. Nat \subseteq S
  <2>1. rank \in [Nat -> Nat] /\ \A n \in Nat : (\A k \in Nat : rank[k] < rank[n] => k \in S) => n \in S
    BY <1>1
  <2> HIDE DEF S, rank
  <2> QED BY <2>1, RankInduction
<1> QED BY <1>2

-----------------------------------------------------------------------------
(***************************************************************************)
(* Actions and goals.                                                      *)
(***************************************************************************)
\* A list of conditions, each of which is normalized in turn.
LEMMA ListSound ==
  ASSUME NEW fs \in Seq(Conditions), NEW c \in Contexts
  PROVE  LET r == NormalizeEach(Apply(normalize, fs), c)
         IN  /\ r \in [result : Seq(Formulas), context : Contexts] /\ Grown(c, r.context)
             /\ Paired(fs, r.result, Conditions, Formulas, Pairs(c, r.context))
<1> DEFINE n == Len(fs)
           steps == Apply(normalize, fs)
           r == NormalizeEach(steps, c)
<1>1. n \in Nat /\ DOMAIN fs = 1 .. n /\ \A i \in 1 .. n : fs[i] \in Conditions
  OBVIOUS
<1>2. steps = [i \in 1 .. n |-> normalize(fs[i])]
  BY <1>1 DEF Apply
<1>3. Len(steps) = n /\ \A i \in 1 .. n : steps[i] = normalize(fs[i])
  <2>1. steps = [i \in 1 .. n |-> steps[i]] /\ \A i \in 1 .. n : steps[i] = normalize(fs[i])
    BY <1>2
  <2> HIDE DEF steps, n
  <2> QED BY <1>1, <2>1, LengthOf
<1> HIDE DEF steps
<1>4. EachStep(n, fs, steps, Formulas, ConditionRelation)
  <2> SUFFICES ASSUME NEW i \in 1 .. n, NEW b \in Contexts
               PROVE  /\ steps[i][b].result \in Formulas /\ Grown(b, steps[i][b].context)
                      /\ <<fs[i], steps[i][b].result, b, steps[i][b].context>> \in ConditionRelation
    BY DEF EachStep
  <2> DEFINE t == normalize(fs[i])[b]
  <2>1. steps[i][b] = t
    BY <1>3
  <2>2. /\ t \in [result : Formulas, context : Contexts] /\ Grown(b, t.context)
        /\ Translated(fs[i], t.result, b, t.context)
    BY <1>1, ConditionSound
  <2> HIDE DEF t
  <2>3. t.result \in Formulas /\ t.context \in Contexts
    BY <2>2
  <2> QED BY <1>1, <2>1, <2>2, <2>3, InConditions
<1>5. All(n, fs, r, c, Formulas, ConditionRelation)
  <2> HIDE DEF n
  <2> QED BY <1>1, <1>3, <1>4, ConditionsLast, EachMeets
<1> HIDE DEF r
<1>6. /\ r \in [result : Seq(Formulas), context : Contexts] /\ Len(r.result) = n /\ Grown(c, r.context)
      /\ \A i \in 1 .. n : <<fs[i], r.result[i], c, r.context>> \in ConditionRelation
  BY <1>5 DEF All
<1>7. \A i \in 1 .. n : <<fs[i], r.result[i]>> \in Pairs(c, r.context)
  BY <1>6, InConditions
<1>8. r.result \in Seq(Formulas)
  BY <1>6
<1>9. Paired(fs, r.result, Conditions, Formulas, Pairs(c, r.context))
  BY <1>6, <1>7, <1>8 DEF Paired
<1> QED BY <1>6, <1>9 DEF r, steps

\* So is a list of effects.
LEMMA EffectListSound ==
  ASSUME NEW es \in Seq(SourceEffects), NEW c \in Contexts
  PROVE  LET r == NormalizeEach([i \in DOMAIN es |-> normalizeEffect[es[i]]], c)
         IN  /\ r \in [result : Seq(Effects), context : Contexts] /\ Grown(c, r.context)
             /\ Paired(FlattenSeq([i \in DOMAIN es |-> EffectConditions[es[i]]]),
                       FlattenSeq([i \in DOMAIN r.result |-> EffectConditions[r.result[i]]]),
                       Conditions, Formulas, Pairs(c, r.context))
             /\ Paired(FlattenSeq([i \in DOMAIN es |-> Placed[es[i]]]),
                       FlattenSeq([i \in DOMAIN r.result |-> Placed[r.result[i]]]),
                       Places, Places, Twins(Pairs(c, r.context)))
<1> DEFINE n == Len(es)
           steps == [i \in DOMAIN es |-> normalizeEffect[es[i]]]
           r == NormalizeEach(steps, c)
           ss == [i \in DOMAIN es |-> EffectConditions[es[i]]]
           tt == [i \in DOMAIN r.result |-> EffectConditions[r.result[i]]]
           pp == [i \in DOMAIN es |-> Placed[es[i]]]
           qq == [i \in DOMAIN r.result |-> Placed[r.result[i]]]
           W == Pairs(c, r.context)
<1>1. n \in Nat /\ DOMAIN es = 1 .. n /\ \A i \in 1 .. n : es[i] \in SourceEffects
  OBVIOUS
<1>2. Len(steps) = n /\ \A i \in 1 .. n : steps[i] = normalizeEffect[es[i]]
  <2>1. steps = [i \in 1 .. n |-> steps[i]] /\ \A i \in 1 .. n : steps[i] = normalizeEffect[es[i]]
    BY <1>1
  <2> HIDE DEF steps, n
  <2> QED BY <1>1, <2>1, LengthOf
<1> HIDE DEF steps
<1>3. EachStep(n, es, steps, Effects, EffectRelation)
  <2> SUFFICES ASSUME NEW i \in 1 .. n, NEW b \in Contexts
               PROVE  /\ steps[i][b].result \in Effects /\ Grown(b, steps[i][b].context)
                      /\ <<es[i], steps[i][b].result, b, steps[i][b].context>> \in EffectRelation
    BY DEF EachStep
  <2> DEFINE t == normalizeEffect[es[i]][b]
  <2>1. steps[i][b] = t
    BY <1>2
  <2>2. SoundEffect(Depth, es[i], b)
    BY <1>1, DepthAssumption, EffectsSound DEF SourceEffects
  <2>3. /\ t \in [result : EffectTrees(Formulas)[Depth], context : Contexts] /\ Grown(b, t.context)
        /\ PairedConditions(es[i], t.result, Pairs(b, t.context))
    BY <2>2 DEF SoundEffect
  <2> HIDE DEF t
  <2>4. t.result \in Effects /\ t.context \in Contexts
    BY <2>3 DEF Effects
  <2> QED BY <1>1, <2>1, <2>3, <2>4, InEffects
<1>4. All(n, es, r, c, Effects, EffectRelation)
  <2> HIDE DEF n
  <2> QED BY <1>1, <1>2, <1>3, EffectsLast, EachMeets
<1> HIDE DEF r
<1>5. /\ r \in [result : Seq(Effects), context : Contexts] /\ Len(r.result) = n /\ Grown(c, r.context)
      /\ \A i \in 1 .. n : <<es[i], r.result[i], c, r.context>> \in EffectRelation
  BY <1>4 DEF All
<1>6. DOMAIN r.result = 1 .. n
  BY <1>5
<1>7. /\ ss = [i \in 1 .. n |-> ss[i]] /\ tt = [i \in 1 .. n |-> tt[i]]
      /\ \A i \in 1 .. n : ss[i] = EffectConditions[es[i]] /\ tt[i] = EffectConditions[r.result[i]]
      /\ pp = [i \in 1 .. n |-> pp[i]] /\ qq = [i \in 1 .. n |-> qq[i]]
      /\ \A i \in 1 .. n : pp[i] = Placed[es[i]] /\ qq[i] = Placed[r.result[i]]
  BY <1>1, <1>6
<1> HIDE DEF ss, tt, pp, qq
<1>11. \A i \in 1 .. n : Paired(pp[i], qq[i], Places, Places, Twins(W))
  <2> TAKE i \in 1 .. n
  <2>1. PairedConditions(es[i], r.result[i], W)
    BY <1>5, InEffects
  <2>2. Paired(Placed[es[i]], Placed[r.result[i]], Places, Places, Twins(W))
    BY <2>1 DEF PairedConditions
  <2> QED BY <1>7, <2>2
<1>8. \A i \in 1 .. n : Paired(ss[i], tt[i], Conditions, Formulas, W)
  <2> TAKE i \in 1 .. n
  <2>1. PairedConditions(es[i], r.result[i], W)
    BY <1>5, InEffects
  <2>2. Paired(EffectConditions[es[i]], EffectConditions[r.result[i]], Conditions, Formulas, W)
    BY <2>1 DEF PairedConditions
  <2> QED BY <1>7, <2>2
<1>9. Len(ss) = n /\ Len(tt) = n /\ (n = 0 => ss = <<>> /\ tt = <<>>)
  <2> HIDE DEF n
  <2>1. Len(ss) = n /\ Len(tt) = n
    BY <1>1, <1>7, LengthOf
  <2>2. ASSUME n = 0 PROVE ss = <<>> /\ tt = <<>>
    BY <1>7, <2>2
  <2> QED BY <2>1, <2>2
<1>10. Paired(FlattenSeq(ss), FlattenSeq(tt), Conditions, Formulas, W)
  <2> HIDE DEF n, W
  <2> QED BY <1>1, <1>8, <1>9, PairedFlattened
<1>12. Len(pp) = n /\ Len(qq) = n /\ (n = 0 => pp = <<>> /\ qq = <<>>)
  <2> HIDE DEF n
  <2>1. Len(pp) = n /\ Len(qq) = n
    BY <1>1, <1>7, LengthOf
  <2>2. ASSUME n = 0 PROVE pp = <<>> /\ qq = <<>>
    BY <1>7, <2>2
  <2> QED BY <2>1, <2>2
<1>13. Paired(FlattenSeq(pp), FlattenSeq(qq), Places, Places, Twins(W))
  <2> HIDE DEF n, W
  <2> QED BY <1>1, <1>11, <1>12, PairedFlattened
<1> QED BY <1>5, <1>10, <1>13, Zenon DEF r, ss, tt, pp, qq, steps

\* What an action is normalized to.
NormalizedActions == [parameters : Seq(Var), precondition : Seq(Formulas), effect : Seq(Effects)]

\* An action and what it is normalized to: they differ in their conditions alone.
ActionPaired(a, x, W) ==
  /\ Paired(ConditionsOf(a), ConditionsOf(x), Conditions, Formulas, W)
  /\ x.parameters = a.parameters
  /\ Paired(a.precondition, x.precondition, Conditions, Formulas, W)
  /\ Paired(PlacedEffects(a), PlacedEffects(x), Places, Places, Twins(W))

\* What is paired remains so.
LEMMA ActionPairedOn ==
  ASSUME NEW a, NEW x, NEW W, NEW X, W \subseteq X, ActionPaired(a, x, W)
  PROVE  ActionPaired(a, x, X)
<1>1. Twins(W) \subseteq Twins(X)
  BY DEF Twins
<1> QED BY <1>1, PairedOn DEF ActionPaired

\* An action, whose conditions are normalized as they should be.
LEMMA ActionSound ==
  ASSUME NEW action \in Actions, NEW c \in Contexts
  PROVE  LET r == normalizeAction(action, c)
         IN  /\ r.result \in NormalizedActions /\ Grown(c, r.context)
             /\ ActionPaired(action, r.result, Pairs(c, r.context))
<1> DEFINE p == NormalizeEach(Apply(normalize, action.precondition), c)
           e == NormalizeEach([i \in DOMAIN action.effect |-> normalizeEffect[action.effect[i]]], p.context)
           d == [action EXCEPT !.precondition = p.result, !.effect = e.result]
           es(a) == FlattenSeq([i \in DOMAIN a |-> EffectConditions[a[i]]])
           ps(a) == FlattenSeq([i \in DOMAIN a |-> Placed[a[i]]])
           W == Pairs(c, e.context)
<1>1. /\ action \in [parameters : Seq(Var), precondition : Seq(Conditions), effect : Seq(SourceEffects)]
      /\ action.precondition \in Seq(Conditions) /\ action.effect \in Seq(SourceEffects)
  BY InputAssumption
<1>2. normalizeAction(action, c) = [result |-> d, context |-> e.context]
  BY Zenon DEF normalizeAction
<1>3. /\ p \in [result : Seq(Formulas), context : Contexts] /\ Grown(c, p.context)
      /\ Paired(action.precondition, p.result, Conditions, Formulas, Pairs(c, p.context))
  BY <1>1, ListSound
<1> HIDE DEF p
<1>4. p.context \in Contexts
  BY <1>3
<1>5. /\ e \in [result : Seq(Effects), context : Contexts] /\ Grown(p.context, e.context)
      /\ Paired(es(action.effect), es(e.result), Conditions, Formulas, Pairs(p.context, e.context))
      /\ Paired(ps(action.effect), ps(e.result), Places, Places, Twins(Pairs(p.context, e.context)))
  BY <1>1, <1>4, EffectListSound
<1> HIDE DEF e
<1>6. d.precondition = p.result /\ d.effect = e.result /\ d \in NormalizedActions /\ d.parameters = action.parameters
  <2>1. p.result \in Seq(Formulas) /\ e.result \in Seq(Effects)
    BY <1>3, <1>5
  <2> QED BY <1>1, <2>1 DEF NormalizedActions
<1> HIDE DEF d
<1>7. ConditionsOf(action) = action.precondition \o es(action.effect) /\ ConditionsOf(d) = p.result \o es(e.result)
  BY <1>6, Zenon DEF ConditionsOf
<1>13. PlacedEffects(action) = ps(action.effect) /\ PlacedEffects(d) = ps(e.result)
  BY <1>6, Zenon DEF PlacedEffects
<1> HIDE DEF es, ps
<1>8. c \in Contexts /\ e.context \in Contexts
  BY <1>5
<1>9. Grown(c, e.context) /\ Pairs(c, p.context) \subseteq W /\ Pairs(p.context, e.context) \subseteq W
  <2>1. Grown(c, e.context)
    BY <1>3, <1>5, GrownOn
  <2>2. Grown(c, c) /\ Grown(e.context, e.context)
    BY <1>8, GrownSelf
  <2> QED BY <1>3, <1>5, <2>1, <2>2, ConditionsLast
<1> HIDE DEF W
<1>10. /\ Paired(action.precondition, p.result, Conditions, Formulas, W)
       /\ Paired(es(action.effect), es(e.result), Conditions, Formulas, W)
  BY <1>3, <1>5, <1>9, PairedOn
<1>14. Paired(ps(action.effect), ps(e.result), Places, Places, Twins(W))
  <2>1. Twins(Pairs(p.context, e.context)) \subseteq Twins(W)
    BY <1>9 DEF Twins
  <2> QED BY <1>5, <2>1, PairedOn
<1>15. Paired(ConditionsOf(action), ConditionsOf(d), Conditions, Formulas, W)
  BY <1>7, <1>10, PairedAppended
<1>11. ActionPaired(action, d, W)
  BY <1>6, <1>10, <1>13, <1>14, <1>15 DEF ActionPaired
<1> DEFINE r == normalizeAction(action, c)
<1>12. r.result = d /\ r.context = e.context
  BY <1>2
<1> HIDE DEF r
<1> QED BY <1>6, <1>9, <1>11, <1>12 DEF r, W

-----------------------------------------------------------------------------
(***************************************************************************)
(* Unfolding the declarations.                                             *)
(***************************************************************************)
\* The body of Unfolded; p is the state and the declarations.
UnfoldDef(p, g, i) ==
  IF i = Len(p[2]) + 1 THEN p[1] ELSE g[i + 1] \cup Extent(p[2][i], g[i + 1])
UnfoldR == INSTANCE Recursion WITH Def <- UnfoldDef

\* F[i] is I with the declarations from i on unfolded.
Steps(I, declared, F) ==
  /\ Unfolded(I, declared) = F[1] /\ F[Len(declared) + 1] = I
  /\ \A i \in 1 .. Len(declared) : F[i] = F[i + 1] \cup Extent(declared[i], F[i + 1])

\* The last declaration is unfolded first.
LEMMA UnfoldedAt ==
  ASSUME NEW I, NEW declared, Len(declared) \in Nat
  PROVE  \E F : Steps(I, declared, F)
<1> DEFINE n == Len(declared)
           D == 1 .. n + 1
           p == <<I, declared>>
           from == CHOOSE F : F = [i \in 1 .. n + 1 |->
                                     IF i = n + 1 THEN I
                                     ELSE F[i + 1] \cup Extent(declared[i], F[i + 1])]
           rank == [i \in D |-> n + 1 - i]
<1>1. n \in Nat /\ rank \in [D -> Nat] /\ p[1] = I /\ p[2] = declared /\ Len(p[2]) = n
  <2>1. \A i \in D : n + 1 - i \in Nat
    OBVIOUS
  <2> QED BY <2>1
<1>2. Unfolded(I, declared) = from[1]
  BY Zenon DEF Unfolded
<1> HIDE DEF p
<1>3. UnfoldR!Grounded(p, D, rank)
  <2> SUFFICES ASSUME NEW i \in D, NEW g, NEW h, \A j \in D : rank[j] < rank[i] => g[j] = h[j]
               PROVE  UnfoldDef(p, g, i) = UnfoldDef(p, h, i)
    BY DEF UnfoldR!Grounded
  <2>1. CASE i = n + 1
    BY <1>1, <2>1 DEF UnfoldDef
  <2>2. CASE i # n + 1
    <3>1. i + 1 \in D /\ rank[i + 1] < rank[i]
      BY <1>1, <2>2
    <3>2. g[i + 1] = h[i + 1]
      BY <3>1
    <3> QED BY <1>1, <2>2, <3>2 DEF UnfoldDef
  <2> QED BY <2>1, <2>2
<1>4. \E F : F = [i \in D |-> UnfoldDef(p, F, i)]
  <2> HIDE DEF n, rank, D
  <2> QED BY <1>1, <1>3, UnfoldR!RecursiveFunction, LeastNatural
<1>5. from = [i \in 1 .. n + 1 |-> IF i = n + 1 THEN I ELSE from[i + 1] \cup Extent(declared[i], from[i + 1])]
  <2>1. \A F : [i \in D |-> UnfoldDef(p, F, i)]
                 = [i \in 1 .. n + 1 |-> IF i = n + 1 THEN I ELSE F[i + 1] \cup Extent(declared[i], F[i + 1])]
    <3> TAKE F
    <3>1. \A i \in D : UnfoldDef(p, F, i) = IF i = n + 1 THEN I ELSE F[i + 1] \cup Extent(declared[i], F[i + 1])
      BY <1>1 DEF UnfoldDef
    <3> QED BY <3>1
  <2>2. \E F : F = [i \in 1 .. n + 1 |-> IF i = n + 1 THEN I ELSE F[i + 1] \cup Extent(declared[i], F[i + 1])]
    <3> DEFINE A(F) == [i \in D |-> UnfoldDef(p, F, i)]
               B(F) == [i \in 1 .. n + 1 |-> IF i = n + 1 THEN I ELSE F[i + 1] \cup Extent(declared[i], F[i + 1])]
    <3>1. (\E F : F = A(F)) /\ \A F : A(F) = B(F)
      BY <1>4, <2>1
    <3> HIDE DEF A, B
    <3>2. \E F : F = B(F)
      BY <3>1
    <3> QED BY <3>2 DEF B
  <2> HIDE DEF n
  <2> QED BY <2>2, Zenon
<1> HIDE DEF from
<1>6. from[n + 1] = I
  BY <1>1, <1>5
<1>7. \A i \in 1 .. n : from[i] = from[i + 1] \cup Extent(declared[i], from[i + 1])
  <2> TAKE i \in 1 .. n
  <2>1. i \in 1 .. n + 1 /\ i # n + 1
    BY <1>1
  <2> QED BY <1>5, <2>1
<1>8. Steps(I, declared, from)
  BY <1>2, <1>6, <1>7 DEF Steps
<1> QED BY <1>8

\* What Extent consists of.
LEMMA InExtent ==
  \A d, I, a : a \in Extent(d, I) <=>
    \E ps \in Tuples(d.parameters) :
      /\ a = <<"derived", d.name, ps>>
      /\ \E os \in Tuples(d.existentialParameters) :
           Bind(Bind(NoBinding, d.parameters, ps), d.existentialParameters, os) \in Models(I)[d.precondition]
BY DEF Extent, True

\* Declarations that are numbered through and refer to later ones only.
Layered(declared) ==
  /\ declared \in Seq(DerivedPredicates)
  /\ \A i \in 1 .. Len(declared) :
       /\ declared[i].name = i
       /\ \A l \in LeafSet(declared[i].precondition) : l.op = "derived" => l.name \in i + 1 .. Len(declared)

\* A state without derived predicates.
Ground2(I) == \A a \in I : Len(a) = 2

\* Unfolded, every declaration says what its body says, and atoms keep their truth.
LEMMA UnfoldedFulfils ==
  ASSUME NEW I, Ground2(I), NEW declared, Layered(declared)
  PROVE  LET J == Unfolded(I, declared)
         IN  /\ \A i \in 1 .. Len(declared) : Fulfils(J, declared[i])
             /\ \A p, ts : <<p, ts>> \in J <=> <<p, ts>> \in I
             /\ \A m \in Nat : \A ps : <<"derived", m, ps>> \in J =>
                  m \in 1 .. Len(declared) /\ ps \in Tuples(declared[m].parameters)
<1> DEFINE n == Len(declared)
           J == Unfolded(I, declared)
<1>1. /\ n \in Nat /\ \A i \in 1 .. n : declared[i] \in DerivedPredicates /\ declared[i].precondition \in Formulas
      /\ \A i \in 1 .. n :
           /\ declared[i].name = i
           /\ \A l \in LeafSet(declared[i].precondition) : l.op = "derived" => l.name \in i + 1 .. n
  <2>1. declared \in Seq(DerivedPredicates)
    BY DEF Layered
  <2>2. n \in Nat /\ \A i \in 1 .. n : declared[i] \in DerivedPredicates
    BY <2>1
  <2>3. \A d \in DerivedPredicates : d.precondition \in Formulas
    BY DEF DerivedPredicates
  <2> QED BY <2>2, <2>3 DEF Layered
<1>0. PICK F : Steps(I, declared, F)
  BY <1>1, UnfoldedAt
<1>2. /\ J = F[1] /\ F[n + 1] = I
      /\ \A i \in 1 .. n : F[i] = F[i + 1] \cup Extent(declared[i], F[i + 1])
  BY <1>0 DEF Steps
<1> HIDE DEF n, J
<1> DEFINE D == 1 .. n + 1
           Good(i) == /\ \A p, ts : <<p, ts>> \in F[i] <=> <<p, ts>> \in I
                      /\ \A m \in Nat : \A ps : <<"derived", m, ps>> \in F[i] <=>
                           m \in i .. n /\ <<"derived", m, ps>> \in Extent(declared[m], F[m + 1])
           S == {i \in D : Good(i)}
           rank == [i \in D |-> n + 1 - i]
<1>3. /\ \A d, K, p, ts : <<p, ts>> \notin Extent(d, K)
      /\ \A d, K, m, ps : <<"derived", m, ps>> \in Extent(d, K) => m = d.name
      /\ \A m, ps : <<"derived", m, ps>> \notin I
  <2>1. \A p, ts, d, ps : <<p, ts>> # <<"derived", d, ps>>
    OBVIOUS
  <2>2. ASSUME NEW d, NEW K, NEW p, NEW ts PROVE <<p, ts>> \notin Extent(d, K)
    BY <2>1, InExtent
  <2>3. ASSUME NEW d, NEW K, NEW m, NEW ps, <<"derived", m, ps>> \in Extent(d, K) PROVE m = d.name
    <3>1. PICK qs : <<"derived", m, ps>> = <<"derived", d.name, qs>>
      BY <2>3, InExtent
    <3> QED BY <3>1
  <2>4. \A m, ps : <<"derived", m, ps>> \notin I
    BY DEF Ground2
  <2> QED BY <2>2, <2>3, <2>4
<1>4. ASSUME NEW i \in D, \A j \in D : rank[j] < rank[i] => j \in S PROVE i \in S
  <2>1. CASE i = n + 1
    <3>1. F[i] = I /\ \A m \in Nat : m \notin i .. n
      BY <1>1, <1>2, <2>1
    <3> QED BY <1>3, <3>1
  <2>2. CASE i # n + 1
    <3>1. i + 1 \in D /\ rank[i + 1] < rank[i] /\ i \in 1 .. n
      BY <1>1, <2>2
    <3>2. Good(i + 1)
      BY <1>4, <3>1
    <3>3. F[i] = F[i + 1] \cup Extent(declared[i], F[i + 1]) /\ declared[i].name = i
      BY <1>1, <1>2, <3>1
    <3>4. \A m \in Nat : m \in i .. n <=> m = i \/ m \in i + 1 .. n
      BY <1>1, <3>1
    <3>5. i \notin i + 1 .. n
      BY <1>1, <3>1
    <3>6. \A p, ts : <<p, ts>> \in F[i] <=> <<p, ts>> \in I
      BY <1>3, <3>2, <3>3
    <3>7. ASSUME NEW m \in Nat, NEW ps
          PROVE  <<"derived", m, ps>> \in F[i] <=>
                   m \in i .. n /\ <<"derived", m, ps>> \in Extent(declared[m], F[m + 1])
      <4>1. <<"derived", m, ps>> \in F[i] <=>
              <<"derived", m, ps>> \in F[i + 1] \/ <<"derived", m, ps>> \in Extent(declared[i], F[i + 1])
        BY <3>3
      <4>2. <<"derived", m, ps>> \in F[i + 1] <=>
              m \in i + 1 .. n /\ <<"derived", m, ps>> \in Extent(declared[m], F[m + 1])
        BY <3>2
      <4>3. <<"derived", m, ps>> \in Extent(declared[i], F[i + 1]) => m = i
        BY <1>3, <3>3
      <4> QED BY <3>4, <3>5, <4>1, <4>2, <4>3
    <3> QED BY <3>6, <3>7
  <2> QED BY <2>1, <2>2
<1>5. D \subseteq S
  <2>1. rank \in [D -> Nat] /\ \A i \in D : (\A j \in D : rank[j] < rank[i] => j \in S) => i \in S
    <3>1. \A i \in D : n + 1 - i \in Nat
      BY <1>1
    <3> QED BY <1>4, <3>1
  <2> HIDE DEF D, S, rank
  <2> QED BY <2>1, RankInduction
<1>6. \A i \in D : Good(i)
  BY <1>5
<1> HIDE DEF D, S, rank
<1>7. 1 \in D /\ \A i \in 1 .. n : i \in D /\ i + 1 \in D /\ i \in Nat
  BY <1>1 DEF D
<1>8. ASSUME NEW i \in 1 .. n PROVE Models(F[i + 1])[declared[i].precondition] = Models(J)[declared[i].precondition]
  <2> DEFINE f == declared[i].precondition
             K == F[i + 1]
  <2>1. f \in Formulas /\ \A l \in LeafSet(f) : l.op = "derived" => l.name \in i + 1 .. n
    BY <1>1
  <2>2. Good(i + 1) /\ Good(1)
    BY <1>6, <1>7
  <2>3. ASSUME NEW l \in LeafSet(f), NEW env \in Environments
        PROVE  GroundLeaf(l, env) \in K <=> GroundLeaf(l, env) \in J
    <3>1. CASE l.op = "atom"
      <4>1. PICK p, ts : GroundLeaf(l, env) = <<p, ts>>
        BY <3>1 DEF GroundLeaf
      <4> QED BY <1>2, <2>2, <4>1
    <3>2. CASE l.op = "derived"
      <4>1. PICK ts : GroundLeaf(l, env) = <<"derived", l.name, ts>>
        BY <3>2 DEF GroundLeaf
      <4>2. l.name \in i + 1 .. n /\ l.name \in 1 .. n /\ l.name \in Nat
        BY <1>1, <2>1, <3>2
      <4> QED BY <1>2, <2>2, <4>1, <4>2
    <3>3. IsLeaf(l)
      BY DEF LeafSet
    <3> QED BY <3>1, <3>2, <3>3 DEF IsLeaf
  <2> HIDE DEF f, K
  <2>4. Models(K)[f] = Models(J)[f]
    BY <2>1, <2>3, LeavesDecide
  <2> QED BY <2>4 DEF f, K
<1>9. ASSUME NEW i \in 1 .. n PROVE Fulfils(J, declared[i])
  <2> DEFINE d == declared[i]
             M == Models(J)[d.precondition]
             B(ps, os) == Bind(Bind(NoBinding, d.parameters, ps), d.existentialParameters, os)
  <2> SUFFICES ASSUME NEW ps \in Tuples(d.parameters)
               PROVE  <<"derived", d.name, ps>> \in J <=> \E os \in Tuples(d.existentialParameters) : B(ps, os) \in M
    BY DEF Fulfils
  <2>1. d.name = i /\ i \in 1 .. n /\ i \in Nat /\ Good(1)
    BY <1>1, <1>6, <1>7
  <2>2. <<"derived", d.name, ps>> \in J <=> <<"derived", d.name, ps>> \in Extent(d, F[i + 1])
    BY <1>2, <2>1
  <2>3. Models(F[i + 1])[d.precondition] = M
    BY <1>8
  <2> HIDE DEF M
  <2>4. <<"derived", d.name, ps>> \in Extent(d, F[i + 1]) <=>
          \E qs \in Tuples(d.parameters) :
            /\ <<"derived", d.name, ps>> = <<"derived", d.name, qs>>
            /\ \E os \in Tuples(d.existentialParameters) : B(qs, os) \in M
    <3>1. \A a : a \in Extent(d, F[i + 1]) <=>
            \E qs \in Tuples(d.parameters) :
              /\ a = <<"derived", d.name, qs>>
              /\ \E os \in Tuples(d.existentialParameters) : B(qs, os) \in Models(F[i + 1])[d.precondition]
      BY InExtent
    <3> HIDE DEF d, B
    <3> QED BY <2>3, <3>1
  <2>5. \A qs : <<"derived", d.name, ps>> = <<"derived", d.name, qs>> => qs = ps
    OBVIOUS
  <2> HIDE DEF B, d
  <2> QED BY <2>2, <2>4, <2>5
<1>10. \A p, ts : <<p, ts>> \in J <=> <<p, ts>> \in I
  BY <1>2, <1>6, <1>7
<1>11. ASSUME NEW m \in Nat, NEW ps, <<"derived", m, ps>> \in J
       PROVE  m \in 1 .. n /\ ps \in Tuples(declared[m].parameters)
  <2>1. m \in 1 .. n /\ <<"derived", m, ps>> \in Extent(declared[m], F[m + 1])
    BY <1>2, <1>6, <1>7, <1>11
  <2>2. \E qs \in Tuples(declared[m].parameters) : <<"derived", m, ps>> = <<"derived", declared[m].name, qs>>
    BY <2>1, InExtent
  <2> QED BY <2>1, <2>2
<1> QED BY <1>9, <1>10, <1>11 DEF n, J

-----------------------------------------------------------------------------
(***************************************************************************)
(* The inductive invariant.                                                *)
(***************************************************************************)
\* The contexts of the domain and of the problem, as they began and as they are.
DomainStart    == Context(1, <<>>)
DomainContext  == Context(1, domain.derivedPredicates)
ProblemStart   == Context(FirstProblemNumber, <<>>)
ProblemContext == Context(FirstProblemNumber, problem.derivedPredicates)

\* Both contexts grew from their start; every action and the goal that were
\* normalized are paired, condition by condition, with what they became.
Described ==
  /\ actions \in Seq(Actions) /\ domain.actions \in Seq(NormalizedActions)
  /\ Len(domain.actions) <= Len(actions)
  /\ Grown(DomainStart, DomainContext) /\ Grown(ProblemStart, ProblemContext)
  /\ \A i \in 1 .. Len(domain.actions) :
       ActionPaired(actions[i], domain.actions[i], Pairs(DomainStart, DomainContext))
  /\ \/ problem.goal = <<>>
     \/ Paired(goal, problem.goal, Conditions, Formulas, Pairs(ProblemStart, ProblemContext))

\* So it is at every stage, and no problem is there before the goal was normalized.
IInv ==
  /\ stage \in {"domain", "done", "failed"}
  /\ Described
  /\ stage = "domain" => Len(domain.actions) = Len(actions)
  /\ stage # "done" => problem = [goal |-> <<>>, derivedPredicates |-> <<>>]

\* A context without declarations, and one taken apart.
LEMMA ContextOf ==
  /\ \A n \in Nat : Context(n, <<>>) \in Contexts /\ Grown(Context(n, <<>>), Context(n, <<>>))
  /\ \A c \in Contexts : c = Context(c.start, c.derivedPredicates)
  /\ \A n, s : Context(n, s).start = n /\ Context(n, s).derivedPredicates = s
  /\ \A n, s : Context(n, s) \in Contexts => s \in Seq(DerivedPredicates) /\ n \in Nat
<1>1. \A n \in Nat : Context(n, <<>>) \in Contexts
  BY DEF Context, Contexts
<1>2. \A c \in Contexts : c = Context(c.start, c.derivedPredicates)
  BY DEF Context, Contexts
<1>3. \A n, s : Context(n, s).start = n /\ Context(n, s).derivedPredicates = s
  BY DEF Context
<1> QED BY <1>1, <1>2, <1>3, GrownSelf DEF Contexts

\* Nothing is declared at the start.
LEMMA InitHolds == Init => IInv
<1> SUFFICES ASSUME Init PROVE IInv
  OBVIOUS
<1>1. /\ stage = "domain" /\ actions = <<>> /\ domain.actions = <<>> /\ domain.derivedPredicates = <<>>
      /\ problem = [goal |-> <<>>, derivedPredicates |-> <<>>] /\ problem.derivedPredicates = <<>>
  BY DEF Init
<1>2. FirstProblemNumber = 1
  BY <1>1 DEF FirstProblemNumber
<1>3. Grown(DomainStart, DomainContext) /\ Grown(ProblemStart, ProblemContext)
  BY <1>1, <1>2, ContextOf DEF DomainStart, DomainContext, ProblemStart, ProblemContext
<1>4. actions \in Seq(Actions) /\ domain.actions \in Seq(NormalizedActions) /\ Len(domain.actions) = 0 /\ Len(actions) = 0
  BY <1>1
<1> QED BY <1>1, <1>3, <1>4 DEF IInv, Described

\* A further action only adds declarations, after which the pairs are still paired.
LEMMA ActionKeeps ==
  ASSUME IInv, NEW action \in Actions, NormalizeAction(action)
  PROVE  IInv'
<1>1. /\ stage = "domain" /\ actions' = Append(actions, action) /\ goal' = goal
      /\ problem = [goal |-> <<>>, derivedPredicates |-> <<>>] /\ problem' = problem
      /\ problem'.derivedPredicates = <<>>
  BY DEF NormalizeAction, Throw, IInv, Described
<1>2. /\ actions \in Seq(Actions) /\ domain.actions \in Seq(NormalizedActions)
      /\ Len(domain.actions) = Len(actions) /\ Grown(DomainStart, DomainContext) /\ Grown(ProblemStart, ProblemContext)
      /\ \A i \in 1 .. Len(domain.actions) :
           ActionPaired(actions[i], domain.actions[i], Pairs(DomainStart, DomainContext))
  BY <1>1 DEF IInv, Described
<1> DEFINE n == Len(actions)
<1>3. /\ actions' \in Seq(Actions) /\ Len(actions') = n + 1 /\ n \in Nat
      /\ \A i \in 1 .. n : actions'[i] = actions[i]
      /\ actions'[n + 1] = action
  BY <1>1, <1>2
<1>4. CASE Unsupported(ConditionsOf(action), action.effect)
  <2>1. stage' = "failed" /\ domain' = domain
    BY <1>4 DEF NormalizeAction, Throw
  <2>2. /\ DomainStart' = DomainStart /\ DomainContext' = DomainContext
        /\ ProblemStart' = ProblemStart /\ ProblemContext' = ProblemContext
    BY <1>1, <2>1 DEF DomainStart, DomainContext, ProblemStart, ProblemContext, FirstProblemNumber
  <2>3. domain'.actions = domain.actions /\ Len(domain'.actions) = n
    BY <1>2, <2>1
  <2> HIDE DEF n
  <2>4. /\ Grown(DomainStart', DomainContext') /\ Grown(ProblemStart', ProblemContext')
        /\ \A i \in 1 .. n :
             ActionPaired(actions'[i], domain'.actions[i], Pairs(DomainStart', DomainContext'))
    BY <1>2, <1>3, <2>2, <2>3 DEF n
  <2>5. n <= Len(actions')
    BY <1>3
  <2> QED BY <1>1, <1>2, <1>3, <2>1, <2>3, <2>4, <2>5 DEF IInv, Described
<1>5. CASE ~Unsupported(ConditionsOf(action), action.effect)
  <2> DEFINE r == normalizeAction(action, DomainContext)
             x == r.result
             d == r.context
  <2>1. /\ stage' = stage
        /\ domain' = [actions |-> Append(domain.actions, x), derivedPredicates |-> d.derivedPredicates]
    BY <1>5, Zenon DEF NormalizeAction, DomainContext
  <2>2. DomainContext \in Contexts /\ DomainContext.start = 1
    BY <1>2 DEF Grown, DomainContext, Context
  <2>3. /\ x \in NormalizedActions /\ Grown(DomainContext, d)
        /\ ActionPaired(action, x, Pairs(DomainContext, d))
    BY <2>2, ActionSound
  <2> HIDE DEF r, x, d
  <2>4. d \in Contexts /\ d.start = 1
    BY <2>2, <2>3 DEF Grown
  <2>5. /\ domain'.actions \in Seq(NormalizedActions) /\ Len(domain'.actions) = n + 1
        /\ \A i \in 1 .. n : domain'.actions[i] = domain.actions[i]
        /\ domain'.actions[n + 1] = x /\ domain'.derivedPredicates = d.derivedPredicates
    <3>1. domain'.actions = Append(domain.actions, x) /\ domain'.derivedPredicates = d.derivedPredicates
      BY <2>1
    <3> QED BY <1>2, <2>3, <3>1
  <2>6. DomainStart' = DomainStart /\ DomainContext' = d
    BY <2>4, <2>5, ContextOf DEF DomainStart, DomainContext
  <2>7. Grown(ProblemStart', ProblemContext')
    <3>1. FirstProblemNumber' \in Nat
      BY <2>4, <2>5, ContextParts DEF FirstProblemNumber
    <3>2. ProblemStart' = Context(FirstProblemNumber', <<>>) /\ ProblemContext' = Context(FirstProblemNumber', <<>>)
      BY <1>1 DEF ProblemStart, ProblemContext
    <3> QED BY <3>1, <3>2, ContextOf
  <2>8. /\ Grown(DomainStart, d) /\ Pairs(DomainStart, DomainContext) \subseteq Pairs(DomainStart, d)
        /\ Pairs(DomainContext, d) \subseteq Pairs(DomainStart, d)
    <3>1. Grown(DomainStart, d) /\ Grown(DomainStart, DomainStart) /\ Grown(d, d)
      BY <1>2, <2>3, <2>4, ContextOf, GrownOn, GrownSelf DEF DomainStart
    <3> QED BY <1>2, <2>3, <3>1, ConditionsLast
  <2> HIDE DEF n
  <2>9. ASSUME NEW i \in 1 .. n + 1
        PROVE  ActionPaired(actions'[i], domain'.actions[i], Pairs(DomainStart, d))
    <3>1. CASE i = n + 1
      <4>1. actions'[i] = action /\ domain'.actions[i] = x
        BY <1>3, <2>5, <3>1
      <4> QED BY <2>3, <2>8, <4>1, ActionPairedOn
    <3>2. CASE i # n + 1
      <4>1. i \in 1 .. n
        BY <1>3, <3>2
      <4>2. actions'[i] = actions[i] /\ domain'.actions[i] = domain.actions[i]
        BY <1>3, <2>5, <4>1
      <4>3. ActionPaired(actions[i], domain.actions[i], Pairs(DomainStart, DomainContext))
        BY <1>2, <4>1 DEF n
      <4> QED BY <2>8, <4>2, <4>3, ActionPairedOn
    <3> QED BY <3>1, <3>2
  <2>10. n + 1 <= n + 1
    BY <1>3
  <2> QED BY <1>1, <1>3, <2>1, <2>5, <2>6, <2>7, <2>8, <2>9, <2>10 DEF IInv, Described
<1> QED BY <1>4, <1>5

\* The goal's declarations follow on the domain's, which stay.
LEMMA ProblemKeeps ==
  ASSUME IInv, NEW g \in Goals, NormalizeProblem(g)
  PROVE  IInv'
<1>1. /\ stage = "domain" /\ actions' = actions /\ goal' = g /\ domain' = domain
      /\ problem = [goal |-> <<>>, derivedPredicates |-> <<>>]
  BY DEF NormalizeProblem, Throw, IInv, Described
<1>2. /\ actions \in Seq(Actions) /\ domain.actions \in Seq(NormalizedActions)
      /\ Len(domain.actions) = Len(actions) /\ Grown(DomainStart, DomainContext) /\ Grown(ProblemStart, ProblemContext)
      /\ \A i \in 1 .. Len(domain.actions) :
           ActionPaired(actions[i], domain.actions[i], Pairs(DomainStart, DomainContext))
  BY <1>1 DEF IInv, Described
<1>3. /\ DomainStart' = DomainStart /\ DomainContext' = DomainContext /\ ProblemStart' = ProblemStart
      /\ FirstProblemNumber' = FirstProblemNumber /\ Len(domain'.actions) <= Len(actions')
      /\ domain'.actions = domain.actions
  BY <1>1, <1>2 DEF DomainStart, DomainContext, ProblemStart, FirstProblemNumber
<1>4. CASE Unsupported(g, <<>>)
  <2>1. stage' = "failed" /\ problem' = problem
    BY <1>4 DEF NormalizeProblem, Throw
  <2>2. ProblemContext' = ProblemContext
    BY <1>3, <2>1 DEF ProblemContext
  <2> QED BY <1>1, <1>2, <1>3, <2>1, <2>2 DEF IInv, Described
<1>5. CASE ~Unsupported(g, <<>>)
  <2> DEFINE r == NormalizeEach(Apply(normalize, g), ProblemStart)
             d == r.context
  <2>1. stage' = "done" /\ problem' = [goal |-> r.result, derivedPredicates |-> d.derivedPredicates]
    BY <1>5, Zenon DEF NormalizeProblem, ProblemStart
  <2>2. g \in Seq(Conditions) /\ ProblemStart \in Contexts /\ ProblemStart.start = FirstProblemNumber
    BY <1>2, InputAssumption DEF Grown, ProblemStart, Context
  <2>3. /\ r \in [result : Seq(Formulas), context : Contexts] /\ Grown(ProblemStart, d)
        /\ Paired(g, r.result, Conditions, Formulas, Pairs(ProblemStart, d))
    BY <2>2, ListSound
  <2> HIDE DEF r
  <2>4. d \in Contexts /\ d.start = FirstProblemNumber
    BY <2>2, <2>3 DEF Grown
  <2> HIDE DEF d
  <2>5. problem'.goal = r.result /\ ProblemContext' = d
    BY <1>3, <2>1, <2>4, ContextOf DEF ProblemContext
  <2> QED BY <1>1, <1>2, <1>3, <2>1, <2>3, <2>5 DEF IInv, Described
<1> QED BY <1>4, <1>5

\* The invariant is inductive.
LEMMA StepKeeps == IInv /\ [Next]_vars => IInv'
<1> SUFFICES ASSUME IInv, [Next]_vars PROVE IInv'
  OBVIOUS
<1>1. ASSUME NEW action \in Actions, NormalizeAction(action) PROVE IInv'
  BY <1>1, ActionKeeps
<1>2. ASSUME NEW g \in Goals, NormalizeProblem(g) PROVE IInv'
  BY <1>2, ProblemKeeps
<1>3. CASE UNCHANGED vars
  BY <1>3 DEF IInv, Described, vars, DomainStart, DomainContext, ProblemStart, ProblemContext, FirstProblemNumber
<1> QED BY <1>1, <1>2, <1>3 DEF Next

\* The invariant holds throughout.
LEMMA InvariantHolds == Spec => []IInv
BY InitHolds, StepKeeps, PTL DEF Spec

-----------------------------------------------------------------------------
(***************************************************************************)
(* The theorems.                                                           *)
(***************************************************************************)
\* Both lists in one: numbered through, each declaration proper.
LEMMA AllDeclared ==
  ASSUME Described
  PROVE  LET D == domain.derivedPredicates
             P == problem.derivedPredicates
             n == Len(D)
             m == Len(P)
         IN  /\ n \in Nat /\ m \in Nat /\ DOMAIN D = 1 .. n /\ DOMAIN P = 1 .. m
             /\ Declared \in Seq(DerivedPredicates) /\ Len(Declared) = n + m /\ DOMAIN Declared = 1 .. n + m
             /\ \A i \in 1 .. n : Declared[i] = D[i] /\ D[i].name = i /\ Proper(D[i], n)
             /\ \A j \in 1 .. m : Declared[n + j] = P[j] /\ P[j].name = n + j /\ Proper(P[j], n + m)
             /\ \A i \in DOMAIN Declared : Declared[i].name = i /\ Proper(Declared[i], n + m)
<1> DEFINE D == domain.derivedPredicates
           P == problem.derivedPredicates
           n == Len(D)
           m == Len(P)
<1>1. /\ Grown(DomainStart, DomainContext) /\ Grown(ProblemStart, ProblemContext)
      /\ DomainContext \in Contexts /\ ProblemContext \in Contexts
      /\ FirstProblemNumber = n + 1
  BY DEF Described, Grown, FirstProblemNumber
<1>2. /\ D \in Seq(DerivedPredicates) /\ P \in Seq(DerivedPredicates)
      /\ n \in Nat /\ m \in Nat /\ DOMAIN D = 1 .. n /\ DOMAIN P = 1 .. m
  <2>1. D \in Seq(DerivedPredicates) /\ P \in Seq(DerivedPredicates)
    BY <1>1, ContextOf DEF DomainContext, ProblemContext
  <2> QED BY <2>1
<1>3. LastNumber(DomainContext) = n /\ LastNumber(ProblemContext) = n + m
  <2>1. LastNumber(DomainContext) = 1 + n - 1 /\ LastNumber(ProblemContext) = n + 1 + m - 1
    BY <1>1, ContextOf DEF LastNumber, DomainContext, ProblemContext
  <2> HIDE DEF n, m
  <2> QED BY <1>2, <2>1
<1>0. ASSUME NEW c, NEW d, Grown(c, d), c.derivedPredicates = <<>>, NEW s, s = d.derivedPredicates
      PROVE  \A i \in 1 .. Len(s) : s[i].name = d.start + i - 1 /\ Proper(s[i], LastNumber(d))
  BY <1>0 DEF Grown
<1>4. \A i \in 1 .. n : D[i].name = i /\ Proper(D[i], n)
  <2>1. /\ DomainStart.derivedPredicates = <<>> /\ DomainContext.derivedPredicates = D /\ DomainContext.start = 1
    BY ContextOf DEF DomainStart, DomainContext
  <2>2. \A i \in 1 .. n : D[i].name = 1 + i - 1 /\ Proper(D[i], LastNumber(DomainContext))
    BY <1>0, <1>1, <2>1
  <2> HIDE DEF n, D
  <2> QED BY <1>2, <1>3, <2>2
<1>5. \A j \in 1 .. m : P[j].name = n + j /\ Proper(P[j], n + m)
  <2>1. /\ ProblemStart.derivedPredicates = <<>> /\ ProblemContext.derivedPredicates = P
        /\ ProblemContext.start = n + 1
    BY <1>1, ContextOf DEF ProblemStart, ProblemContext
  <2>2. \A j \in 1 .. m : P[j].name = n + 1 + j - 1 /\ Proper(P[j], LastNumber(ProblemContext))
    BY <1>0, <1>1, <2>1
  <2> HIDE DEF n, m, P
  <2> QED BY <1>2, <1>3, <2>2
<1>6. /\ Declared \in Seq(DerivedPredicates) /\ Len(Declared) = n + m /\ DOMAIN Declared = 1 .. n + m
      /\ \A i \in 1 .. n + m : Declared[i] = IF i <= n THEN D[i] ELSE P[i - n]
  <2>1. /\ D \o P \in Seq(DerivedPredicates) /\ Len(D \o P) = Len(D) + Len(P)
        /\ \A j \in 1 .. Len(D) + Len(P) : (D \o P)[j] = IF j <= Len(D) THEN D[j] ELSE P[j - Len(D)]
    BY <1>2, Appended
  <2> DEFINE S == D \o P
  <2>2. Declared = S
    BY DEF Declared
  <2>3. /\ S \in Seq(DerivedPredicates) /\ Len(S) = n + m
        /\ \A i \in 1 .. n + m : S[i] = IF i <= n THEN D[i] ELSE P[i - n]
    BY <2>1
  <2> HIDE DEF S, n, m, D, P
  <2> QED BY <2>2, <2>3
<1> HIDE DEF D, P, n, m
<1>7. \A i \in 1 .. n : Declared[i] = D[i]
  BY <1>2, <1>6
<1>8. \A j \in 1 .. m : Declared[n + j] = P[j]
  <2> TAKE j \in 1 .. m
  <2> DEFINE i == n + j
  <2>1. i \in 1 .. n + m /\ ~(i <= n) /\ i - n = j
    BY <1>2
  <2> HIDE DEF i
  <2>2. Declared[i] = P[j]
    BY <1>6, <2>1
  <2> QED BY <2>2 DEF i
<1>9. \A i \in 1 .. n + m : i \in 1 .. n \/ \E j \in 1 .. m : i = n + j
  <2> TAKE i \in 1 .. n + m
  <2>1. i \in 1 .. n \/ (i - n \in 1 .. m /\ i = n + (i - n))
    BY <1>2
  <2> QED BY <2>1
<1>10. \A i \in 1 .. n + m : Declared[i].name = i /\ Proper(Declared[i], n + m)
  <2> TAKE i \in 1 .. n + m
  <2>1. CASE i \in 1 .. n
    <3>1. n \in Int /\ n + m \in Int /\ n <= n + m /\ D[i] \in DerivedPredicates
      BY <1>2, <2>1
    <3>2. Proper(D[i], n + m)
      BY <1>4, <2>1, <3>1, ProperGrows
    <3> QED BY <1>4, <1>7, <2>1, <3>2
  <2>2. CASE i \notin 1 .. n
    BY <1>5, <1>8, <1>9, <2>2
  <2> QED BY <2>1, <2>2
<1> QED BY <1>2, <1>4, <1>5, <1>6, <1>7, <1>8, <1>10 DEF D, P, n, m

\* Derived predicates are numbered 1, 2, ... through domain and problem, though
\* each numbers its own (Precondition.cpp, lines 42-61, Problem.cpp, line 30).
THEOREM NumbersFollow == Spec => []NamesConsecutive
<1>1. IInv => NamesConsecutive
  BY AllDeclared DEF NamesConsecutive, IInv
<1> QED BY <1>1, InvariantHolds, PTL

\* No variable of a body but its parameters and the ones it quantifies over
\* (CollectFreeVariables.h): the printed rules are safe.
THEOREM BodiesAreClosed == Spec => []BodiesClosed
<1>1. IInv => BodiesClosed
  BY AllDeclared DEF BodiesClosed, Proper, IInv
<1> QED BY <1>1, InvariantHolds, PTL

\* The conditions of actions and goals, all flat and with names declared.
LEMMA NormalizedConditions ==
  ASSUME Described
  PROVE  LET n == Len(domain.derivedPredicates)
             m == Len(problem.derivedPredicates)
         IN  /\ \A i \in DOMAIN domain.actions :
                  ActionPaired(actions[i], domain.actions[i], Pairs(DomainStart, DomainContext))
             /\ \/ problem.goal = <<>>
                \/ Paired(goal, problem.goal, Conditions, Formulas, Pairs(ProblemStart, ProblemContext))
             /\ LastNumber(DomainStart) + 1 = 1 /\ LastNumber(DomainContext) = n
             /\ LastNumber(ProblemStart) + 1 = n + 1 /\ LastNumber(ProblemContext) = n + m
<1> DEFINE D == domain.derivedPredicates
           P == problem.derivedPredicates
           n == Len(D)
           m == Len(P)
<1>1. n \in Nat /\ m \in Nat /\ FirstProblemNumber = n + 1
  BY AllDeclared DEF FirstProblemNumber
<1>2. /\ DomainStart.start = 1 /\ DomainStart.derivedPredicates = <<>>
      /\ DomainContext.start = 1 /\ DomainContext.derivedPredicates = D
      /\ ProblemStart.start = n + 1 /\ ProblemStart.derivedPredicates = <<>>
      /\ ProblemContext.start = n + 1 /\ ProblemContext.derivedPredicates = P
  BY <1>1, ContextOf DEF DomainStart, DomainContext, ProblemStart, ProblemContext
<1>3. DOMAIN domain.actions = 1 .. Len(domain.actions)
  BY DEF Described
<1>4. problem.goal = <<>> \/ Paired(goal, problem.goal, Conditions, Formulas, Pairs(ProblemStart, ProblemContext))
  BY DEF Described
<1>5. /\ LastNumber(DomainStart) = 1 + 0 - 1 /\ LastNumber(DomainContext) = 1 + n - 1
      /\ LastNumber(ProblemStart) = n + 1 + 0 - 1 /\ LastNumber(ProblemContext) = n + 1 + m - 1
  BY <1>2 DEF LastNumber
<1>6. \A i \in DOMAIN domain.actions :
        ActionPaired(actions[i], domain.actions[i], Pairs(DomainStart, DomainContext))
  BY <1>3 DEF Described
<1> HIDE DEF n, m
<1>7. /\ LastNumber(DomainStart) + 1 = 1 /\ LastNumber(DomainContext) = n
      /\ LastNumber(ProblemStart) + 1 = n + 1 /\ LastNumber(ProblemContext) = n + m
  BY <1>1, <1>5
<1> QED BY <1>4, <1>6, <1>7 DEF n, m

\* What is paired with a condition is a translation of it.
LEMMA PairedTranslated ==
  ASSUME NEW s, NEW t, NEW c, NEW d, Paired(s, t, Conditions, Formulas, Pairs(c, d))
  PROVE  /\ DOMAIN s = DOMAIN t
         /\ \A j \in DOMAIN t : s[j] \in Conditions /\ t[j] \in Formulas /\ Translated(s[j], t[j], c, d)
         /\ \A g \in Range(t) : \E f \in Conditions : g \in Formulas /\ Translated(f, g, c, d)
<1> DEFINE n == Len(t)
<1>1. DOMAIN s = 1 .. n /\ DOMAIN t = 1 .. n /\ \A j \in 1 .. n : <<s[j], t[j]>> \in Pairs(c, d)
  BY DEF Paired
<1>2. \A j \in DOMAIN t : s[j] \in Conditions /\ t[j] \in Formulas /\ Translated(s[j], t[j], c, d)
  BY <1>1, InConditions
<1>3. \A g \in Range(t) : \E j \in DOMAIN t : g = t[j]
  BY DEF Range
<1> QED BY <1>1, <1>2, <1>3

\* The translator finds only conditions it can print: literals, an "and" of
\* literals, in a derived predicate also an "or" of them
\* (TranslatorASP.cpp throws at anything else).
THEOREM TypeCorrect == Spec => []TypeOK
<1>1. IInv => TypeOK
  <2> SUFFICES ASSUME IInv, Described PROVE TypeOK
    BY DEF IInv
  <2>1. \A i \in DOMAIN domain.actions : \A f \in Range(ConditionsOf(domain.actions[i])) : IsFlat(f, {"and"})
    BY NormalizedConditions, PairedTranslated DEF Translated, ActionPaired
  <2>2. \A j \in DOMAIN problem.goal : IsFlat(problem.goal[j], {"and"})
    <3>1. CASE problem.goal = <<>>
      BY <3>1
    <3>2. CASE problem.goal # <<>>
      BY <3>2, NormalizedConditions, PairedTranslated DEF Translated
    <3> QED BY <3>1, <3>2
  <2>3. \A i \in DOMAIN Declared : /\ IsFlat(Declared[i].precondition, {"and", "or"})
                                   /\ IsInjective(Declared[i].parameters \o Declared[i].existentialParameters)
    <3>1. \A d, hi : Proper(d, hi) => /\ IsFlat(d.precondition, {"and", "or"})
                                      /\ IsInjective(d.parameters \o d.existentialParameters)
      BY DEF Proper
    <3>2. \A i \in DOMAIN Declared : \E hi : Proper(Declared[i], hi)
      BY AllDeclared
    <3> QED BY <3>1, <3>2
  <2>4. stage \in {"domain", "done", "failed"}
    BY DEF IInv
  <2> QED BY <2>1, <2>2, <2>3, <2>4 DEF TypeOK
<1> QED BY <1>1, InvariantHolds, PTL

\* A body refers to declarations after its own in the same list, a condition of
\* the domain to the domain's, a goal to the problem's: no reference leads back.
THEOREM NoReferenceLeadsBack == Spec => []ReferencesAscend
<1>1. IInv => ReferencesAscend
  <2> SUFFICES ASSUME IInv, Described PROVE ReferencesAscend
    BY DEF IInv
  <2> DEFINE D == domain.derivedPredicates
             P == problem.derivedPredicates
             n == Len(D)
             m == Len(P)
             Ascends(declared) == \A i \in DOMAIN declared :
               References(declared[i].precondition) \subseteq {declared[j].name : j \in (i + 1) .. Len(declared)}
  <2>1. /\ n \in Nat /\ m \in Nat /\ DOMAIN D = 1 .. n /\ DOMAIN P = 1 .. m
        /\ \A i \in 1 .. n : D[i].name = i /\ Proper(D[i], n)
        /\ \A j \in 1 .. m : P[j].name = n + j /\ Proper(P[j], n + m)
    BY AllDeclared
  <2>2. /\ \A f : \A k \in References(f) : \E l \in LeafSet(f) : l.op = "derived" /\ k = l.name
        /\ \A d, hi : Proper(d, hi) => \A k \in References(d.precondition) : k \in d.name + 1 .. hi
    BY DEF References, Proper
  <2> HIDE DEF n, m, D, P
  <2>3. Ascends(D)
    <3> SUFFICES ASSUME NEW i \in 1 .. n, NEW k \in References(D[i].precondition)
                 PROVE  \E j \in i + 1 .. n : k = D[j].name
      BY <2>1 DEF n
    <3>1. k \in i + 1 .. n
      BY <2>1, <2>2
    <3>2. k \in 1 .. n
      BY <2>1, <3>1
    <3> QED BY <2>1, <3>1, <3>2
  <2>4. Ascends(P)
    <3> SUFFICES ASSUME NEW i \in 1 .. m, NEW k \in References(P[i].precondition)
                 PROVE  \E j \in i + 1 .. m : k = P[j].name
      BY <2>1 DEF m
    <3>1. k \in n + i + 1 .. n + m
      BY <2>1, <2>2
    <3>2. k - n \in i + 1 .. m /\ k - n \in 1 .. m /\ k = n + (k - n)
      BY <2>1, <3>1
    <3> QED BY <2>1, <3>2
  <2>5. /\ \A k \in 1 .. n : k \in Names(D)
        /\ \A k \in n + 1 .. n + m : k \in Names(P)
    <3>1. \A k \in 1 .. n : k \in Names(D)
      BY <2>1 DEF Names
    <3>2. ASSUME NEW k \in n + 1 .. n + m PROVE k \in Names(P)
      <4>1. k - n \in 1 .. m /\ k = n + (k - n)
        BY <2>1
      <4>2. P[k - n].name = k
        BY <2>1, <4>1
      <4> QED BY <2>1, <4>1, <4>2 DEF Names
    <3> QED BY <3>1, <3>2
  <2>6. \A i \in DOMAIN domain.actions : \A f \in Range(ConditionsOf(domain.actions[i])) : References(f) \subseteq Names(D)
    <3> TAKE i \in DOMAIN domain.actions
    <3> TAKE g \in Range(ConditionsOf(domain.actions[i]))
    <3>1. PICK f \in Conditions : Translated(f, g, DomainStart, DomainContext)
      BY NormalizedConditions, PairedTranslated DEF ActionPaired
    <3>2. \A k \in References(g) : k \in 1 .. n
      BY <2>2, <3>1, NormalizedConditions DEF Translated, n, D
    <3> QED BY <2>5, <3>2
  <2>7. \A j \in DOMAIN problem.goal : References(problem.goal[j]) \subseteq Names(P)
    <3>1. CASE problem.goal = <<>>
      BY <3>1
    <3>2. CASE problem.goal # <<>>
      <4> TAKE j \in DOMAIN problem.goal
      <4>1. Translated(goal[j], problem.goal[j], ProblemStart, ProblemContext)
        BY <3>2, NormalizedConditions, PairedTranslated
      <4>2. LastNumber(ProblemStart) + 1 = n + 1 /\ LastNumber(ProblemContext) = n + m
        BY NormalizedConditions DEF n, m, D, P
      <4>3. \A k \in References(problem.goal[j]) : k \in n + 1 .. n + m
        BY <2>2, <4>1, <4>2 DEF Translated
      <4> QED BY <2>5, <4>3
    <3> QED BY <3>1, <3>2
  <2> QED BY <2>3, <2>4, <2>6, <2>7 DEF ReferencesAscend, D, P
<1> QED BY <1>1, InvariantHolds, PTL

\* A condition that is normalized means what it meant, once all derived predicates
\* are unfolded, in every state and however its action's parameters are chosen.
LEMMA TranslationKeeps ==
  ASSUME Described, NEW I, Ground2(I), NEW f \in Conditions, NEW g \in Formulas,
         \/ Translated(f, g, DomainStart, DomainContext)
         \/ Translated(f, g, ProblemStart, ProblemContext)
  PROVE  Models(Unfolded(I, Declared))[g] = Models(I)[f]
<1> DEFINE D == domain.derivedPredicates
           P == problem.derivedPredicates
           n == Len(D)
           m == Len(P)
           J == Unfolded(I, Declared)
<1>1. /\ n \in Nat /\ m \in Nat /\ Declared \in Seq(DerivedPredicates) /\ Len(Declared) = n + m
      /\ \A i \in 1 .. n : Declared[i] = D[i] /\ D[i].name = i /\ Proper(D[i], n)
      /\ \A j \in 1 .. m : Declared[n + j] = P[j] /\ P[j].name = n + j /\ Proper(P[j], n + m)
      /\ \A i \in 1 .. n + m : Declared[i].name = i /\ Proper(Declared[i], n + m)
  BY AllDeclared
<1>2. /\ DomainStart.derivedPredicates = <<>> /\ DomainContext.derivedPredicates = D
      /\ ProblemStart.derivedPredicates = <<>> /\ ProblemContext.derivedPredicates = P
  BY ContextOf DEF DomainStart, DomainContext, ProblemStart, ProblemContext
<1> HIDE DEF J
<1>4. Layered(Declared)
  BY <1>1 DEF Layered, Proper
<1>5. /\ \A i \in 1 .. n + m : Fulfils(J, Declared[i])
      /\ \A p, ts : <<p, ts>> \in J <=> <<p, ts>> \in I
  BY <1>1, <1>4, UnfoldedFulfils DEF J
<1>6. /\ Len(DomainStart.derivedPredicates) = 0 /\ Len(DomainContext.derivedPredicates) = n
      /\ Len(ProblemStart.derivedPredicates) = 0 /\ Len(ProblemContext.derivedPredicates) = m
  BY <1>2
<1> HIDE DEF n, m, D, P
<1>7. FulfilsNew(J, DomainStart, DomainContext)
  <2>1. \A i \in 1 .. n : i \in 1 .. n + m
    BY <1>1
  <2>2. \A i \in 0 + 1 .. n : Fulfils(J, D[i])
    BY <1>1, <1>5, <2>1
  <2> QED BY <1>2, <1>6, <2>2 DEF FulfilsNew
<1>8. FulfilsNew(J, ProblemStart, ProblemContext)
  <2>1. \A j \in 1 .. m : n + j \in 1 .. n + m
    BY <1>1
  <2>2. \A j \in 0 + 1 .. m : Fulfils(J, P[j])
    BY <1>1, <1>5, <2>1
  <2> QED BY <1>2, <1>6, <2>2 DEF FulfilsNew
<1>9. Models(J)[g] = Models(J)[f]
  BY <1>7, <1>8 DEF Translated
<1>10. f \in Formulas /\ \A l \in LeafSet(f) : l.op = "atom"
  <2>1. f \in Formulas
    BY SourceConditions
  <2>2. \A l \in LeafSet(f) : l \in Subformulas[f] /\ IsLeaf(l)
    BY DEF LeafSet
  <2> QED BY <2>1, <2>2 DEF Conditions, IsLeaf
<1>11. Models(J)[f] = Models(I)[f]
  <2>1. \A l \in LeafSet(f) : \A env \in Environments : GroundLeaf(l, env) \in J <=> GroundLeaf(l, env) \in I
    BY <1>5, <1>10 DEF GroundLeaf
  <2> QED BY <1>10, <2>1, LeavesDecide
<1> QED BY <1>9, <1>11 DEF J

\* Normalization keeps what every condition of every action and of the goal means
\* (Precondition.cpp, lines 309-357), whatever was normalized before or after it.
THEOREM NormalizationKeepsMeaning == Spec => []NormalizedMeaningKept
<1>1. IInv => NormalizedMeaningKept
  <2> SUFFICES ASSUME IInv, Described PROVE NormalizedMeaningKept
    BY DEF IInv
  <2> DEFINE PairsOf(fs, gs) == {<<fs[j], gs[j]>> : j \in DOMAIN fs}
             N == UNION {PairsOf(ConditionsOf(actions[i]), ConditionsOf(domain.actions[i])) :
                           i \in DOMAIN domain.actions}
             G == IF problem.goal = <<>> THEN {} ELSE PairsOf(goal, problem.goal)
  <2>1. ASSUME NEW I \in Interpretation, NEW pair \in N \cup G
        PROVE  Models(Unfolded(I, Declared))[pair[2]] = Models(I)[pair[1]]
    <3>0. Ground2(I)
      BY InterpretationAssumption DEF Ground2
    <3>1. CASE pair \in N
      <4>1. PICK i \in DOMAIN domain.actions :
                   pair \in PairsOf(ConditionsOf(actions[i]), ConditionsOf(domain.actions[i]))
        BY <3>1
      <4> DEFINE s == ConditionsOf(actions[i])
                 t == ConditionsOf(domain.actions[i])
      <4>2. Paired(s, t, Conditions, Formulas, Pairs(DomainStart, DomainContext))
        BY NormalizedConditions DEF ActionPaired
      <4> HIDE DEF s, t
      <4>3. PICK j \in DOMAIN s : pair = <<s[j], t[j]>>
        BY <4>1 DEF s, t
      <4>4. s[j] \in Conditions /\ t[j] \in Formulas /\ Translated(s[j], t[j], DomainStart, DomainContext)
        BY <4>2, PairedTranslated
      <4> QED BY <3>0, <4>3, <4>4, TranslationKeeps
    <3>2. CASE pair \in G
      <4>1. problem.goal # <<>> /\ pair \in PairsOf(goal, problem.goal)
        BY <3>2
      <4>2. Paired(goal, problem.goal, Conditions, Formulas, Pairs(ProblemStart, ProblemContext))
        BY <4>1, NormalizedConditions
      <4>3. PICK j \in DOMAIN goal : pair = <<goal[j], problem.goal[j]>>
        BY <4>1
      <4>4. goal[j] \in Conditions /\ problem.goal[j] \in Formulas
            /\ Translated(goal[j], problem.goal[j], ProblemStart, ProblemContext)
        BY <4>2, PairedTranslated
      <4> QED BY <3>0, <4>3, <4>4, TranslationKeeps
    <3> QED BY <3>1, <3>2
  <2> HIDE DEF N, G
  <2>2. \A I \in Interpretation : \A pair \in N \cup G : \A env \in Environment :
          True(pair[1], env, I) <=> True(pair[2], env, Unfolded(I, Declared))
    BY <2>1 DEF True
  <2> QED BY <2>2, Zenon DEF NormalizedMeaningKept, N, G
<1> QED BY <1>1, InvariantHolds, PTL

\* What is declared stays as it is, at its place, when further conditions are
\* normalized, and the problem leaves the domain alone (Problem.cpp, lines 27-33).
THEOREM DeclarationsStay == Spec => DeclarationsStable
<1> DEFINE D == domain.derivedPredicates
           A == /\ IsPrefix(domain.derivedPredicates, domain'.derivedPredicates)
                /\ stage' # stage => domain' = domain
<1>1. ASSUME IInv, [Next]_vars PROVE [A]_vars
  <2>1. /\ DomainContext \in Contexts /\ DomainContext.start = 1 /\ DomainContext.derivedPredicates = D
        /\ D \in Seq(DerivedPredicates)
    <3>1. DomainContext \in Contexts
      BY <1>1 DEF IInv, Described, Grown
    <3> QED BY <3>1, ContextOf DEF DomainContext
  <2>2. IsPrefix(D, D)
    BY <2>1 DEF IsPrefix
  <2>3. ASSUME NEW action \in Actions, NormalizeAction(action) PROVE A
    <3>1. CASE Unsupported(ConditionsOf(action), action.effect)
      <4>1. domain' = domain
        BY <2>3, <3>1 DEF NormalizeAction, Throw
      <4> QED BY <2>2, <4>1
    <3>2. CASE ~Unsupported(ConditionsOf(action), action.effect)
      <4> DEFINE r == normalizeAction(action, DomainContext)
                 d == r.context
      <4>1. /\ stage' = stage
            /\ domain' = [actions |-> Append(domain.actions, r.result), derivedPredicates |-> d.derivedPredicates]
        BY <2>3, <3>2, Zenon DEF NormalizeAction, DomainContext
      <4>2. Grown(DomainContext, d)
        BY <2>1, ActionSound
      <4> HIDE DEF r
      <4>3. domain'.derivedPredicates = d.derivedPredicates
        BY <4>1
      <4>4. /\ d.derivedPredicates \in Seq(DerivedPredicates)
            /\ Len(D) <= Len(d.derivedPredicates)
            /\ \A i \in 1 .. Len(D) : d.derivedPredicates[i] = D[i]
        BY <2>1, <4>2, ContextParts DEF Grown
      <4>5. SubSeq(D, 1, Len(D)) = SubSeq(d.derivedPredicates, 1, Len(D))
        BY <2>1, <4>4
      <4> QED BY <4>1, <4>3, <4>4, <4>5 DEF IsPrefix
    <3> QED BY <3>1, <3>2
  <2>4. ASSUME NEW g \in Goals, NormalizeProblem(g) PROVE A
    <3>1. domain' = domain
      BY <2>4 DEF NormalizeProblem, Throw
    <3> QED BY <2>2, <3>1
  <2> QED BY <1>1, <2>3, <2>4 DEF Next
<1> QED BY <1>1, InvariantHolds, PTL DEF Spec, DeclarationsStable

-----------------------------------------------------------------------------
(***************************************************************************)
(* What the encoding makes of the printed facts.                           *)
(***************************************************************************)
\* The body of WithDerived; p is what holds of the variables and the facts.
DeriveDef(p, g, i) == IF i = Len(p[2]) + 1 THEN p[1] ELSE Derive(p[2][i], g[i + 1])
DeriveR == INSTANCE Recursion WITH Def <- DeriveDef

\* H[i] is what holds once the declarations from i on have been applied to B.
Derivation(B, H) ==
  /\ WithDerived(B) = H[1] /\ H[Len(facts) + 1] = B
  /\ \A i \in 1 .. Len(facts) : H[i] = Derive(facts[i], H[i + 1])

\* The last declaration is applied first.
LEMMA WithDerivedAt ==
  ASSUME NEW B, Len(facts) \in Nat
  PROVE  \E H : Derivation(B, H)
<1> DEFINE n == Len(facts)
           D == 1 .. n + 1
           p == <<B, facts>>
           from == CHOOSE F : F = [i \in 1 .. n + 1 |-> IF i = n + 1 THEN B ELSE Derive(facts[i], F[i + 1])]
           rank == [i \in D |-> n + 1 - i]
<1>1. n \in Nat /\ rank \in [D -> Nat] /\ p[1] = B /\ p[2] = facts /\ Len(p[2]) = n
  <2>1. \A i \in D : n + 1 - i \in Nat
    OBVIOUS
  <2> QED BY <2>1
<1>2. WithDerived(B) = from[1]
  BY Zenon DEF WithDerived
<1> HIDE DEF p
<1>3. DeriveR!Grounded(p, D, rank)
  <2> SUFFICES ASSUME NEW i \in D, NEW g, NEW h, \A j \in D : rank[j] < rank[i] => g[j] = h[j]
               PROVE  DeriveDef(p, g, i) = DeriveDef(p, h, i)
    BY DEF DeriveR!Grounded
  <2>1. CASE i = n + 1
    BY <1>1, <2>1 DEF DeriveDef
  <2>2. CASE i # n + 1
    <3>1. i + 1 \in D /\ rank[i + 1] < rank[i]
      BY <1>1, <2>2
    <3>2. g[i + 1] = h[i + 1]
      BY <3>1
    <3> QED BY <1>1, <2>2, <3>2 DEF DeriveDef
  <2> QED BY <2>1, <2>2
<1>4. \E F : F = [i \in D |-> DeriveDef(p, F, i)]
  <2> HIDE DEF n, rank, D
  <2> QED BY <1>1, <1>3, DeriveR!RecursiveFunction, LeastNatural
<1>5. from = [i \in 1 .. n + 1 |-> IF i = n + 1 THEN B ELSE Derive(facts[i], from[i + 1])]
  <2>1. \A F : [i \in D |-> DeriveDef(p, F, i)]
                 = [i \in 1 .. n + 1 |-> IF i = n + 1 THEN B ELSE Derive(facts[i], F[i + 1])]
    <3> TAKE F
    <3>1. \A i \in D : DeriveDef(p, F, i) = IF i = n + 1 THEN B ELSE Derive(facts[i], F[i + 1])
      BY <1>1 DEF DeriveDef
    <3> QED BY <3>1
  <2>2. \E F : F = [i \in 1 .. n + 1 |-> IF i = n + 1 THEN B ELSE Derive(facts[i], F[i + 1])]
    <3> DEFINE X(F) == [i \in D |-> DeriveDef(p, F, i)]
               Y(F) == [i \in 1 .. n + 1 |-> IF i = n + 1 THEN B ELSE Derive(facts[i], F[i + 1])]
    <3>1. (\E F : F = X(F)) /\ \A F : X(F) = Y(F)
      BY <1>4, <2>1
    <3> HIDE DEF X, Y
    <3>2. \E F : F = Y(F)
      BY <3>1
    <3> QED BY <3>2 DEF Y
  <2> HIDE DEF n
  <2> QED BY <2>2, Zenon
<1> HIDE DEF from
<1>6. from[n + 1] = B
  BY <1>1, <1>5
<1>7. \A i \in 1 .. n : from[i] = Derive(facts[i], from[i + 1])
  <2> TAKE i \in 1 .. n
  <2>1. i \in 1 .. n + 1 /\ i # n + 1
    BY <1>1
  <2> QED BY <1>5, <2>1
<1>8. Derivation(B, from)
  BY <1>2, <1>6, <1>7 DEF Derivation
<1> QED BY <1>8

\* The facts in H say nothing but what is so in J.
Faithful(H, J) ==
  /\ \A p, ts : /\ <<<<"variable", p, ts>>, TRUE>> \in H => <<p, ts>> \in J
                /\ <<<<"variable", p, ts>>, FALSE>> \in H => <<p, ts>> \notin J
  /\ \A m, ts : /\ <<<<"derivedVariable", m, ts>>, TRUE>> \in H => <<"derived", m, ts>> \in J
                /\ <<<<"derivedVariable", m, ts>>, FALSE>> \notin H

\* A literal whose fact is there is true.
LEMMA LiteralTrue ==
  ASSUME NEW H, NEW J, Faithful(H, J), NEW f \in Formulas, IsLiteral(f), NEW env \in Environments,
         LiteralFact(f, env) \in H
  PROVE  env \in Models(J)[f]
<1>1. ASSUME NEW g \in Formulas, IsLeaf(g)
      PROVE  /\ <<VariableOf(g, env), TRUE>> \in H => env \in Models(J)[g]
             /\ <<VariableOf(g, env), FALSE>> \in H => env \notin Models(J)[g]
  <2>1. CASE g.op = "atom"
    <3>1. VariableOf(g, env) = <<"variable", g.pred, Ground(g.terms, env)>> /\ GroundLeaf(g, env) = <<g.pred, Ground(g.terms, env)>>
      BY <2>1 DEF VariableOf, GroundLeaf
    <3> QED BY <1>1, <3>1, LeafModels DEF Faithful
  <2>2. CASE g.op # "atom"
    <3>1. /\ VariableOf(g, env) = <<"derivedVariable", g.name, Ground(g.terms, env)>>
          /\ GroundLeaf(g, env) = <<"derived", g.name, Ground(g.terms, env)>>
      BY <2>2 DEF VariableOf, GroundLeaf
    <3> QED BY <1>1, <3>1, LeafModels DEF Faithful
  <2> QED BY <2>1, <2>2
<1>2. CASE f.op = "not"
  <2>1. IsLeaf(f.args[1]) /\ <<VariableOf(f.args[1], env), FALSE>> \in H
    BY <1>2 DEF IsLiteral, LiteralFact
  <2>2. f.args[1] \in Formulas /\ Models(J)[f] = Environments \ Models(J)[f.args[1]]
    <3>1. ~IsLeaf(f)
      BY <1>2 DEF IsLeaf
    <3>2. f.args \in Seq(Formulas) /\ Len(f.args) = 1
      BY <1>2, <3>1, Subtrees, NodeParts
    <3> QED BY <1>2, <3>2, ModelsOf
  <2> QED BY <1>1, <2>1, <2>2
<1>3. CASE f.op # "not"
  BY <1>1, <1>3 DEF IsLiteral, LiteralFact
<1> QED BY <1>2, <1>3

\* The literals of a flat condition, and when it is true.
LEMMA FlatParts ==
  ASSUME NEW f \in Formulas, IsFlat(f, {"and", "or"})
  PROVE  /\ \A g \in LiteralsOf(f) : g \in Formulas /\ IsLiteral(g)
         /\ \A J : \A env \in Environments :
              /\ f.op # "or" => (env \in Models(J)[f] <=> \A g \in LiteralsOf(f) : env \in Models(J)[g])
              /\ f.op = "or" => (env \in Models(J)[f] <=> \E g \in LiteralsOf(f) : env \in Models(J)[g])
<1>1. CASE f.op \in {"and", "or"}
  <2>1. LiteralsOf(f) = Range(f.args) /\ \A i \in DOMAIN f.args : IsLiteral(f.args[i])
    BY <1>1 DEF LiteralsOf, IsFlat
  <2>2. ~IsLeaf(f)
    BY <1>1 DEF IsLeaf
  <2>3. \A i \in DOMAIN f.args : f.args[i] \in Formulas
    BY <2>2, Subtrees
  <2>4. \A g : g \in Range(f.args) <=> \E i \in DOMAIN f.args : g = f.args[i]
    BY DEF Range
  <2>5. ASSUME NEW J, NEW env \in Environments
        PROVE  /\ f.op = "and" => (env \in Models(J)[f] <=> \A i \in DOMAIN f.args : env \in Models(J)[f.args[i]])
               /\ f.op = "or" => (env \in Models(J)[f] <=> \E i \in DOMAIN f.args : env \in Models(J)[f.args[i]])
    BY ModelsOf
  <2> QED BY <1>1, <2>1, <2>3, <2>4, <2>5
<1>2. CASE f.op \notin {"and", "or"}
  BY <1>2 DEF LiteralsOf, IsFlat
<1> QED BY <1>1, <1>2

\* A condition all of whose facts are there is true, and an "or" if one is.
LEMMA ConditionTrue ==
  ASSUME NEW H, NEW J, Faithful(H, J), NEW f \in Formulas, IsFlat(f, {"and", "or"}), NEW env \in Environments,
         \/ f.op # "or" /\ ConditionFacts(f, env) \subseteq H
         \/ f.op = "or" /\ ConditionFacts(f, env) \cap H # {}
  PROVE  env \in Models(J)[f]
<1>1. \A g \in LiteralsOf(f) : LiteralFact(g, env) \in H => env \in Models(J)[g]
  BY FlatParts, LiteralTrue
<1>2. \A x : x \in ConditionFacts(f, env) <=> \E g \in LiteralsOf(f) : x = LiteralFact(g, env)
  BY DEF ConditionFacts
<1>3. CASE f.op # "or"
  BY <1>1, <1>2, <1>3, FlatParts
<1>4. CASE f.op = "or"
  <2>1. \E g \in LiteralsOf(f) : LiteralFact(g, env) \in H
    BY <1>2, <1>4
  <2> QED BY <1>1, <1>4, <2>1, FlatParts
<1> QED BY <1>3, <1>4

\* The objects os for xs and ys are ps for xs and qs for ys.
Joined(xs, ys, os, ps, qs) ==
  (\A i \in 1 .. Len(xs) : os[i] = ps[i]) /\ (\A j \in 1 .. Len(ys) : os[Len(xs) + j] = qs[j])

\* Binding two lists of variables one after the other, or both at once.
LEMMA BindTwice ==
  ASSUME NEW xs \in Seq(Var), NEW ys \in Seq(Var), IsInjective(xs \o ys), NEW os, NEW ps, NEW qs,
         Joined(xs, ys, os, ps, qs)
  PROVE  /\ Bind(NoBinding, xs \o ys, os) = Bind(Bind(NoBinding, xs, ps), ys, qs)
         /\ Ground(xs, Bind(NoBinding, xs \o ys, os)) = [i \in DOMAIN xs |-> ps[i]]
<1> DEFINE zs == xs \o ys
           n == Len(xs)
           m == Len(ys)
           b == Bind(NoBinding, xs, ps)
<1>0. (\A i \in 1 .. n : os[i] = ps[i]) /\ (\A j \in 1 .. m : os[n + j] = qs[j])
  BY DEF Joined
<1>1. /\ zs \in Seq(Var) /\ n \in Nat /\ m \in Nat /\ DOMAIN zs = 1 .. n + m
      /\ DOMAIN xs = 1 .. n /\ DOMAIN ys = 1 .. m
      /\ \A i \in 1 .. n : xs[i] \in Var /\ zs[i] = xs[i] /\ i \in 1 .. n + m
      /\ \A j \in 1 .. m : ys[j] \in Var /\ zs[n + j] = ys[j] /\ n + j \in 1 .. n + m
  OBVIOUS
<1> HIDE DEF zs, n, m
<1>2. \A i \in 1 .. n + m : \A k \in 1 .. n + m : zs[i] = zs[k] => i = k
  BY <1>1 DEF IsInjective, zs
<1>3. \A i \in 1 .. n + m : i \in 1 .. n \/ \E j \in 1 .. m : i = n + j
  <2> TAKE i \in 1 .. n + m
  <2>1. i \in 1 .. n \/ (i - n \in 1 .. m /\ i = n + (i - n))
    BY <1>1
  <2> QED BY <2>1
<1>4. /\ \A i \in 1 .. n : \A j \in 1 .. m : xs[i] # ys[j]
      /\ \A i \in 1 .. n : \A k \in 1 .. n : xs[i] = xs[k] => i = k
      /\ \A j \in 1 .. m : \A k \in 1 .. m : ys[j] = ys[k] => j = k
  <2>1. ASSUME NEW i \in 1 .. n, NEW j \in 1 .. m PROVE xs[i] # ys[j]
    <3>1. i # n + j
      BY <1>1
    <3> QED BY <1>1, <1>2, <3>1
  <2>2. ASSUME NEW j \in 1 .. m, NEW k \in 1 .. m, ys[j] = ys[k] PROVE j = k
    <3>1. n + j = n + k
      BY <1>1, <1>2, <2>2
    <3> QED BY <1>1, <3>1
  <2> QED BY <1>1, <1>2, <2>1, <2>2
<1>5. ASSUME NEW i \in 1 .. n PROVE Bind(NoBinding, zs, os)[xs[i]] = ps[i] /\ Bind(b, ys, qs)[xs[i]] = ps[i]
  <2>1. xs[i] \in Range(zs) /\ xs[i] \in Range(xs) /\ xs[i] \notin Range(ys)
    BY <1>1, <1>4 DEF Range
  <2>2. Position(zs, xs[i]) = i
    <3>1. \A k \in DOMAIN zs : zs[k] = xs[i] <=> k = i
      BY <1>1, <1>2
    <3> QED BY <1>1, <3>1 DEF Position
  <2>3. Position(xs, xs[i]) = i
    <3>1. \A k \in DOMAIN xs : xs[k] = xs[i] <=> k = i
      BY <1>1, <1>4
    <3> QED BY <1>1, <3>1 DEF Position
  <2>4. b[xs[i]] = ps[i] /\ Bind(NoBinding, zs, os)[xs[i]] = os[i]
    BY <1>1, <2>1, <2>2, <2>3, BindAt
  <2> HIDE DEF b
  <2>5. Bind(b, ys, qs)[xs[i]] = b[xs[i]]
    BY <1>1, <2>1, BindAt
  <2>6. os[i] = ps[i]
    BY <1>0
  <2> QED BY <2>4, <2>5, <2>6
<1>6. ASSUME NEW j \in 1 .. m PROVE Bind(NoBinding, zs, os)[ys[j]] = qs[j] /\ Bind(b, ys, qs)[ys[j]] = qs[j]
  <2>1. ys[j] \in Range(zs) /\ ys[j] \in Range(ys)
    BY <1>1 DEF Range
  <2>2. Position(zs, ys[j]) = n + j
    <3>1. \A k \in DOMAIN zs : zs[k] = ys[j] <=> k = n + j
      BY <1>1, <1>2
    <3> QED BY <1>1, <3>1 DEF Position
  <2>3. Position(ys, ys[j]) = j
    <3>1. \A k \in DOMAIN ys : ys[k] = ys[j] <=> k = j
      BY <1>1, <1>4
    <3> QED BY <1>1, <3>1 DEF Position
  <2>4. os[n + j] = qs[j]
    BY <1>0
  <2> HIDE DEF b
  <2> QED BY <1>1, <2>1, <2>2, <2>3, <2>4, BindAt
<1>7. ASSUME NEW x \in Var PROVE Bind(NoBinding, zs, os)[x] = Bind(b, ys, qs)[x]
  <2>1. CASE \E i \in 1 .. n : x = xs[i]
    BY <1>5, <2>1
  <2>2. CASE \E j \in 1 .. m : x = ys[j]
    BY <1>6, <2>2
  <2>3. CASE (~\E i \in 1 .. n : x = xs[i]) /\ ~\E j \in 1 .. m : x = ys[j]
    <3>1. x \notin Range(xs) /\ x \notin Range(ys) /\ x \notin Range(zs)
      <4>1. ASSUME NEW k \in 1 .. n + m PROVE zs[k] # x
        BY <1>1, <1>3, <2>3
      <4> QED BY <1>1, <2>3, <4>1 DEF Range
    <3> HIDE DEF b
    <3>2. Bind(NoBinding, zs, os)[x] = NoBinding[x] /\ Bind(b, ys, qs)[x] = b[x]
      BY <3>1, BindAt
    <3>3. b[x] = NoBinding[x]
      BY <3>1, BindAt DEF b
    <3> QED BY <3>2, <3>3
  <2> QED BY <2>1, <2>2, <2>3
<1>8. Bind(NoBinding, zs, os) = Bind(b, ys, qs)
  <2>1. \A env, us, vs : Bind(env, us, vs) = [x \in Var |-> Bind(env, us, vs)[x]]
    BY DEF Bind
  <2> HIDE DEF b
  <2>2. Bind(NoBinding, zs, os) = [x \in Var |-> Bind(b, ys, qs)[x]]
    BY <1>7, <2>1
  <2> QED BY <2>1, <2>2
<1>9. Ground(xs, Bind(NoBinding, zs, os)) = [i \in DOMAIN xs |-> ps[i]]
  <2> HIDE DEF b
  <2> QED BY <1>1, <1>5 DEF Ground
<1> QED BY <1>8, <1>9 DEF zs

\* The instances of a declaration's rule are the ways to choose its two kinds of variables.
LEMMA BindingParts ==
  ASSUME NEW d \in DerivedPredicates, IsInjective(d.parameters \o d.existentialParameters)
  PROVE  /\ \A env \in Bindings(d) : \E ps \in Tuples(d.parameters) : \E qs \in Tuples(d.existentialParameters) :
              /\ env = Bind(Bind(NoBinding, d.parameters, ps), d.existentialParameters, qs)
              /\ Ground(d.parameters, env) = ps
         /\ \A ps \in Tuples(d.parameters) : \A qs \in Tuples(d.existentialParameters) :
              LET env == Bind(Bind(NoBinding, d.parameters, ps), d.existentialParameters, qs)
              IN  env \in Bindings(d) /\ Ground(d.parameters, env) = ps
<1> DEFINE xs == d.parameters
           ys == d.existentialParameters
           n == Len(xs)
           m == Len(ys)
<1>1. /\ xs \in Seq(Var) /\ ys \in Seq(Var) /\ n \in Nat /\ m \in Nat /\ DOMAIN xs = 1 .. n /\ DOMAIN ys = 1 .. m
      /\ DOMAIN (xs \o ys) = 1 .. n + m /\ IsInjective(xs \o ys)
  BY DEF DerivedPredicates
<1>2. ASSUME NEW env \in Bindings(d)
      PROVE  \E ps \in Tuples(xs) : \E qs \in Tuples(ys) :
               env = Bind(Bind(NoBinding, xs, ps), ys, qs) /\ Ground(xs, env) = ps
  <2>1. PICK os \in Tuples(xs \o ys) : env = Bind(NoBinding, xs \o ys, os)
    BY <1>2 DEF Bindings
  <2> DEFINE ps == [i \in DOMAIN xs |-> os[i]]
             qs == [j \in DOMAIN ys |-> os[n + j]]
  <2> HIDE DEF n, m, xs, ys
  <2>2. \A i \in 1 .. n + m : os[i] \in Object
    BY <1>1, <2>1 DEF Tuples
  <2>3. /\ \A i \in 1 .. n : i \in 1 .. n + m
        /\ \A j \in 1 .. m : n + j \in 1 .. n + m
    BY <1>1
  <2>4. ps \in Tuples(xs) /\ qs \in Tuples(ys)
    BY <1>1, <2>2, <2>3 DEF Tuples
  <2>5. Joined(xs, ys, os, ps, qs) /\ [i \in DOMAIN xs |-> ps[i]] = ps
    <3>1. (\A i \in 1 .. n : os[i] = ps[i]) /\ (\A j \in 1 .. m : os[n + j] = qs[j])
      BY <1>1
    <3> QED BY <3>1 DEF Joined, n, m
  <2> HIDE DEF ps, qs
  <2>6. Bind(NoBinding, xs \o ys, os) = Bind(Bind(NoBinding, xs, ps), ys, qs)
        /\ Ground(xs, Bind(NoBinding, xs \o ys, os)) = [i \in DOMAIN xs |-> ps[i]]
    BY <1>1, <2>5, BindTwice
  <2> QED BY <2>1, <2>4, <2>5, <2>6
<1>3. ASSUME NEW ps \in Tuples(xs), NEW qs \in Tuples(ys)
      PROVE  LET env == Bind(Bind(NoBinding, xs, ps), ys, qs) IN env \in Bindings(d) /\ Ground(xs, env) = ps
  <2> DEFINE os == [i \in 1 .. n + m |-> IF i <= n THEN ps[i] ELSE qs[i - n]]
             zs == xs \o ys
  <2>1. ps \in [1 .. n -> Object] /\ qs \in [1 .. m -> Object]
    BY <1>1 DEF Tuples
  <2>z. DOMAIN zs = 1 .. n + m /\ Bindings(d) = {Bind(NoBinding, zs, us) : us \in Tuples(zs)}
    BY <1>1 DEF Bindings
  <2> HIDE DEF n, m, xs, ys
  <2>2. \A i \in 1 .. n + m : i \in 1 .. n \/ (~(i <= n) /\ i - n \in 1 .. m)
    BY <1>1
  <2>3. os \in [1 .. n + m -> Object]
    BY <2>1, <2>2
  <2>4. \A i \in 1 .. n : os[i] = ps[i]
    BY <1>1
  <2>5. \A j \in 1 .. m : os[n + j] = qs[j]
    <3> TAKE j \in 1 .. m
    <3> DEFINE k == n + j
    <3>1. k \in 1 .. n + m /\ ~(k <= n) /\ k - n = j
      BY <1>1
    <3> HIDE DEF k
    <3>2. os[k] = qs[k - n]
      BY <3>1
    <3> QED BY <3>1, <3>2 DEF k
  <2>6. [i \in DOMAIN xs |-> ps[i]] = ps /\ Joined(xs, ys, os, ps, qs)
    <3>1. (\A i \in 1 .. n : os[i] = ps[i]) /\ (\A j \in 1 .. m : os[n + j] = qs[j])
      BY <2>4, <2>5
    <3> HIDE DEF os
    <3> QED BY <1>1, <2>1, <3>1 DEF Joined, n, m
  <2> HIDE DEF os
  <2>7. Bind(NoBinding, zs, os) = Bind(Bind(NoBinding, xs, ps), ys, qs)
        /\ Ground(xs, Bind(NoBinding, zs, os)) = [i \in DOMAIN xs |-> ps[i]]
    BY <1>1, <2>6, BindTwice DEF zs
  <2> HIDE DEF zs
  <2>8. os \in Tuples(zs)
    BY <2>3, <2>z DEF Tuples
  <2> QED BY <2>6, <2>7, <2>8, <2>z
<1> QED BY <1>2, <1>3

\* What is printed for a declaration, taken apart.
LEMMA PrintedParts ==
  ASSUME NEW d
  PROVE  LET F == translateDerivedPredicate(d)
         IN  /\ \A x : x \in F.derivedVariable <=> \E env \in Bindings(d) : x = DerivedVariable(d, env)
             /\ \A c : c \in F.precondition <=>
                  \E env \in Bindings(d) : \E x \in ConditionFacts(d.precondition, env) :
                    c = <<DerivedPredicateName(d, env), x>>
             /\ \A p : p \in F.postcondition <=>
                  \E env \in Bindings(d) : p = <<DerivedPredicateName(d, env), DerivedVariable(d, env)>>
             /\ \A env : DerivedVariable(d, env) = <<"derivedVariable", d.name, Ground(d.parameters, env)>>
BY DEF translateDerivedPredicate, DerivedVariable, VariableOf, Derived

\* The name of a rule: its instance, and its type unless it has no variables.
LEMMA NameParts ==
  ASSUME NEW d, NEW env
  PROVE  LET name == DerivedPredicateName(d, env)
             zs   == d.parameters \o d.existentialParameters
         IN  /\ Len(name) = 2 <=> ~(d.parameters = <<>> /\ d.existentialParameters = <<>>)
             /\ Len(name) = 2 => /\ name[1] = <<d.name, Ground(zs, env)>>
                                 /\ name[2] = IF d.precondition.op = "or" THEN "or" ELSE "and"
BY DEF DerivedPredicateName

\* Instances of one name are the same for the derived variable.
LEMMA NameDecides ==
  ASSUME NEW d \in DerivedPredicates, NEW e1, NEW e2,
         Ground(d.parameters \o d.existentialParameters, e1) = Ground(d.parameters \o d.existentialParameters, e2)
  PROVE  Ground(d.parameters, e1) = Ground(d.parameters, e2)
<1> DEFINE xs == d.parameters
           ys == d.existentialParameters
           zs == xs \o ys
           n == Len(xs)
<1>1. /\ xs \in Seq(Var) /\ DOMAIN xs = 1 .. n /\ \A i \in 1 .. n : xs[i] \in Var
      /\ \A i \in 1 .. n : zs[i] = xs[i] /\ i \in DOMAIN zs
  BY DEF DerivedPredicates
<1> HIDE DEF xs, zs, n
<1>2. \A i \in DOMAIN zs : Ground(zs, e1)[i] = Ground(zs, e2)[i]
  BY DEF zs, xs
<1>3. \A i \in 1 .. n : e1[xs[i]] = e2[xs[i]]
  BY <1>1, <1>2 DEF Ground
<1>4. Ground(xs, e1) = Ground(xs, e2)
  BY <1>1, <1>3 DEF Ground
<1> QED BY <1>4 DEF xs

\* Where there is an object, every binding gives each variable one.
LEMMA BindingType ==
  ASSUME NEW d \in DerivedPredicates, NEW env \in Bindings(d), IsInjective(d.parameters \o d.existentialParameters),
         ~(d.parameters = <<>> /\ d.existentialParameters = <<>>)
  PROVE  env \in Environments
<1>1. PICK ps \in Tuples(d.parameters), qs \in Tuples(d.existentialParameters) :
             env = Bind(Bind(NoBinding, d.parameters, ps), d.existentialParameters, qs)
  BY BindingParts
<1>2. \E o : o \in Object
  <2>1. d.parameters \in Seq(Var) /\ d.existentialParameters \in Seq(Var)
    BY DEF DerivedPredicates
  <2>2. CASE d.parameters # <<>>
    <3>1. 1 \in DOMAIN d.parameters
      BY <2>1, <2>2
    <3> QED BY <1>1, <3>1 DEF Tuples
  <2>3. CASE d.existentialParameters # <<>>
    <3>1. 1 \in DOMAIN d.existentialParameters
      BY <2>1, <2>3
    <3> QED BY <1>1, <3>1 DEF Tuples
  <2> QED BY <2>2, <2>3
<1>3. NoBinding \in Environments
  BY <1>2 DEF NoBinding, Environments
<1>4. d.parameters \in Seq(Var) /\ d.existentialParameters \in Seq(Var)
  BY DEF DerivedPredicates
<1>5. Bind(NoBinding, d.parameters, ps) \in Environments
  BY <1>1, <1>3, <1>4, BindType
<1> QED BY <1>1, <1>4, <1>5, BindType

\* A rule that applies derives what is so.
LEMMA RuleTrue ==
  ASSUME NEW H, NEW J, Faithful(H, J), NEW d \in DerivedPredicates, Fulfils(J, d),
         IsInjective(d.parameters \o d.existentialParameters), IsFlat(d.precondition, {"and", "or"}),
         NEW env \in Bindings(d), satisfied(DerivedPredicateName(d, env), translateDerivedPredicate(d), H)
  PROVE  <<"derived", d.name, Ground(d.parameters, env)>> \in J
<1> DEFINE F == translateDerivedPredicate(d)
           name == DerivedPredicateName(d, env)
           f == d.precondition
           conditions == {c[2] : c \in {p \in F.precondition : p[1] = name}}
<1>1. f \in Formulas
  BY DEF DerivedPredicates
<1>2. Len(name) = 2 /\ ~(d.parameters = <<>> /\ d.existentialParameters = <<>>)
  BY NameParts DEF satisfied
<1>3. ASSUME NEW e \in Bindings(d), e \in Models(J)[f], Ground(d.parameters, e) = Ground(d.parameters, env)
      PROVE  <<"derived", d.name, Ground(d.parameters, env)>> \in J
  <2>1. PICK ps \in Tuples(d.parameters), qs \in Tuples(d.existentialParameters) :
          /\ e = Bind(Bind(NoBinding, d.parameters, ps), d.existentialParameters, qs)
          /\ Ground(d.parameters, e) = ps
    BY BindingParts
  <2> QED BY <1>3, <2>1 DEF Fulfils
<1>4. CASE f.op # "or"
  <2>1. name[2] = "and"
    BY <1>2, <1>4, NameParts
  <2>2. conditions \subseteq H
    BY <2>1 DEF satisfied
  <2>3. ConditionFacts(f, env) \subseteq H
    <3> SUFFICES ASSUME NEW x \in ConditionFacts(f, env) PROVE x \in H
      OBVIOUS
    <3>1. <<name, x>> \in F.precondition
      BY PrintedParts
    <3>2. <<name, x>>[1] = name /\ <<name, x>>[2] = x
      OBVIOUS
    <3> HIDE DEF F, name
    <3>3. x \in conditions
      BY <3>1, <3>2
    <3> QED BY <2>2, <3>3
  <2>4. env \in Environments
    BY <1>2, BindingType
  <2>5. env \in Models(J)[f]
    BY <1>1, <1>4, <2>3, <2>4, ConditionTrue
  <2> QED BY <1>3, <2>5
<1>5. CASE f.op = "or"
  <2>1. name[2] = "or"
    BY <1>2, <1>5, NameParts
  <2>2. conditions \cap H # {}
    BY <2>1 DEF satisfied
  <2>3. PICK c \in F.precondition : c[1] = name /\ c[2] \in H
    BY <2>2
  <2>4. PICK e \in Bindings(d) : \E x \in ConditionFacts(f, e) : c = <<DerivedPredicateName(d, e), x>>
    BY PrintedParts
  <2>5. DerivedPredicateName(d, e) = name /\ \E x \in ConditionFacts(f, e) : x \in H
    BY <2>3, <2>4
  <2>6. e \in Environments
    BY <1>2, BindingType
  <2>7. e \in Models(J)[f]
    BY <1>1, <1>5, <2>4, <2>5, <2>6, ConditionTrue
  <2>8. Ground(d.parameters, e) = Ground(d.parameters, env)
    <3>1. name[1] = <<d.name, Ground(d.parameters \o d.existentialParameters, env)>>
      BY <1>2, NameParts
    <3>2. DerivedPredicateName(d, e)[1] = <<d.name, Ground(d.parameters \o d.existentialParameters, e)>>
      BY <1>2, <2>5, NameParts
    <3>3. Ground(d.parameters \o d.existentialParameters, e) = Ground(d.parameters \o d.existentialParameters, env)
      BY <2>5, <3>1, <3>2
    <3> QED BY <3>3, NameDecides
  <2> QED BY <1>3, <2>7, <2>8
<1> QED BY <1>4, <1>5

\* Some rule of d derives x from H; x is what line 27 says of a variable of d.
DerivedBy(d, H, x) ==
  \E env \in Bindings(d) : /\ satisfied(DerivedPredicateName(d, env), translateDerivedPredicate(d), H)
                           /\ x = <<DerivedVariable(d, env), TRUE>>
Undecided(d, x) == \E env \in Bindings(d) : x = <<<<"derivedVariable", DerivedVariable(d, env)>>, FALSE>>

\* What Derive adds: derived variables that are true, and what line 27 says of those
\* that are not, which is about no derived variable.
LEMMA DeriveAdds ==
  ASSUME NEW d, NEW H, NEW x
  PROVE  LET G == Derive(translateDerivedPredicate(d), H)
         IN  /\ x \in G => x \in H \/ DerivedBy(d, H, x) \/ Undecided(d, x)
             /\ x \in H \/ DerivedBy(d, H, x) => x \in G
<1> DEFINE F == translateDerivedPredicate(d)
           rules == {r \in F.postcondition : satisfied(r[1], F, H)}
           new == {<<p[2], TRUE>> : p \in rules}
           undecided == {y \in F.derivedVariable : <<<<"derivedVariable", y>>, TRUE>> \notin H \cup new}
<1>1. x \in Derive(F, H) <=> x \in H \/ x \in new \/ \E y \in undecided : x = <<<<"derivedVariable", y>>, FALSE>>
  BY DEF Derive
<1>2. \A p : p \in F.postcondition <=>
        \E env \in Bindings(d) : p = <<DerivedPredicateName(d, env), DerivedVariable(d, env)>>
  BY PrintedParts
<1>3. ASSUME x \in new PROVE DerivedBy(d, H, x)
  <2>1. PICK p \in rules : x = <<p[2], TRUE>>
    BY <1>3
  <2>2. PICK env \in Bindings(d) : p = <<DerivedPredicateName(d, env), DerivedVariable(d, env)>>
    BY <1>2, <2>1
  <2>3. p[1] = DerivedPredicateName(d, env) /\ p[2] = DerivedVariable(d, env)
    BY <2>2
  <2> QED BY <2>1, <2>3 DEF DerivedBy
<1>4. ASSUME DerivedBy(d, H, x) PROVE x \in new
  <2>1. PICK env \in Bindings(d) : satisfied(DerivedPredicateName(d, env), F, H) /\ x = <<DerivedVariable(d, env), TRUE>>
    BY <1>4 DEF DerivedBy
  <2> DEFINE p == <<DerivedPredicateName(d, env), DerivedVariable(d, env)>>
  <2>2. p \in F.postcondition /\ p[1] = DerivedPredicateName(d, env) /\ p[2] = DerivedVariable(d, env)
    BY <1>2
  <2> HIDE DEF p, F
  <2>3. p \in rules /\ x = <<p[2], TRUE>>
    BY <2>1, <2>2
  <2> QED BY <2>3
<1>5. \A y \in undecided : \E env \in Bindings(d) : y = DerivedVariable(d, env)
  BY PrintedParts
<1> HIDE DEF F, new, undecided, rules
<1>6. (\E y \in undecided : x = <<<<"derivedVariable", y>>, FALSE>>) => Undecided(d, x)
  BY <1>5 DEF Undecided
<1> QED BY <1>1, <1>3, <1>4, <1>6 DEF F

\* So applying a declaration to what is so gives what is so.
LEMMA DerivesTrue ==
  ASSUME NEW H, NEW J, Faithful(H, J), NEW d \in DerivedPredicates, Fulfils(J, d),
         IsInjective(d.parameters \o d.existentialParameters), IsFlat(d.precondition, {"and", "or"})
  PROVE  Faithful(Derive(translateDerivedPredicate(d), H), J)
<1> DEFINE G == Derive(translateDerivedPredicate(d), H)
<1>1. ASSUME NEW x \in G, x \notin H
      PROVE  \/ \E env \in Bindings(d) : /\ <<"derived", d.name, Ground(d.parameters, env)>> \in J
                                         /\ x = <<<<"derivedVariable", d.name, Ground(d.parameters, env)>>, TRUE>>
             \/ \E y : x = <<<<"derivedVariable", y>>, FALSE>>
  <2>1. CASE DerivedBy(d, H, x)
    <3>1. PICK env \in Bindings(d) : /\ satisfied(DerivedPredicateName(d, env), translateDerivedPredicate(d), H)
                                     /\ x = <<DerivedVariable(d, env), TRUE>>
      BY <2>1 DEF DerivedBy
    <3>2. <<"derived", d.name, Ground(d.parameters, env)>> \in J
      BY <3>1, RuleTrue
    <3>3. DerivedVariable(d, env) = <<"derivedVariable", d.name, Ground(d.parameters, env)>>
      BY PrintedParts
    <3> QED BY <3>1, <3>2, <3>3
  <2>2. CASE Undecided(d, x)
    BY <2>2 DEF Undecided
  <2> QED BY <1>1, <2>1, <2>2, DeriveAdds
<1> HIDE DEF G
<1>2. \A p, ts, b, m, us, c : <<<<"variable", p, ts>>, b>> # <<<<"derivedVariable", m, us>>, c>>
  OBVIOUS
<1>3. \A q, m, us, b, y : <<<<q, m, us>>, b>> # <<<<"derivedVariable", y>>, FALSE>>
  OBVIOUS
<1>4. \A p, ts, b : <<<<"variable", p, ts>>, b>> \in G => <<<<"variable", p, ts>>, b>> \in H
  BY <1>1, <1>2, <1>3
<1>5. \A m, ts : <<<<"derivedVariable", m, ts>>, FALSE>> \in G => <<<<"derivedVariable", m, ts>>, FALSE>> \in H
  <2>1. \A m, ts, k, us : <<<<"derivedVariable", m, ts>>, FALSE>> # <<<<"derivedVariable", k, us>>, TRUE>>
    OBVIOUS
  <2> QED BY <1>1, <1>3, <2>1
<1>6. ASSUME NEW m, NEW ts, <<<<"derivedVariable", m, ts>>, TRUE>> \in G PROVE <<"derived", m, ts>> \in J
  <2>1. CASE <<<<"derivedVariable", m, ts>>, TRUE>> \in H
    BY <2>1 DEF Faithful
  <2>2. CASE <<<<"derivedVariable", m, ts>>, TRUE>> \notin H
    <3>1. PICK env : /\ <<"derived", d.name, Ground(d.parameters, env)>> \in J
                     /\ <<<<"derivedVariable", m, ts>>, TRUE>> =
                          <<<<"derivedVariable", d.name, Ground(d.parameters, env)>>, TRUE>>
      BY <1>1, <1>3, <1>6, <2>2
    <3>2. m = d.name /\ ts = Ground(d.parameters, env)
      BY <3>1
    <3> QED BY <3>1, <3>2
  <2> QED BY <2>1, <2>2
<1>7. Faithful(G, J)
  BY <1>4, <1>5, <1>6 DEF Faithful
<1> QED BY <1>7 DEF G

\* The ground atoms are the predicates with every choice of arguments.
LEMMA GroundAtoms ==
  /\ \A a \in GroundAtom : a = <<a[1], a[2]>>
  /\ \A p \in Predicate : \A os \in [1 .. p[2] -> Object] : <<p[1], os>> \in GroundAtom
<1>1. ASSUME NEW a \in GroundAtom PROVE a = <<a[1], a[2]>>
  <2>1. PICK p \in Predicate : a \in {<<p[1], os>> : os \in [1 .. p[2] -> Object]}
    BY DEF GroundAtom
  <2> QED BY <2>1
<1>2. ASSUME NEW p \in Predicate, NEW os \in [1 .. p[2] -> Object] PROVE <<p[1], os>> \in GroundAtom
  <2>1. <<p[1], os>> \in {<<p[1], us>> : us \in [1 .. p[2] -> Object]}
    OBVIOUS
  <2> QED BY <2>1 DEF GroundAtom
<1> QED BY <1>1, <1>2

\* What holds of the variables that are not derived is so in every state with the
\* same atoms.
LEMMA VariablesFaithful ==
  ASSUME NEW I, NEW J, \A p, ts : <<p, ts>> \in J <=> <<p, ts>> \in I
  PROVE  Faithful(VariableFacts(I), J)
<1>1. ASSUME NEW x \in VariableFacts(I)
      PROVE  \E p, ts : x = <<<<"variable", p, ts>>, <<p, ts>> \in I>>
  <2>1. PICK a \in GroundAtom : x = <<<<"variable", a[1], a[2]>>, a \in I>>
    BY <1>1 DEF VariableFacts
  <2>2. a = <<a[1], a[2]>>
    BY GroundAtoms
  <2> QED BY <2>1, <2>2
<1>2. ASSUME NEW p, NEW ts, NEW b, <<<<"variable", p, ts>>, b>> \in VariableFacts(I)
      PROVE  b = (<<p, ts>> \in I)
  <2>1. PICK q, us : <<<<"variable", p, ts>>, b>> = <<<<"variable", q, us>>, <<q, us>> \in I>>
    BY <1>1, <1>2
  <2>2. p = q /\ ts = us /\ b = (<<q, us>> \in I)
    BY <2>1
  <2> QED BY <2>2
<1>3. ASSUME NEW m, NEW ts, NEW b PROVE <<<<"derivedVariable", m, ts>>, b>> \notin VariableFacts(I)
  <2>1. \A p, us, c : <<<<"derivedVariable", m, ts>>, b>> # <<<<"variable", p, us>>, c>>
    OBVIOUS
  <2> QED BY <1>1, <2>1
<1>4. \A p, ts : /\ <<<<"variable", p, ts>>, TRUE>> \in VariableFacts(I) => <<p, ts>> \in J
                 /\ <<<<"variable", p, ts>>, FALSE>> \in VariableFacts(I) => <<p, ts>> \notin J
  BY <1>2
<1> QED BY <1>3, <1>4 DEF Faithful

\* The declarations, each with a number of its own.
LEMMA DeclaredParts ==
  ASSUME Described
  PROVE  LET n == Len(Declared)
         IN  /\ n \in Nat /\ DOMAIN Declared = 1 .. n /\ Declared \in Seq(DerivedPredicates)
             /\ \A i \in 1 .. n : Declared[i] \in DerivedPredicates /\ Declared[i].name = i /\ Proper(Declared[i], n)
<1> DEFINE n == Len(Declared)
           h == Len(domain.derivedPredicates) + Len(problem.derivedPredicates)
<1>1. /\ DOMAIN Declared = 1 .. h /\ Declared \in Seq(DerivedPredicates) /\ n = h
      /\ \A i \in DOMAIN Declared : Declared[i].name = i /\ Proper(Declared[i], h)
  BY AllDeclared
<1> HIDE DEF h
<1>2. n \in Nat /\ \A i \in 1 .. n : Declared[i] \in DerivedPredicates
  BY <1>1
<1> HIDE DEF n
<1> QED BY <1>1, <1>2

\* The facts printed for the declarations.
Printed == [i \in DOMAIN Declared |-> translateDerivedPredicate(Declared[i])]

\* Applied from the last declaration to the first, the printed rules derive
\* nothing but what the declarations say.
LEMMA SolverFaithful ==
  ASSUME Described, facts = Printed, NEW I, Ground2(I)
  PROVE  Faithful(WithDerived(VariableFacts(I)), Unfolded(I, Declared))
<1> DEFINE n == Len(Declared)
           B == VariableFacts(I)
           J == Unfolded(I, Declared)
           D == 1 .. n + 1
           rank == [i \in D |-> n + 1 - i]
<1>1. /\ n \in Nat /\ DOMAIN Declared = 1 .. n /\ Declared \in Seq(DerivedPredicates)
      /\ \A i \in 1 .. n : Declared[i] \in DerivedPredicates /\ Declared[i].name = i /\ Proper(Declared[i], n)
  BY DeclaredParts
<1>3. Layered(Declared)
  BY <1>1 DEF Layered, Proper
<1>4. /\ \A i \in 1 .. n : Fulfils(J, Declared[i])
      /\ \A p, ts : <<p, ts>> \in J <=> <<p, ts>> \in I
  BY <1>3, UnfoldedFulfils
<1>5. Len(facts) = n /\ \A i \in 1 .. n : facts[i] = translateDerivedPredicate(Declared[i])
  <2>1. facts = [i \in 1 .. n |-> translateDerivedPredicate(Declared[i])]
    BY <1>1 DEF Printed
  <2> HIDE DEF n
  <2> QED BY <1>1, <2>1
<1> HIDE DEF n, J
<1>6. PICK H : Derivation(B, H)
  BY <1>1, <1>5, WithDerivedAt
<1>7. /\ WithDerived(B) = H[1] /\ H[n + 1] = B
      /\ \A i \in 1 .. n : H[i] = Derive(facts[i], H[i + 1])
  BY <1>5, <1>6 DEF Derivation
<1> HIDE DEF B
<1> DEFINE S == {i \in D : Faithful(H[i], J)}
<1>8. ASSUME NEW i \in D, \A j \in D : rank[j] < rank[i] => j \in S PROVE i \in S
  <2>1. CASE i = n + 1
    <3>1. Faithful(B, J)
      BY <1>4, VariablesFaithful DEF B
    <3> QED BY <1>7, <2>1, <3>1
  <2>2. CASE i # n + 1
    <3>1. i + 1 \in D /\ rank[i + 1] < rank[i] /\ i \in 1 .. n
      BY <1>1, <2>2
    <3>2. Faithful(H[i + 1], J)
      BY <1>8, <3>1
    <3>3. H[i] = Derive(translateDerivedPredicate(Declared[i]), H[i + 1])
      BY <1>5, <1>7, <3>1
    <3>4. /\ Declared[i] \in DerivedPredicates /\ Fulfils(J, Declared[i])
          /\ IsInjective(Declared[i].parameters \o Declared[i].existentialParameters)
          /\ IsFlat(Declared[i].precondition, {"and", "or"})
      BY <1>1, <1>4, <3>1 DEF Proper
    <3>5. Faithful(H[i], J)
      BY <3>2, <3>3, <3>4, DerivesTrue
    <3> QED BY <3>5
  <2> QED BY <2>1, <2>2
<1>9. D \subseteq S
  <2>1. rank \in [D -> Nat]
    <3>1. \A i \in D : n + 1 - i \in Nat
      BY <1>1
    <3> QED BY <3>1
  <2> HIDE DEF D, S, rank
  <2> QED BY <1>8, <2>1, RankInduction
<1>10. Faithful(H[1], J)
  <2>1. 1 \in D
    BY <1>1
  <2> QED BY <1>9, <2>1
<1> QED BY <1>7, <1>10 DEF B, J

-----------------------------------------------------------------------------
(***************************************************************************)
(* The invariant of the translated description.                            *)
(***************************************************************************)
\* Translation and the solver leave the description as normalization left it; the
\* facts are those of its declarations, and the solver computed with them.
TInv ==
  /\ stage \in {"domain", "done", "failed", "translated", "considered"}
  /\ Described
  /\ stage \in {"domain", "done", "failed"} => IInv
  /\ stage \in {"translated", "considered"} => facts = Printed
  /\ stage = "considered" => state \in Interpretation /\ holds = WithDerived(VariableFacts(state))

\* Normalization ends where translation begins.
LEMMA TranslationKept == TSpec => []TInv
<1>1. TInit => TInv
  <2> SUFFICES ASSUME TInit PROVE TInv
    OBVIOUS
  <2>1. IInv /\ stage = "domain"
    BY InitHolds DEF TInit, Init
  <2> QED BY <2>1 DEF TInv, IInv
<1>2. ASSUME TInv, [TNext]_tvars PROVE TInv'
  <2>1. CASE Normalize
    <3>1. Next /\ stage = "domain"
      BY <2>1 DEF Normalize, Next, NormalizeAction, NormalizeProblem
    <3>2. IInv'
      BY <1>2, <3>1, StepKeeps DEF TInv
    <3> QED BY <3>2 DEF TInv, IInv
  <2>2. CASE Translate
    <3>1. /\ stage' = "translated" /\ facts' = Printed
          /\ UNCHANGED <<actions, goal, domain, problem>>
      BY <2>2 DEF Translate, Printed
    <3>2. Described' /\ Printed' = Printed
      BY <1>2, <3>1 DEF TInv, Described, Printed, Declared, DomainStart, DomainContext, ProblemStart,
                        ProblemContext, FirstProblemNumber
    <3> QED BY <3>1, <3>2 DEF TInv
  <2>3. ASSUME NEW S \in Interpretation, Consider(S) PROVE TInv'
    <3>1. /\ stage' = "considered" /\ stage = "translated" /\ facts' = facts
          /\ UNCHANGED <<actions, goal, domain, problem>>
          /\ state' = S /\ holds' = WithDerived(VariableFacts(S))
      BY <2>3 DEF Consider
    <3>2. Described' /\ Printed' = Printed
      BY <1>2, <3>1 DEF TInv, Described, Printed, Declared, DomainStart, DomainContext, ProblemStart,
                        ProblemContext, FirstProblemNumber
    <3>3. WithDerived(VariableFacts(state))' = WithDerived(VariableFacts(S))
      BY <3>1 DEF WithDerived, VariableFacts
    <3> QED BY <1>2, <3>1, <3>2, <3>3 DEF TInv
  <2>4. CASE UNCHANGED tvars
    <3>1. /\ UNCHANGED <<stage, actions, goal, domain, problem, facts, state, holds>>
          /\ UNCHANGED vars
      BY <2>4 DEF tvars, vars
    <3>2. Described' /\ Printed' = Printed
      BY <1>2, <3>1 DEF TInv, Described, Printed, Declared, DomainStart, DomainContext, ProblemStart,
                        ProblemContext, FirstProblemNumber
    <3>3. IInv => IInv'
      BY <3>1, StepKeeps
    <3>4. WithDerived(VariableFacts(state))' = WithDerived(VariableFacts(state))
      BY <3>1 DEF WithDerived, VariableFacts
    <3> QED BY <1>2, <3>1, <3>2, <3>3, <3>4 DEF TInv
  <2> QED BY <1>2, <2>1, <2>2, <2>3, <2>4 DEF TNext
<1> QED BY <1>1, <1>2, PTL DEF TSpec

\* The solver has computed what follows from the state S with the printed facts.
Solved(S) == Described /\ Ground2(S) /\ facts = Printed /\ holds = WithDerived(VariableFacts(S))

\* So it has in the state it considers.
LEMMA Considered == TInv /\ stage = "considered" => Solved(state)
BY InterpretationAssumption DEF TInv, Solved, Ground2

\* A condition the solver accepts is true of its source.
LEMMA AcceptedTrue ==
  ASSUME NEW S, Solved(S), NEW f \in Conditions, NEW g \in Formulas, NEW env \in Environments,
         \/ Translated(f, g, DomainStart, DomainContext)
         \/ Translated(f, g, ProblemStart, ProblemContext),
         Accepted(g, env)
  PROVE  True(f, env, S)
<1> DEFINE J == Unfolded(S, Declared)
<1>1. Described /\ Ground2(S) /\ facts = Printed /\ holds = WithDerived(VariableFacts(S))
  BY DEF Solved
<1>2. Faithful(holds, J)
  BY <1>1, SolverFaithful
<1>3. Models(J)[g] = Models(S)[f]
  BY <1>1, TranslationKeeps
<1>4. IsFlat(g, {"and"})
  BY DEF Translated
<1>5. g.op # "or" /\ IsFlat(g, {"and", "or"})
  BY <1>4 DEF IsFlat, IsLiteral, IsLeaf
<1> HIDE DEF J
<1>7. env \in Models(J)[g]
  BY <1>2, <1>5, ConditionTrue DEF Accepted
<1> QED BY <1>3, <1>7 DEF True

\* No precondition, no condition of a "when" and no goal is accepted in a state
\* where it is false: neither its nested parts, which became derived predicates
\* (TranslatorASP.cpp, lines 203-300), nor the rules for these
\* (sequential-horizon.lp, lines 16-27) ever make it easier.
THEOREM AcceptedConditionsTrue == TSpec => []AcceptedIsTrue
<1>1. TInv => AcceptedIsTrue
  <2> SUFFICES ASSUME TInv, stage = "considered", NEW env \in Environment
               PROVE  /\ \A i \in DOMAIN domain.actions : \A j \in DOMAIN ConditionsOf(actions[i]) :
                           Accepted(ConditionsOf(domain.actions[i])[j], env) =>
                             True(ConditionsOf(actions[i])[j], env, state)
                      /\ \A j \in DOMAIN problem.goal : Accepted(problem.goal[j], env) => True(goal[j], env, state)
    BY DEF AcceptedIsTrue, EveryCondition
  <2>1. Described /\ Solved(state) /\ env \in Environments
    BY Considered, EnvironmentAssumption DEF TInv
  <2>2. ASSUME NEW i \in DOMAIN domain.actions, NEW j \in DOMAIN ConditionsOf(actions[i]),
               Accepted(ConditionsOf(domain.actions[i])[j], env)
        PROVE  True(ConditionsOf(actions[i])[j], env, state)
    <3> DEFINE s == ConditionsOf(actions[i])
               t == ConditionsOf(domain.actions[i])
    <3>1. Paired(s, t, Conditions, Formulas, Pairs(DomainStart, DomainContext))
      BY <2>1, NormalizedConditions DEF ActionPaired
    <3> HIDE DEF s, t
    <3>2. s[j] \in Conditions /\ t[j] \in Formulas /\ Translated(s[j], t[j], DomainStart, DomainContext)
      BY <3>1, PairedTranslated DEF s
    <3> QED BY <2>1, <2>2, <3>2, AcceptedTrue DEF s, t
  <2>3. ASSUME NEW j \in DOMAIN problem.goal, Accepted(problem.goal[j], env)
        PROVE  True(goal[j], env, state)
    <3>1. problem.goal # <<>>
      BY <2>3
    <3>2. goal[j] \in Conditions /\ problem.goal[j] \in Formulas
          /\ Translated(goal[j], problem.goal[j], ProblemStart, ProblemContext)
      BY <2>1, <3>1, NormalizedConditions, PairedTranslated
    <3> QED BY <2>1, <2>3, <3>2, AcceptedTrue
  <2> QED BY <2>2, <2>3
<1> QED BY <1>1, TranslationKept, PTL

-----------------------------------------------------------------------------
(***************************************************************************)
(* Conversely: what is true is derived, where only atoms are negated and   *)
(* every derived predicate has a variable.                                 *)
(***************************************************************************)
\* The facts in H say all that is so in J of atoms and of the derived predicates N.
Complete(H, J, N) ==
  /\ \A a \in GroundAtom : /\ a \in J => <<<<"variable", a[1], a[2]>>, TRUE>> \in H
                           /\ a \notin J => <<<<"variable", a[1], a[2]>>, FALSE>> \in H
  /\ \A m \in N : \A ts : <<"derived", m, ts>> \in J => <<<<"derivedVariable", m, ts>>, TRUE>> \in H

\* What a condition's atom asks for is a ground atom.
LEMMA AtomGround ==
  ASSUME NEW f \in Formulas, IsLeaf(f), f.op = "atom", NEW env \in Environments
  PROVE  <<f.pred, Ground(f.terms, env)>> \in GroundAtom
<1> DEFINE n == Len(f.terms)
           os == Ground(f.terms, env)
           p == <<f.pred, n>>
<1>1. f.terms \in Seq(Var \cup Object) /\ p \in Predicate /\ DOMAIN f.terms = 1 .. n
  BY LeafParts DEF Terms
<1>2. \A i \in 1 .. n : f.terms[i] \in Var \cup Object
  BY <1>1
<1>3. os \in [1 .. n -> Object]
  BY <1>1, <1>2 DEF Ground, Environments
<1>4. p[1] = f.pred /\ p[2] = n
  OBVIOUS
<1> HIDE DEF p, n, os
<1>5. <<p[1], os>> \in GroundAtom
  BY <1>1, <1>3, <1>4, GroundAtoms
<1> QED BY <1>4, <1>5 DEF os

\* The fact for a literal that is true is there.
LEMMA TrueLiteral ==
  ASSUME NEW H, NEW J, NEW N, Complete(H, J, N), NEW f \in Formulas, IsLiteral(f), References(f) \subseteq N,
         f.op = "not" => f.args[1].op = "atom",
         NEW env \in Environments, env \in Models(J)[f]
  PROVE  LiteralFact(f, env) \in H
<1>1. ASSUME NEW g \in Formulas, IsLeaf(g), g.op = "atom"
      PROVE  /\ env \in Models(J)[g] => <<VariableOf(g, env), TRUE>> \in H
             /\ env \notin Models(J)[g] => <<VariableOf(g, env), FALSE>> \in H
  <2> DEFINE a == <<g.pred, Ground(g.terms, env)>>
  <2>1. VariableOf(g, env) = <<"variable", a[1], a[2]>> /\ GroundLeaf(g, env) = a
    BY <1>1 DEF VariableOf, GroundLeaf
  <2>2. a \in GroundAtom
    BY <1>1, AtomGround
  <2>3. env \in Models(J)[g] <=> GroundLeaf(g, env) \in J
    BY <1>1, LeafModels
  <2> HIDE DEF a
  <2> QED BY <2>1, <2>2, <2>3 DEF Complete
<1>2. CASE f.op = "not"
  <2>1. f.args[1].op = "atom" /\ IsLeaf(f.args[1]) /\ LiteralFact(f, env) = <<VariableOf(f.args[1], env), FALSE>>
    BY <1>2 DEF IsLiteral, LiteralFact
  <2>2. f.args[1] \in Formulas /\ Models(J)[f] = Environments \ Models(J)[f.args[1]]
    <3>1. ~IsLeaf(f)
      BY <1>2 DEF IsLeaf
    <3>2. f.args \in Seq(Formulas) /\ Len(f.args) = 1
      BY <1>2, <3>1, Subtrees, NodeParts
    <3> QED BY <1>2, <3>2, ModelsOf
  <2> QED BY <1>1, <2>1, <2>2
<1>3. CASE f.op # "not"
  <2>1. IsLeaf(f) /\ LiteralFact(f, env) = <<VariableOf(f, env), TRUE>>
    BY <1>3 DEF IsLiteral, LiteralFact
  <2>2. CASE f.op = "atom"
    BY <1>1, <2>1, <2>2
  <2>3. CASE f.op # "atom"
    <3>1. /\ VariableOf(f, env) = <<"derivedVariable", f.name, Ground(f.terms, env)>>
          /\ GroundLeaf(f, env) = <<"derived", f.name, Ground(f.terms, env)>>
      BY <2>3 DEF VariableOf, GroundLeaf
    <3>2. f.op = "derived" /\ f \in LeafSet(f)
      BY <2>1, <2>3, LeafSetOf DEF IsLeaf
    <3>3. f.name \in N
      BY <3>2 DEF References
    <3>4. GroundLeaf(f, env) \in J
      BY <2>1, LeafModels
    <3> QED BY <2>1, <3>1, <3>3, <3>4 DEF Complete
  <2> QED BY <2>2, <2>3
<1> QED BY <1>2, <1>3

\* A literal of f refers to nothing that f does not.
LEMMA LiteralReferences ==
  ASSUME NEW f \in Formulas, NEW g \in LiteralsOf(f)
  PROVE  References(g) \subseteq References(f)
<1>1. CASE f.op \in {"and", "or"}
  <2>1. ~IsLeaf(f) /\ \E i \in DOMAIN f.args : g = f.args[i]
    BY <1>1 DEF IsLeaf, LiteralsOf, Range
  <2>2. LeafSet(g) \subseteq LeafSet(f)
    BY <2>1, LeafSetOf
  <2> QED BY <2>2 DEF References
<1>2. CASE f.op \notin {"and", "or"}
  BY <1>2 DEF LiteralsOf
<1> QED BY <1>1, <1>2

\* All facts of a condition that is true are there, of an "or" at least one.
LEMMA TrueCondition ==
  ASSUME NEW H, NEW J, NEW N, Complete(H, J, N), NEW f \in Formulas, IsFlat(f, {"and", "or"}),
         References(f) \subseteq N, Positive(f), NEW env \in Environments, env \in Models(J)[f]
  PROVE  /\ f.op # "or" => ConditionFacts(f, env) \subseteq H
         /\ f.op = "or" => ConditionFacts(f, env) \cap H # {}
<1>1. ASSUME NEW g \in LiteralsOf(f), env \in Models(J)[g] PROVE LiteralFact(g, env) \in H
  <2>1. g \in Formulas /\ IsLiteral(g) /\ References(g) \subseteq N
    BY FlatParts, LiteralReferences
  <2>2. g.op = "not" => g.args[1].op = "atom"
    BY DEF Positive
  <2> QED BY <1>1, <2>1, <2>2, TrueLiteral
<1>2. \A x : x \in ConditionFacts(f, env) <=> \E g \in LiteralsOf(f) : x = LiteralFact(g, env)
  BY DEF ConditionFacts
<1>3. CASE f.op # "or"
  <2>1. \A g \in LiteralsOf(f) : env \in Models(J)[g]
    BY <1>3, FlatParts
  <2> QED BY <1>1, <1>2, <1>3, <2>1
<1>4. CASE f.op = "or"
  <2>1. \E g \in LiteralsOf(f) : env \in Models(J)[g]
    BY <1>4, FlatParts
  <2> QED BY <1>1, <1>2, <1>4, <2>1
<1> QED BY <1>3, <1>4

\* A rule's name tells which instance it is.
LEMMA NameTells ==
  ASSUME NEW d \in DerivedPredicates, NEW e \in Bindings(d), NEW env \in Bindings(d),
         ~(d.parameters = <<>> /\ d.existentialParameters = <<>>),
         DerivedPredicateName(d, e) = DerivedPredicateName(d, env)
  PROVE  e = env
<1> DEFINE zs == d.parameters \o d.existentialParameters
<1>1. Ground(zs, e) = Ground(zs, env)
  <2>1. /\ DerivedPredicateName(d, e)[1] = <<d.name, Ground(zs, e)>>
        /\ DerivedPredicateName(d, env)[1] = <<d.name, Ground(zs, env)>>
    BY NameParts
  <2> HIDE DEF zs
  <2> QED BY <2>1
<1>2. zs \in Seq(Var) /\ \A i \in DOMAIN zs : zs[i] \in Var
  <2>1. d.parameters \in Seq(Var) /\ d.existentialParameters \in Seq(Var)
    BY DEF DerivedPredicates
  <2>2. zs \in Seq(Var)
    BY <2>1
  <2> HIDE DEF zs
  <2> QED BY <2>2
<1>3. PICK os, us : e = Bind(NoBinding, zs, os) /\ env = Bind(NoBinding, zs, us)
  BY DEF Bindings
<1> HIDE DEF zs
<1>4. /\ e = [x \in Var |-> e[x]] /\ env = [x \in Var |-> env[x]]
      /\ \A x \in Var : ~(\E i \in DOMAIN zs : zs[i] = x) => e[x] = env[x]
  BY <1>3 DEF Bind
<1>5. \A i \in DOMAIN zs : e[zs[i]] = env[zs[i]]
  <2>1. \A i \in DOMAIN zs : Ground(zs, e)[i] = e[zs[i]] /\ Ground(zs, env)[i] = env[zs[i]]
    BY <1>2 DEF Ground
  <2> QED BY <1>1, <2>1
<1>6. \A x \in Var : e[x] = env[x]
  BY <1>4, <1>5
<1> QED BY <1>4, <1>6

\* What holds stays when a declaration is applied, and what is true of it is derived.
LEMMA RuleApplies ==
  ASSUME NEW H, NEW J, NEW N, Complete(H, J, N), NEW d \in DerivedPredicates, Fulfils(J, d),
         IsInjective(d.parameters \o d.existentialParameters), IsFlat(d.precondition, {"and", "or"}),
         ~(d.parameters = <<>> /\ d.existentialParameters = <<>>),
         Positive(d.precondition), References(d.precondition) \subseteq N,
         NEW ps \in Tuples(d.parameters), <<"derived", d.name, ps>> \in J
  PROVE  <<<<"derivedVariable", d.name, ps>>, TRUE>> \in Derive(translateDerivedPredicate(d), H)
<1> DEFINE F == translateDerivedPredicate(d)
           f == d.precondition
<1>1. f \in Formulas
  BY DEF DerivedPredicates
<1>2. PICK qs \in Tuples(d.existentialParameters) :
             Bind(Bind(NoBinding, d.parameters, ps), d.existentialParameters, qs) \in Models(J)[f]
  BY DEF Fulfils
<1> DEFINE env == Bind(Bind(NoBinding, d.parameters, ps), d.existentialParameters, qs)
           name == DerivedPredicateName(d, env)
           conditions == {c[2] : c \in {p \in F.precondition : p[1] = name}}
<1>3. env \in Bindings(d) /\ Ground(d.parameters, env) = ps
  BY BindingParts
<1>4. env \in Environments
  BY <1>3, BindingType
<1>5. /\ f.op # "or" => ConditionFacts(f, env) \subseteq H
      /\ f.op = "or" => ConditionFacts(f, env) \cap H # {}
  BY <1>1, <1>2, <1>4, TrueCondition
<1>6. Len(name) = 2 /\ name[2] = IF f.op = "or" THEN "or" ELSE "and"
  BY NameParts
<1> HIDE DEF env, name
<1>7. \A x : x \in conditions <=> x \in ConditionFacts(f, env)
  <2>1. ASSUME NEW x \in conditions PROVE x \in ConditionFacts(f, env)
    <3>1. PICK c \in F.precondition : c[1] = name /\ x = c[2]
      BY <2>1
    <3>2. PICK e \in Bindings(d) : \E y \in ConditionFacts(f, e) : c = <<DerivedPredicateName(d, e), y>>
      BY PrintedParts
    <3>3. DerivedPredicateName(d, e) = name /\ x \in ConditionFacts(f, e)
      BY <3>1, <3>2
    <3>4. e = env
      BY <1>3, <3>3, NameTells DEF name
    <3> QED BY <3>3, <3>4
  <2>2. ASSUME NEW x \in ConditionFacts(f, env) PROVE x \in conditions
    <3>1. <<name, x>> \in F.precondition
      BY <1>3, PrintedParts DEF name
    <3>2. <<name, x>>[1] = name /\ <<name, x>>[2] = x
      OBVIOUS
    <3> HIDE DEF F
    <3> QED BY <3>1, <3>2
  <2> QED BY <2>1, <2>2
<1>8. satisfied(name, F, H)
  <2> HIDE DEF F, f
  <2>1. satisfied(name, F, H) <=> /\ Len(name) = 2
                                  /\ CASE name[2] = "and" -> conditions \subseteq H
                                       [] name[2] = "or"  -> conditions \cap H # {}
    BY DEF satisfied
  <2> HIDE DEF conditions
  <2> QED BY <1>5, <1>6, <1>7, <2>1
<1>9. DerivedBy(d, H, <<<<"derivedVariable", d.name, ps>>, TRUE>>)
  <2>1. DerivedVariable(d, env) = <<"derivedVariable", d.name, ps>>
    BY <1>3, PrintedParts
  <2> QED BY <1>3, <1>8, <2>1 DEF DerivedBy, name
<1> QED BY <1>9, DeriveAdds

\* A set of declarations without negated references and without lack of variables,
\* with all that they refer to.
Needed(N) ==
  /\ N \subseteq Names(Declared)
  /\ \A n \in N : /\ Positive(Declaration[n].precondition)
                  /\ Declaration[n].parameters \o Declaration[n].existentialParameters # <<>>
                  /\ References(Declaration[n].precondition) \subseteq N

\* A declaration is found by its number.
LEMMA DeclarationAt ==
  ASSUME Described, NEW n \in Names(Declared)
  PROVE  n \in 1 .. Len(Declared) /\ Declaration[n] = Declared[n]
<1>1. DOMAIN Declared = 1 .. Len(Declared) /\ \A i \in DOMAIN Declared : Declared[i].name = i
  <2>1. Declared \in Seq(DerivedPredicates) /\ \A i \in DOMAIN Declared : Declared[i].name = i
    BY AllDeclared
  <2> QED BY <2>1
<1>2. \E i \in DOMAIN Declared : Declared[i].name = n
  BY DEF Names
<1>3. (CHOOSE i \in DOMAIN Declared : Declared[i].name = n) = n
  BY <1>1, <1>2
<1>4. Declaration[n] = Declared[CHOOSE i \in DOMAIN Declared : Declared[i].name = n]
  BY DEF Declaration
<1> QED BY <1>1, <1>2, <1>3, <1>4

\* What holds of the variables that are not derived is all that is so of atoms.
LEMMA VariablesComplete ==
  ASSUME NEW I, NEW J, \A p, ts : <<p, ts>> \in J <=> <<p, ts>> \in I
  PROVE  Complete(VariableFacts(I), J, {})
<1> SUFFICES ASSUME NEW a \in GroundAtom
             PROVE  /\ a \in J => <<<<"variable", a[1], a[2]>>, TRUE>> \in VariableFacts(I)
                    /\ a \notin J => <<<<"variable", a[1], a[2]>>, FALSE>> \in VariableFacts(I)
  BY DEF Complete
<1>1. a \in J <=> a \in I
  <2>1. a = <<a[1], a[2]>>
    BY GroundAtoms
  <2>2. <<a[1], a[2]>> \in J <=> <<a[1], a[2]>> \in I
    OBVIOUS
  <2> QED BY <2>1, <2>2
<1>2. <<<<"variable", a[1], a[2]>>, a \in I>> \in VariableFacts(I)
  BY DEF VariableFacts
<1>3. CASE a \in I
  <2>1. (a \in I) = TRUE
    BY <1>3
  <2> QED BY <1>1, <1>2, <2>1
<1>4. CASE a \notin I
  <2>1. (a \in I) = FALSE
    BY <1>4
  <2> QED BY <1>1, <1>2, <2>1
<1> QED BY <1>3, <1>4

\* Applied from the last declaration to the first, the printed rules derive all
\* that the needed declarations say.
LEMMA SolverComplete ==
  ASSUME Described, facts = Printed, NEW I, Ground2(I), NEW N, Needed(N)
  PROVE  Complete(WithDerived(VariableFacts(I)), Unfolded(I, Declared), N)
<1> DEFINE n == Len(Declared)
           B == VariableFacts(I)
           J == Unfolded(I, Declared)
           D == 1 .. n + 1
           rank == [i \in D |-> n + 1 - i]
           From(i) == {m \in N : m \in i .. n}
<1>1. /\ n \in Nat /\ DOMAIN Declared = 1 .. n /\ Declared \in Seq(DerivedPredicates)
      /\ \A i \in 1 .. n : Declared[i] \in DerivedPredicates /\ Declared[i].name = i /\ Proper(Declared[i], n)
  BY DeclaredParts
<1>3. Layered(Declared)
  BY <1>1 DEF Layered, Proper
<1>4. /\ \A i \in 1 .. n : Fulfils(J, Declared[i])
      /\ \A p, ts : <<p, ts>> \in J <=> <<p, ts>> \in I
      /\ \A m \in Nat : \A ps : <<"derived", m, ps>> \in J => m \in 1 .. n /\ ps \in Tuples(Declared[m].parameters)
  BY <1>3, UnfoldedFulfils
<1>5. Len(facts) = n /\ \A i \in 1 .. n : facts[i] = translateDerivedPredicate(Declared[i])
  <2>1. facts = [i \in 1 .. n |-> translateDerivedPredicate(Declared[i])]
    BY <1>1 DEF Printed
  <2> HIDE DEF n
  <2> QED BY <1>1, <2>1
<1>6. ASSUME NEW i \in N
      PROVE  /\ i \in 1 .. n /\ Positive(Declared[i].precondition)
             /\ ~(Declared[i].parameters = <<>> /\ Declared[i].existentialParameters = <<>>)
             /\ References(Declared[i].precondition) \subseteq N
  <2>1. i \in 1 .. n /\ Declaration[i] = Declared[i]
    BY DeclarationAt DEF Needed
  <2>2. <<>> \o <<>> = <<>>
    OBVIOUS
  <2> HIDE DEF n
  <2> QED BY <2>1, <2>2 DEF Needed
<1> HIDE DEF n, J
<1>7. PICK H : Derivation(B, H)
  BY <1>1, <1>5, WithDerivedAt
<1>8. /\ WithDerived(B) = H[1] /\ H[n + 1] = B
      /\ \A i \in 1 .. n : H[i] = Derive(facts[i], H[i + 1])
  BY <1>5, <1>7 DEF Derivation
<1> HIDE DEF B
<1> DEFINE S == {i \in D : Complete(H[i], J, From(i))}
<1>9. ASSUME NEW i \in D, \A j \in D : rank[j] < rank[i] => j \in S PROVE i \in S
  <2>1. CASE i = n + 1
    <3>1. Complete(B, J, {})
      BY <1>4, VariablesComplete DEF B
    <3>2. From(i) = {}
      BY <1>1, <2>1
    <3> HIDE DEF From
    <3> QED BY <1>8, <2>1, <3>1, <3>2
  <2>2. CASE i # n + 1
    <3>1. i + 1 \in D /\ rank[i + 1] < rank[i] /\ i \in 1 .. n /\ i \in Nat
      BY <1>1, <2>2
    <3> DEFINE d == Declared[i]
               K == H[i + 1]
               G == Derive(translateDerivedPredicate(d), K)
    <3>2. Complete(K, J, From(i + 1))
      BY <1>9, <3>1
    <3>3. H[i] = G
      BY <1>5, <1>8, <3>1
    <3>4. \A x \in K : x \in G
      BY DeriveAdds
    <3>5. \A m \in From(i) : m = i \/ m \in From(i + 1)
      BY <1>1, <3>1
    <3>6. ASSUME i \in N, NEW ts, <<"derived", i, ts>> \in J
          PROVE  <<<<"derivedVariable", i, ts>>, TRUE>> \in G
      <4>1. /\ d \in DerivedPredicates /\ d.name = i /\ Fulfils(J, d) /\ ts \in Tuples(d.parameters)
            /\ IsInjective(d.parameters \o d.existentialParameters) /\ IsFlat(d.precondition, {"and", "or"})
        BY <1>1, <1>4, <3>1, <3>6 DEF Proper
      <4>2. /\ Positive(d.precondition) /\ ~(d.parameters = <<>> /\ d.existentialParameters = <<>>)
            /\ References(d.precondition) \subseteq N
        BY <1>6, <3>6
      <4>3. References(d.precondition) \subseteq From(i + 1)
        <5>1. \A m \in References(d.precondition) : m \in i + 1 .. n
          BY <1>1, <3>1 DEF Proper, References
        <5> QED BY <4>2, <5>1
      <4>4. <<"derived", d.name, ts>> \in J
        BY <3>6, <4>1
      <4> HIDE DEF d, K, From
      <4>5. <<<<"derivedVariable", d.name, ts>>, TRUE>> \in G
        BY <3>2, <4>1, <4>2, <4>3, <4>4, RuleApplies
      <4> QED BY <4>1, <4>5
    <3>7. \A m \in From(i) : m \in N
      OBVIOUS
    <3> HIDE DEF G, K, From
    <3>8. Complete(G, J, From(i))
      BY <3>2, <3>4, <3>5, <3>6, <3>7 DEF Complete
    <3> QED BY <3>3, <3>8
  <2> QED BY <2>1, <2>2
<1>10. D \subseteq S
  <2>1. rank \in [D -> Nat]
    <3>1. \A i \in D : n + 1 - i \in Nat
      BY <1>1
    <3> QED BY <3>1
  <2> HIDE DEF D, S, rank
  <2> QED BY <1>9, <2>1, RankInduction
<1>11. Complete(H[1], J, From(1))
  <2>1. 1 \in D
    BY <1>1
  <2> QED BY <1>10, <2>1
<1>12. From(1) = N
  BY <1>6
<1> HIDE DEF From
<1> QED BY <1>8, <1>11, <1>12 DEF B, J

\* A plain condition whose source is true is accepted.
LEMMA PlainAccepted ==
  ASSUME NEW S, Solved(S), NEW f \in Conditions, NEW g \in Formulas, NEW env \in Environments,
         \/ Translated(f, g, DomainStart, DomainContext)
         \/ Translated(f, g, ProblemStart, ProblemContext),
         Plain(g), True(f, env, S)
  PROVE  Accepted(g, env)
<1> DEFINE J == Unfolded(S, Declared)
<1>1. Described /\ Ground2(S) /\ facts = Printed /\ holds = WithDerived(VariableFacts(S))
  BY DEF Solved
<1>2. PICK N : Needed(N) /\ References(g) \subseteq N
  BY DEF Plain, Needed
<1>3. Complete(holds, J, N)
  BY <1>1, <1>2, SolverComplete
<1>4. Models(J)[g] = Models(S)[f]
  BY <1>1, TranslationKeeps
<1>5. IsFlat(g, {"and"})
  BY DEF Translated
<1>6. g.op # "or" /\ IsFlat(g, {"and", "or"})
  BY <1>5 DEF IsFlat, IsLiteral, IsLeaf
<1>7. Positive(g)
  BY DEF Plain
<1> HIDE DEF J
<1>8. env \in Models(J)[g]
  BY <1>4 DEF True
<1>9. ConditionFacts(g, env) \subseteq holds
  BY <1>2, <1>3, <1>6, <1>7, <1>8, TrueCondition
<1> QED BY <1>9 DEF Accepted

\* Where no derived predicate that a condition depends on is negated or lacks
\* variables, the condition is accepted in every state where it is true: the rules
\* of sequential-horizon.lp (lines 16-27) lose no plan.
THEOREM PlainConditionsAccepted == TSpec => []PlainTrueIsAccepted
<1>1. TInv => PlainTrueIsAccepted
  <2> SUFFICES ASSUME TInv, stage = "considered", NEW env \in Environment
               PROVE  /\ \A i \in DOMAIN domain.actions : \A j \in DOMAIN ConditionsOf(actions[i]) :
                           Plain(ConditionsOf(domain.actions[i])[j]) /\ True(ConditionsOf(actions[i])[j], env, state) =>
                             Accepted(ConditionsOf(domain.actions[i])[j], env)
                      /\ \A j \in DOMAIN problem.goal :
                           Plain(problem.goal[j]) /\ True(goal[j], env, state) => Accepted(problem.goal[j], env)
    BY DEF PlainTrueIsAccepted, EveryCondition
  <2>1. Described /\ Solved(state) /\ env \in Environments
    BY Considered, EnvironmentAssumption DEF TInv
  <2>2. ASSUME NEW i \in DOMAIN domain.actions, NEW j \in DOMAIN ConditionsOf(actions[i]),
               Plain(ConditionsOf(domain.actions[i])[j]), True(ConditionsOf(actions[i])[j], env, state)
        PROVE  Accepted(ConditionsOf(domain.actions[i])[j], env)
    <3> DEFINE s == ConditionsOf(actions[i])
               t == ConditionsOf(domain.actions[i])
    <3>1. Paired(s, t, Conditions, Formulas, Pairs(DomainStart, DomainContext))
      BY <2>1, NormalizedConditions DEF ActionPaired
    <3> HIDE DEF s, t
    <3>2. s[j] \in Conditions /\ t[j] \in Formulas /\ Translated(s[j], t[j], DomainStart, DomainContext)
      BY <3>1, PairedTranslated DEF s
    <3> QED BY <2>1, <2>2, <3>2, PlainAccepted DEF s, t
  <2>3. ASSUME NEW j \in DOMAIN problem.goal, Plain(problem.goal[j]), True(goal[j], env, state)
        PROVE  Accepted(problem.goal[j], env)
    <3>1. problem.goal # <<>>
      BY <2>3
    <3>2. goal[j] \in Conditions /\ problem.goal[j] \in Formulas
          /\ Translated(goal[j], problem.goal[j], ProblemStart, ProblemContext)
      BY <2>1, <3>1, NormalizedConditions, PairedTranslated
    <3> QED BY <2>1, <2>3, <3>2, PlainAccepted
  <2> QED BY <2>2, <2>3
<1> QED BY <1>1, TranslationKept, PTL

-----------------------------------------------------------------------------
(***************************************************************************)
(* What an effect changes: the literals of the effects placed in it.       *)
(***************************************************************************)
\* What is in two sequences one after the other.
LEMMA RangeAppended ==
  ASSUME NEW S, NEW s \in Seq(S), NEW u \in Seq(S)
  PROVE  s \o u \in Seq(S) /\ \A x : x \in Range(s \o u) <=> x \in Range(s) \/ x \in Range(u)
<1> DEFINE m == Len(s)
           n == Len(u)
           w == s \o u
<1>1. /\ w \in Seq(S) /\ Len(w) = m + n /\ m \in Nat /\ n \in Nat
      /\ \A j \in 1 .. m + n : w[j] = IF j <= m THEN s[j] ELSE u[j - m]
  BY Appended
<1>2. DOMAIN s = 1 .. m /\ DOMAIN u = 1 .. n /\ DOMAIN w = 1 .. m + n
  <2>1. DOMAIN s = 1 .. m /\ DOMAIN u = 1 .. n
    OBVIOUS
  <2> HIDE DEF w, m, n
  <2>2. DOMAIN w = 1 .. m + n
    BY <1>1
  <2> QED BY <2>1, <2>2
<1> HIDE DEF w, m, n
<1>3. ASSUME NEW i \in 1 .. m PROVE i \in 1 .. m + n /\ w[i] = s[i]
  BY <1>1
<1>4. ASSUME NEW i \in 1 .. n PROVE m + i \in 1 .. m + n /\ w[m + i] = u[i]
  BY <1>1
<1>5. ASSUME NEW j \in 1 .. m + n
      PROVE  \/ j \in 1 .. m /\ w[j] = s[j]
             \/ j - m \in 1 .. n /\ w[j] = u[j - m]
  BY <1>1
<1>6. ASSUME NEW x PROVE x \in Range(w) <=> x \in Range(s) \/ x \in Range(u)
  BY <1>2, <1>3, <1>4, <1>5 DEF Range
<1> QED BY <1>1, <1>6 DEF w

\* What is in a flattened sequence is in one of its parts.
LEMMA InFlattened ==
  ASSUME NEW S, NEW n \in Nat, NEW ss, Len(ss) = n, n = 0 => ss = <<>>, \A i \in 1 .. n : ss[i] \in Seq(S)
  PROVE  /\ FlattenSeq(ss) \in Seq(S)
         /\ \A x : x \in Range(FlattenSeq(ss)) <=> \E i \in 1 .. n : x \in Range(ss[i])
<1>1. CASE n = 0
  <2>1. FlattenSeq(ss) = <<>>
    BY <1>1 DEF FlattenSeq
  <2>2. FlattenSeq(ss) \in Seq(S) /\ \A x : x \notin Range(FlattenSeq(ss))
    BY <2>1 DEF Range
  <2> QED BY <1>1, <2>2
<1>2. CASE n # 0
  <2>1. PICK F : FlattenSeq(ss) = F[n] /\ F[1] = ss[1] /\ \A i \in 2 .. n : F[i] = F[i - 1] \o ss[i]
    BY <1>2, FlattenAt
  <2> DEFINE D == 1 .. n
             Good(i) == F[i] \in Seq(S) /\ \A x : x \in Range(F[i]) <=> \E j \in 1 .. i : x \in Range(ss[j])
             R == {i \in D : Good(i)}
             rank == [i \in D |-> i]
  <2>2. ASSUME NEW i \in D, \A j \in D : rank[j] < rank[i] => j \in R PROVE i \in R
    <3>1. CASE i = 1
      <4>1. F[i] = ss[1] /\ \A j \in 1 .. i : j = 1
        BY <2>1, <3>1
      <4>2. 1 \in 1 .. i /\ 1 \in 1 .. n
        BY <1>2, <3>1
      <4>3. F[i] \in Seq(S) /\ \A x : x \in Range(F[i]) <=> \E j \in 1 .. i : x \in Range(ss[j])
        BY <4>1, <4>2, Zenon
      <4> QED BY <4>3
    <3>2. CASE i # 1
      <4>1. i - 1 \in D /\ rank[i - 1] < rank[i] /\ i \in 2 .. n
        BY <3>2
      <4>2. Good(i - 1) /\ ss[i] \in Seq(S)
        BY <2>2, <4>1
      <4>3. F[i] = F[i - 1] \o ss[i]
        BY <2>1, <4>1
      <4>4. F[i] \in Seq(S) /\ \A x : x \in Range(F[i]) <=> x \in Range(F[i - 1]) \/ x \in Range(ss[i])
        <5> DEFINE s == F[i - 1]
                   u == ss[i]
        <5>1. s \in Seq(S) /\ u \in Seq(S)
          BY <4>2
        <5> HIDE DEF s, u
        <5>2. s \o u \in Seq(S) /\ \A x : x \in Range(s \o u) <=> x \in Range(s) \/ x \in Range(u)
          BY <5>1, RangeAppended
        <5> QED BY <4>3, <5>2 DEF s, u
      <4>5. \A j : j \in 1 .. i <=> j \in 1 .. i - 1 \/ j = i
        BY <4>1
      <4> QED BY <4>2, <4>4, <4>5
    <3> QED BY <3>1, <3>2
  <2>3. n \in D
    BY <1>2
  <2>4. D \subseteq R
    <3>1. rank \in [D -> Nat]
      OBVIOUS
    <3> HIDE DEF D, R, rank
    <3> QED BY <2>2, <3>1, RankInduction
  <2> QED BY <2>1, <2>3, <2>4
<1> QED BY <1>1, <1>2

\* The body of Changes.
ChangesDef(p, g, e) == ChangesWith(g, e, p)
ChangesR == INSTANCE Recursion WITH Def <- ChangesDef

\* Changes, unfolded once.
LEMMA ChangesAt == \A I : \A e \in Effects : Changes(I)[e] = ChangesWith(Changes(I), e, I)
<1> TAKE I
<1>1. ChangesR!Grounded(I, Effects, EffectHeight)
  <2> SUFFICES ASSUME NEW e \in Effects, NEW g, NEW h,
                      \A d \in Effects : EffectHeight[d] < EffectHeight[e] => g[d] = h[d]
               PROVE  ChangesWith(g, e, I) = ChangesWith(h, e, I)
    BY DEF ChangesR!Grounded, ChangesDef
  <2>1. CASE e.op = "and"
    <3>1. \A i \in DOMAIN e.args : g[e.args[i]] = h[e.args[i]]
      BY <2>1, Subeffects
    <3> DEFINE A(env) == UNION {g[e.args[i]][env] : i \in DOMAIN e.args}
               B(env) == UNION {h[e.args[i]][env] : i \in DOMAIN e.args}
    <3>2. \A env : A(env) = B(env)
      BY <3>1
    <3>3. /\ ChangesWith(g, e, I) = [env \in Environments |-> A(env)]
          /\ ChangesWith(h, e, I) = [env \in Environments |-> B(env)]
      BY <2>1 DEF ChangesWith
    <3> HIDE DEF A, B
    <3> QED BY <3>2, <3>3
  <2>2. CASE e.op = "forall"
    <3>1. 1 \in DOMAIN e.args
      BY <2>2, ForAllParts
    <3>2. g[e.args[1]] = h[e.args[1]]
      BY <2>2, <3>1, Subeffects
    <3> QED BY <2>2, <3>2 DEF ChangesWith
  <2>3. CASE e.op \notin {"and", "forall"}
    BY <2>3 DEF ChangesWith
  <2> QED BY <2>1, <2>2, <2>3
<1>2. \E F : F = [e \in Effects |-> ChangesDef(I, F, e)]
  BY <1>1, EffectHeightLeast, ChangesR!RecursiveFunction, LeastNatural
<1>3. \E F : F = [e \in Effects |-> ChangesWith(F, e, I)]
  BY <1>2 DEF ChangesDef
<1>4. Changes(I) = [e \in Effects |-> ChangesWith(Changes(I), e, I)]
  BY <1>3, Zenon DEF Changes
<1> QED BY <1>4

\* The placed effect p, with the objects env, sets what c says.
Sets(p, env, I, c) ==
  /\ p.effect.op = "when" => True(p.effect.condition, env, I)
  /\ \E f \in Postconditions(p) : c = LiteralChange(f, env)

\* c is what a placed effect sets within its scope.
SetsWithin(placed, env, I, c) == \E p \in Range(placed) : \E inner \in p.scope[env] : Sets(p, inner, I, c)

\* An effect changes what the effects placed in it set.
PlacedChanges(e, I) ==
  /\ Placed[e] \in Seq(Places)
  /\ \A env \in Environments : \A c : c \in Changes(I)[e][env] <=> SetsWithin(Placed[e], env, I, c)

\* So does one without parts.
LEMMA LeafChanges ==
  ASSUME NEW I, NEW e \in Effects, e.op \notin {"and", "forall"}
  PROVE  PlacedChanges(e, I)
<1> DEFINE p == [effect |-> e, scope |-> [env \in Environments |-> {env}]]
<1>1. e \in EffectLeaf(Formulas)
  <2>1. PICK n \in Nat : e \in EffectTrees(Formulas)[n]
    BY DepthAssumption DEF Effects
  <2>2. \A S : e \notin EffectNode(S)
    BY EffectParts
  <2> QED BY <2>1, <2>2, EffectTreesAt
<1>2. Placed[e] = <<p>>
  BY PlacedAt DEF PlaceDef
<1>3. p \in Places /\ p.effect = e /\ \A env \in Environments : p.scope[env] = {env}
  BY <1>1 DEF Places
<1> HIDE DEF p
<1>4. <<p>> \in Seq(Places) /\ \A q : q \in Range(<<p>>) <=> q = p
  BY <1>3 DEF Range
<1>5. ASSUME NEW env \in Environments, NEW c
      PROVE  c \in Changes(I)[e][env] <=> Sets(p, env, I, c)
  <2>1. Changes(I)[e] = ChangesWith(Changes(I), e, I)
    BY ChangesAt
  <2>2. CASE e.op = "when"
    <3>1. Changes(I)[e][env] = {LiteralChange(e.args[i], env) : i \in {j \in DOMAIN e.args : True(e.condition, env, I)}}
      BY <2>1, <2>2 DEF ChangesWith
    <3>2. Postconditions(p) = Range(e.args)
      BY <1>3, <2>2 DEF Postconditions
    <3>3. c \in Changes(I)[e][env] <=> True(e.condition, env, I) /\ \E i \in DOMAIN e.args : c = LiteralChange(e.args[i], env)
      BY <3>1
    <3> QED BY <1>3, <2>2, <3>2, <3>3 DEF Sets, Range
  <2>3. CASE e.op # "when"
    <3>1. Changes(I)[e][env] = {LiteralChange(e, env)}
      BY <2>1, <2>3 DEF ChangesWith
    <3>2. Postconditions(p) = {e}
      BY <1>3, <2>3 DEF Postconditions
    <3> QED BY <1>3, <2>3, <3>1, <3>2 DEF Sets
  <2> QED BY <2>2, <2>3
<1> QED BY <1>2, <1>3, <1>4, <1>5 DEF PlacedChanges, SetsWithin

\* So does an "and" if its arguments do.
LEMMA AndChanges ==
  ASSUME NEW I, NEW e \in Effects, e.op = "and", \A i \in DOMAIN e.args : PlacedChanges(e.args[i], I)
  PROVE  PlacedChanges(e, I)
<1> DEFINE n == Len(e.args)
           ss == [i \in DOMAIN e.args |-> Placed[e.args[i]]]
<1>1. n \in Nat /\ DOMAIN e.args = 1 .. n
  BY Subeffects
<1>2. ss = [i \in 1 .. n |-> ss[i]] /\ \A i \in 1 .. n : ss[i] = Placed[e.args[i]]
  BY <1>1
<1>3. Placed[e] = FlattenSeq(ss)
  BY PlacedAt DEF PlaceDef
<1> HIDE DEF ss, n
<1>4. Len(ss) = n /\ (n = 0 => ss = <<>>)
  <2>1. Len(ss) = n
    BY <1>1, <1>2, LengthOf
  <2>2. ASSUME n = 0 PROVE ss = <<>>
    BY <1>2, <2>2
  <2> QED BY <2>1, <2>2
<1>5. \A i \in 1 .. n : ss[i] \in Seq(Places)
  BY <1>1, <1>2 DEF PlacedChanges
<1>6. /\ Placed[e] \in Seq(Places)
      /\ \A p : p \in Range(Placed[e]) <=> \E i \in 1 .. n : p \in Range(Placed[e.args[i]])
  <2>1. /\ FlattenSeq(ss) \in Seq(Places)
        /\ \A p : p \in Range(FlattenSeq(ss)) <=> \E i \in 1 .. n : p \in Range(ss[i])
    BY <1>1, <1>4, <1>5, InFlattened
  <2> QED BY <1>2, <1>3, <2>1
<1>7. ASSUME NEW env \in Environments, NEW c
      PROVE  c \in Changes(I)[e][env] <=> SetsWithin(Placed[e], env, I, c)
  <2>4. Changes(I)[e] = [inner \in Environments |-> UNION {Changes(I)[e.args[i]][inner] : i \in DOMAIN e.args}]
    BY ChangesAt DEF ChangesWith
  <2>1. Changes(I)[e][env] = UNION {Changes(I)[e.args[i]][env] : i \in DOMAIN e.args}
    BY <2>4
  <2>2. c \in Changes(I)[e][env] <=> \E i \in 1 .. n : c \in Changes(I)[e.args[i]][env]
    BY <1>1, <2>1
  <2>3. \A i \in 1 .. n : c \in Changes(I)[e.args[i]][env] <=> SetsWithin(Placed[e.args[i]], env, I, c)
    BY <1>1 DEF PlacedChanges
  <2> QED BY <1>6, <2>2, <2>3 DEF SetsWithin
<1> QED BY <1>6, <1>7 DEF PlacedChanges

\* So does a "forall".
LEMMA ForAllChanges ==
  ASSUME NEW I, NEW e \in Effects, e.op = "forall", PlacedChanges(e.args[1], I)
  PROVE  PlacedChanges(e, I)
<1> DEFINE inner == Placed[e.args[1]]
           xs == e.vars
           outer == [i \in DOMAIN inner |-> Within(inner[i], xs)]
           n == Len(inner)
<1>1. xs \in Seq(Var) /\ inner \in Seq(Places)
  BY ForAllParts DEF PlacedChanges
<1>2. Placed[e] = outer
  BY PlacedAt DEF PlaceDef
<1>3. Changes(I)[e] = [env \in Environments |-> UNION {Changes(I)[e.args[1]][Bind(env, xs, os)] : os \in Tuples(xs)}]
  BY ChangesAt DEF ChangesWith
<1>4. \A env \in Environments : \A c : c \in Changes(I)[e.args[1]][env] <=> SetsWithin(inner, env, I, c)
  BY DEF PlacedChanges
<1> HIDE DEF inner, xs
<1>5. n \in Nat /\ DOMAIN inner = 1 .. n /\ \A i \in 1 .. n : inner[i] \in Places
  BY <1>1
<1> HIDE DEF n
<1>6. ASSUME NEW i \in 1 .. n
      PROVE  /\ outer[i] \in Places /\ outer[i].effect = inner[i].effect
             /\ \A env \in Environments :
                  outer[i].scope[env] = UNION {inner[i].scope[Bind(env, xs, os)] : os \in Tuples(xs)}
  <2>1. outer[i] = Within(inner[i], xs)
    BY <1>5
  <2> HIDE DEF outer
  <2> QED BY <1>1, <1>5, <2>1, WithinPlaces
<1>7. DOMAIN outer = 1 .. n /\ outer \in Seq(Places)
  <2>1. outer = [i \in 1 .. n |-> outer[i]]
    BY <1>5
  <2> HIDE DEF outer
  <2>2. outer \in [1 .. n -> Places]
    BY <1>6, <2>1
  <2> QED BY <1>5, <2>2
<1> HIDE DEF outer
<1>8. ASSUME NEW env \in Environments, NEW c
      PROVE  c \in Changes(I)[e][env] <=> SetsWithin(outer, env, I, c)
  <2>1. \A os \in Tuples(xs) : Bind(env, xs, os) \in Environments
    BY <1>1, BindType
  <2>2. c \in Changes(I)[e][env] <=> \E os \in Tuples(xs) : c \in Changes(I)[e.args[1]][Bind(env, xs, os)]
    BY <1>3
  <2>3. c \in Changes(I)[e][env] <=> \E os \in Tuples(xs) : SetsWithin(inner, Bind(env, xs, os), I, c)
    BY <1>4, <2>1, <2>2
  <2>4. \A i \in 1 .. n : \A env2 : Sets(outer[i], env2, I, c) <=> Sets(inner[i], env2, I, c)
    BY <1>6 DEF Sets, Postconditions
  <2>5. SetsWithin(outer, env, I, c) <=> \E i \in 1 .. n : \E env2 \in outer[i].scope[env] : Sets(outer[i], env2, I, c)
    BY <1>7 DEF SetsWithin, Range
  <2>6. \A os \in Tuples(xs) : SetsWithin(inner, Bind(env, xs, os), I, c) <=>
          \E i \in 1 .. n : \E env2 \in inner[i].scope[Bind(env, xs, os)] : Sets(inner[i], env2, I, c)
    BY <1>5 DEF SetsWithin, Range
  <2>7. \A i \in 1 .. n : \A env2 : env2 \in outer[i].scope[env] <=>
          \E os \in Tuples(xs) : env2 \in inner[i].scope[Bind(env, xs, os)]
    BY <1>6
  <2> QED BY <2>3, <2>4, <2>5, <2>6, <2>7
<1> QED BY <1>2, <1>7, <1>8 DEF PlacedChanges

\* So does every effect.
LEMMA EffectChanges == \A I : \A e \in Effects : PlacedChanges(e, I)
<1> TAKE I
<1> DEFINE S == {e \in Effects : PlacedChanges(e, I)}
<1>1. ASSUME NEW e \in Effects, \A d \in Effects : EffectHeight[d] < EffectHeight[e] => d \in S PROVE e \in S
  <2>1. e.op \in {"and", "forall"} => \A i \in DOMAIN e.args : PlacedChanges(e.args[i], I)
    BY <1>1, Subeffects
  <2>2. CASE e.op = "and"
    BY <2>1, <2>2, AndChanges
  <2>3. CASE e.op = "forall"
    BY <2>1, <2>3, ForAllParts, ForAllChanges
  <2>4. CASE e.op \notin {"and", "forall"}
    BY <2>4, LeafChanges
  <2> QED BY <2>2, <2>3, <2>4
<1>2. Effects \subseteq S
  <2> HIDE DEF S
  <2> QED BY <1>1, EffectHeightLeast, RankInduction
<1> QED BY <1>2

-----------------------------------------------------------------------------
(***************************************************************************)
(* The facts printed for the actions.                                      *)
(***************************************************************************)
\* The fact that says what c does: an atom with the value it is set to.
ChangeFact(c) == <<<<"variable", c[1][1], c[1][2]>>, c[2]>>

\* What a literal sets is printed as a fact of a ground atom.
LEMMA LiteralFacts ==
  ASSUME NEW f \in EffectLiteral, NEW env \in Environments
  PROVE  /\ LiteralChange(f, env) \in GroundAtom \X BOOLEAN
         /\ LiteralFact(f, env) = ChangeFact(LiteralChange(f, env))
<1> DEFINE g == AtomOf(f)
           a == <<g.pred, Ground(g.terms, env)>>
<1>1. g \in Atomic /\ g.op = "atom"
  <2>1. CASE f \in Atomic
    BY <2>1 DEF AtomOf, Atomic
  <2>2. CASE f \notin Atomic
    <3>1. f.op = "not" /\ f.args \in Seq(Atomic) /\ Len(f.args) = 1
      BY <2>2 DEF EffectLiteral
    <3>2. f.args[1] \in Atomic
      BY <3>1
    <3> QED BY <3>1, <3>2 DEF AtomOf, Atomic
  <2> QED BY <2>1, <2>2
<1>2. g \in Formulas /\ IsLeaf(g)
  <2>1. g \in Trees[0]
    BY <1>1, TreesAt DEF Leaf
  <2>2. 0 \in Nat /\ 0 <= 6 * Depth
    BY DepthAssumption
  <2> QED BY <1>1, <2>1, <2>2, TreesAreFormulas DEF IsLeaf
<1>3. a \in GroundAtom /\ GroundLeaf(g, env) = a /\ VariableOf(g, env) = <<"variable", a[1], a[2]>>
  BY <1>1, <1>2, AtomGround DEF GroundLeaf, VariableOf
<1>6. \A b \in BOOLEAN : <<a, b>> \in GroundAtom \X BOOLEAN /\ ChangeFact(<<a, b>>) = <<<<"variable", a[1], a[2]>>, b>>
  <2> HIDE DEF a
  <2> QED BY <1>3 DEF ChangeFact
<1>4. CASE f.op = "not"
  <2>1. LiteralChange(f, env) = <<a, FALSE>>
    <3>1. (f.op # "not") = FALSE
      BY <1>4
    <3> QED BY <1>3, <3>1 DEF LiteralChange
  <2>2. LiteralFact(f, env) = <<<<"variable", a[1], a[2]>>, FALSE>>
    BY <1>3, <1>4 DEF LiteralFact, AtomOf
  <2> QED BY <1>3, <1>6, <2>1, <2>2
<1>5. CASE f.op # "not"
  <2>1. LiteralChange(f, env) = <<a, TRUE>>
    <3>1. (f.op # "not") = TRUE
      BY <1>5
    <3> QED BY <1>3, <3>1 DEF LiteralChange
  <2>2. LiteralFact(f, env) = <<<<"variable", a[1], a[2]>>, TRUE>>
    BY <1>3, <1>5 DEF LiteralFact, AtomOf
  <2> QED BY <1>3, <1>6, <2>1, <2>2
<1> QED BY <1>4, <1>5

\* Facts tell changes apart; those of a state say of each atom whether it is true.
LEMMA ChangeFacts ==
  /\ \A c, d \in GroundAtom \X BOOLEAN : ChangeFact(c) = ChangeFact(d) => c = d
  /\ \A S : \A c \in GroundAtom \X BOOLEAN : ChangeFact(c) \in VariableFacts(S) <=> (c[2] <=> c[1] \in S)
  /\ \A S : \A x \in VariableFacts(S) : \E c \in GroundAtom \X BOOLEAN : x = ChangeFact(c)
<1>1. ASSUME NEW c \in GroundAtom \X BOOLEAN, NEW d \in GroundAtom \X BOOLEAN, ChangeFact(c) = ChangeFact(d)
      PROVE  c = d
  <2>1. c[1][1] = d[1][1] /\ c[1][2] = d[1][2] /\ c[2] = d[2]
    BY <1>1 DEF ChangeFact
  <2>2. c[1] = <<c[1][1], c[1][2]>> /\ d[1] = <<d[1][1], d[1][2]>>
    BY GroundAtoms
  <2>3. c = <<c[1], c[2]>> /\ d = <<d[1], d[2]>>
    OBVIOUS
  <2> QED BY <2>1, <2>2, <2>3
<1>2. ASSUME NEW S, NEW a \in GroundAtom
      PROVE  <<a, a \in S>> \in GroundAtom \X BOOLEAN /\ ChangeFact(<<a, a \in S>>) = <<<<"variable", a[1], a[2]>>, a \in S>>
  <2>1. (a \in S) \in BOOLEAN
    OBVIOUS
  <2> QED BY <2>1 DEF ChangeFact
<1>3. ASSUME NEW S, NEW c \in GroundAtom \X BOOLEAN, ChangeFact(c) \in VariableFacts(S)
      PROVE  c[2] <=> c[1] \in S
  <2>1. PICK a \in GroundAtom : ChangeFact(c) = <<<<"variable", a[1], a[2]>>, a \in S>>
    BY <1>3 DEF VariableFacts
  <2> DEFINE d == <<a, a \in S>>
  <2>2. d \in GroundAtom \X BOOLEAN /\ ChangeFact(d) = ChangeFact(c)
    BY <1>2, <2>1
  <2>3. d[1] = a /\ d[2] = (a \in S)
    OBVIOUS
  <2> HIDE DEF d
  <2>4. c = d
    BY <1>1, <2>2
  <2> QED BY <2>3, <2>4
<1>4. ASSUME NEW S, NEW c \in GroundAtom \X BOOLEAN, c[2] <=> c[1] \in S
      PROVE  ChangeFact(c) \in VariableFacts(S)
  <2>1. c[2] = (c[1] \in S) /\ c[1] \in GroundAtom
    BY <1>4
  <2>2. ChangeFact(c) = <<<<"variable", c[1][1], c[1][2]>>, c[1] \in S>>
    BY <2>1 DEF ChangeFact
  <2> QED BY <2>1, <2>2 DEF VariableFacts
<1>5. ASSUME NEW S, NEW x \in VariableFacts(S) PROVE \E c \in GroundAtom \X BOOLEAN : x = ChangeFact(c)
  <2>1. PICK a \in GroundAtom : x = <<<<"variable", a[1], a[2]>>, a \in S>>
    BY DEF VariableFacts
  <2> DEFINE d == <<a, a \in S>>
  <2>2. d \in GroundAtom \X BOOLEAN /\ x = ChangeFact(d)
    BY <1>2, <2>1
  <2> HIDE DEF d
  <2> QED BY <2>2
<1> QED BY <1>1, <1>3, <1>4, <1>5

\* The body of the recursion in translateActions.
OutDef(p, g, i) == IF i = 0 THEN NoFacts ELSE translateAction(p[i], i, g[i - 1])
OutR == INSTANCE Recursion WITH Def <- OutDef

\* H is what has been printed after each of the actions.
Printing(acts, H) ==
  /\ translateActions(acts) = H[Len(acts)] /\ H[0] = NoFacts
  /\ \A i \in 1 .. Len(acts) : H[i] = translateAction(acts[i], i, H[i - 1])

\* translateActions, unfolded.
LEMMA PrintingAt ==
  ASSUME NEW acts, Len(acts) \in Nat
  PROVE  \E H : Printing(acts, H)
<1> DEFINE n == Len(acts)
           D == 0 .. n
           out == CHOOSE F : F = [i \in 0 .. n |-> IF i = 0 THEN NoFacts ELSE translateAction(acts[i], i, F[i - 1])]
           rank == [i \in D |-> i]
<1>1. n \in Nat /\ rank \in [D -> Nat]
  OBVIOUS
<1>2. translateActions(acts) = out[n]
  BY Zenon DEF translateActions
<1>3. OutR!Grounded(acts, D, rank)
  <2> SUFFICES ASSUME NEW i \in D, NEW g, NEW h, \A j \in D : rank[j] < rank[i] => g[j] = h[j]
               PROVE  OutDef(acts, g, i) = OutDef(acts, h, i)
    BY DEF OutR!Grounded
  <2>1. CASE i = 0
    BY <2>1 DEF OutDef
  <2>2. CASE i # 0
    <3>1. i - 1 \in D /\ rank[i - 1] < rank[i]
      BY <1>1, <2>2
    <3>2. g[i - 1] = h[i - 1]
      BY <3>1
    <3> QED BY <2>2, <3>2 DEF OutDef
  <2> QED BY <2>1, <2>2
<1>4. \E F : F = [i \in D |-> OutDef(acts, F, i)]
  <2> HIDE DEF D, rank
  <2> QED BY <1>1, <1>3, OutR!RecursiveFunction, LeastNatural
<1>5. out = [i \in 0 .. n |-> IF i = 0 THEN NoFacts ELSE translateAction(acts[i], i, out[i - 1])]
  <2>1. \E F : F = [i \in 0 .. n |-> IF i = 0 THEN NoFacts ELSE translateAction(acts[i], i, F[i - 1])]
    BY <1>4, Zenon DEF OutDef
  <2> HIDE DEF n
  <2> QED BY <2>1, Zenon
<1> HIDE DEF out
<1>6. out[0] = NoFacts /\ \A i \in 1 .. n : out[i] = translateAction(acts[i], i, out[i - 1])
  <2>1. \A i \in 0 .. n : out[i] = IF i = 0 THEN NoFacts ELSE translateAction(acts[i], i, out[i - 1])
    BY <1>5
  <2>2. 0 \in 0 .. n /\ \A i \in 1 .. n : i \in 0 .. n /\ i # 0
    BY <1>1
  <2> HIDE DEF n
  <2> QED BY <2>1, <2>2
<1> QED BY <1>2, <1>6, Zenon DEF Printing

\* What has been printed after the action i is what was printed for one up to it.
PrintedFor(acts, H, i) ==
  /\ \A x : x \in H[i].action <=> \E j \in 1 .. i : x \in {<<j, os>> : os \in Tuples(acts[j].parameters)}
  /\ \A x : x \in H[i].precondition <=> \E j \in 1 .. i : x \in PreconditionFacts(acts[j], j)
  /\ \A x : x \in H[i].postcondition <=> \E j \in 1 .. i : x \in PostconditionFacts(acts[j], j, H[j - 1])
  /\ \A x : x \in H[i].condition <=> \E j \in 1 .. i : x \in EffectConditionFacts(acts[j], H[j - 1])

\* So it is after each.
LEMMA EachPrinted ==
  ASSUME NEW acts, Len(acts) \in Nat, NEW H, Printing(acts, H)
  PROVE  \A i \in 0 .. Len(acts) : PrintedFor(acts, H, i)
<1> DEFINE n == Len(acts)
           D == 0 .. n
           S == {i \in D : PrintedFor(acts, H, i)}
           rank == [i \in D |-> i]
<1>1. H[0] = NoFacts /\ \A i \in 1 .. n : H[i] = translateAction(acts[i], i, H[i - 1])
  BY DEF Printing
<1>2. PrintedFor(acts, H, 0)
  <2>1. H[0].action = {} /\ H[0].precondition = {} /\ H[0].postcondition = {} /\ H[0].condition = {}
    BY <1>1 DEF NoFacts
  <2>2. \A j : j \notin 1 .. 0
    OBVIOUS
  <2> QED BY <2>1, <2>2 DEF PrintedFor
<1>3. ASSUME NEW i \in 1 .. n, PrintedFor(acts, H, i - 1) PROVE PrintedFor(acts, H, i)
  <2>1. /\ H[i].action = H[i - 1].action \cup {<<i, os>> : os \in Tuples(acts[i].parameters)}
        /\ H[i].precondition = H[i - 1].precondition \cup PreconditionFacts(acts[i], i)
        /\ H[i].postcondition = H[i - 1].postcondition \cup PostconditionFacts(acts[i], i, H[i - 1])
        /\ H[i].condition = H[i - 1].condition \cup EffectConditionFacts(acts[i], H[i - 1])
    <3>1. H[i] = translateAction(acts[i], i, H[i - 1])
      BY <1>1
    <3> QED BY <3>1 DEF translateAction
  <2>2. \A j : j \in 1 .. i <=> j \in 1 .. i - 1 \/ j = i
    OBVIOUS
  <2> HIDE DEF n
  <2> QED BY <1>3, <2>1, <2>2, Zenon DEF PrintedFor
<1>4. ASSUME NEW i \in D, \A j \in D : rank[j] < rank[i] => j \in S PROVE i \in S
  <2>1. CASE i = 0
    BY <1>2, <2>1
  <2>2. CASE i # 0
    <3>1. i - 1 \in D /\ rank[i - 1] < rank[i] /\ i \in 1 .. n
      BY <2>2
    <3>2. PrintedFor(acts, H, i - 1)
      BY <1>4, <3>1
    <3> QED BY <1>3, <3>1, <3>2
  <2> QED BY <2>1, <2>2
<1>5. D \subseteq S
  <2>1. rank \in [D -> Nat]
    OBVIOUS
  <2> HIDE DEF D, S, rank
  <2> QED BY <1>4, <2>1, RankInduction
<1> QED BY <1>5

-----------------------------------------------------------------------------
(***************************************************************************)
(* The invariant of the plan.                                              *)
(***************************************************************************)
\* What is printed is what was normalized, and at each time step the solver has
\* computed what follows from the atoms that are true.
AInv ==
  /\ stage \in {"domain", "done", "failed", "translated", "planning"}
  /\ Described
  /\ stage \in {"domain", "done", "failed"} => IInv
  /\ stage # "failed" => Len(domain.actions) = Len(actions)
  /\ stage \in {"translated", "planning"} => facts = Printed /\ output = translateActions(domain.actions)
  /\ stage = "planning" => holds = WithDerived(VariableFacts(AtomsTrue))

\* Deriving adds values of derived variables, and nothing else.
LEMMA OnlyDerived ==
  ASSUME facts = Printed, Described, NEW B
  PROVE  \A x : /\ x \in B => x \in WithDerived(B)
                /\ x \in WithDerived(B) => x \in B \/ x[1][1] = "derivedVariable"
<1> DEFINE n == Len(facts)
           D == 1 .. n + 1
           rank == [i \in D |-> n + 1 - i]
<1>1. n \in Nat /\ \A i \in 1 .. n : facts[i] = translateDerivedPredicate(Declared[i])
  <2>1. Len(Declared) \in Nat /\ DOMAIN Declared = 1 .. Len(Declared)
    BY DeclaredParts
  <2>2. facts = [i \in 1 .. Len(Declared) |-> translateDerivedPredicate(Declared[i])]
    BY <2>1 DEF Printed
  <2> QED BY <2>1, <2>2
<1> HIDE DEF n
<1>2. PICK H : Derivation(B, H)
  BY <1>1, WithDerivedAt DEF n
<1>3. WithDerived(B) = H[1] /\ H[n + 1] = B /\ \A i \in 1 .. n : H[i] = Derive(facts[i], H[i + 1])
  BY <1>2 DEF Derivation, n
<1> DEFINE S == {i \in D : \A x : (x \in B => x \in H[i]) /\ (x \in H[i] => x \in B \/ x[1][1] = "derivedVariable")}
<1>4. ASSUME NEW i \in D, \A j \in D : rank[j] < rank[i] => j \in S PROVE i \in S
  <2>1. CASE i = n + 1
    BY <1>3, <2>1
  <2>2. CASE i # n + 1
    <3>1. i + 1 \in D /\ rank[i + 1] < rank[i] /\ i \in 1 .. n
      BY <1>1, <2>2
    <3>2. \A x : /\ x \in B => x \in H[i + 1]
                 /\ x \in H[i + 1] => x \in B \/ x[1][1] = "derivedVariable"
      BY <1>4, <3>1
    <3>3. H[i] = Derive(translateDerivedPredicate(Declared[i]), H[i + 1])
      BY <1>1, <1>3, <3>1
    <3>4. ASSUME NEW x \in H[i] PROVE x \in B \/ x[1][1] = "derivedVariable"
      <4>1. x \in H[i + 1] \/ DerivedBy(Declared[i], H[i + 1], x) \/ Undecided(Declared[i], x)
        BY <3>3, DeriveAdds
      <4>2. DerivedBy(Declared[i], H[i + 1], x) => x[1][1] = "derivedVariable"
        BY DEF DerivedBy, DerivedVariable, VariableOf, Derived
      <4>3. Undecided(Declared[i], x) => x[1][1] = "derivedVariable"
        BY DEF Undecided
      <4> QED BY <3>2, <4>1, <4>2, <4>3
    <3>5. \A x \in B : x \in H[i]
      BY <3>2, <3>3, DeriveAdds
    <3> QED BY <3>4, <3>5
  <2> QED BY <2>1, <2>2
<1>5. D \subseteq S
  <2>1. rank \in [D -> Nat]
    BY <1>1
  <2> HIDE DEF D, S, rank
  <2> QED BY <1>4, <2>1, RankInduction
<1>6. 1 \in D
  BY <1>1
<1> QED BY <1>3, <1>5, <1>6

\* Every variable has one value, atom by atom.
LEMMA UniqueAtoms ==
  ASSUME NEW B
  PROVE  UniqueValues(B) <=> \A g \in GroundAtom : ChangeFact(<<g, TRUE>>) \in B <=> ChangeFact(<<g, FALSE>>) \notin B
<1>1. \A g \in GroundAtom : \A b : ChangeFact(<<g, b>>) = <<<<"variable", g[1], g[2]>>, b>>
  BY DEF ChangeFact
<1>2. ASSUME NEW x \in VariableFacts({})
      PROVE  \E g \in GroundAtom : x[1] = <<"variable", g[1], g[2]>>
  <2>1. PICK g \in GroundAtom : x = <<<<"variable", g[1], g[2]>>, g \in {}>>
    BY DEF VariableFacts
  <2> QED BY <2>1
<1>3. ASSUME NEW g \in GroundAtom
      PROVE  \E x \in VariableFacts({}) : x[1] = <<"variable", g[1], g[2]>>
  <2>1. <<<<"variable", g[1], g[2]>>, g \in {}>> \in VariableFacts({})
    BY DEF VariableFacts
  <2>2. <<<<"variable", g[1], g[2]>>, g \in {}>>[1] = <<"variable", g[1], g[2]>>
    OBVIOUS
  <2> QED BY <2>1, <2>2
<1>4. ASSUME UniqueValues(B), NEW g \in GroundAtom
      PROVE  ChangeFact(<<g, TRUE>>) \in B <=> ChangeFact(<<g, FALSE>>) \notin B
  <2>1. PICK x \in VariableFacts({}) : x[1] = <<"variable", g[1], g[2]>>
    BY <1>3
  <2>2. <<x[1], TRUE>> \in B <=> <<x[1], FALSE>> \notin B
    BY <1>4 DEF UniqueValues
  <2> QED BY <1>1, <2>1, <2>2
<1>5. ASSUME \A g \in GroundAtom : ChangeFact(<<g, TRUE>>) \in B <=> ChangeFact(<<g, FALSE>>) \notin B,
             NEW x \in VariableFacts({})
      PROVE  <<x[1], TRUE>> \in B <=> <<x[1], FALSE>> \notin B
  <2>1. PICK g \in GroundAtom : x[1] = <<"variable", g[1], g[2]>>
    BY <1>2
  <2> QED BY <1>1, <1>5, <2>1
<1> QED BY <1>4, <1>5 DEF UniqueValues

\* Facts of atoms with one value each are those of a state: of the atoms that are
\* true after the derived variables are added.
LEMMA ValuesOfState ==
  ASSUME facts = Printed, Described, NEW B, UniqueValues(B),
         \A x \in B : \E c \in GroundAtom \X BOOLEAN : x = ChangeFact(c), NEW T,
         T = {g \in GroundAtom : <<<<"variable", g[1], g[2]>>, TRUE>> \in WithDerived(B)}
  PROVE  B = VariableFacts(T) /\ \A g \in GroundAtom : g \in T <=> ChangeFact(<<g, TRUE>>) \in B
<1>1. ASSUME NEW g \in GroundAtom
      PROVE  g \in T <=> ChangeFact(<<g, TRUE>>) \in B
  <2> DEFINE x == <<<<"variable", g[1], g[2]>>, TRUE>>
  <2>1. ChangeFact(<<g, TRUE>>) = x /\ x[1][1] # "derivedVariable"
    BY DEF ChangeFact
  <2>2. g \in T <=> x \in WithDerived(B)
    OBVIOUS
  <2> HIDE DEF x
  <2>3. x \in WithDerived(B) <=> x \in B
    BY <2>1, OnlyDerived
  <2> QED BY <2>1, <2>2, <2>3
<1>2. ASSUME NEW c \in GroundAtom \X BOOLEAN PROVE ChangeFact(c) \in B <=> ChangeFact(c) \in VariableFacts(T)
  <2>1. PICK g \in GroundAtom, b \in BOOLEAN : c = <<g, b>>
    OBVIOUS
  <2>2. ChangeFact(<<g, TRUE>>) \in B <=> ChangeFact(<<g, FALSE>>) \notin B
    BY UniqueAtoms
  <2>3. ChangeFact(c) \in VariableFacts(T) <=> (c[2] <=> c[1] \in T)
    BY ChangeFacts
  <2>4. c[1] = g /\ c[2] = b
    BY <2>1
  <2>5. CASE b = TRUE
    BY <1>1, <2>1, <2>3, <2>4, <2>5
  <2>6. CASE b = FALSE
    BY <1>1, <2>1, <2>2, <2>3, <2>4, <2>6
  <2> QED BY <2>5, <2>6
<1>3. \A x \in VariableFacts(T) : \E c \in GroundAtom \X BOOLEAN : x = ChangeFact(c)
  BY ChangeFacts
<1>4. \A x : x \in B <=> x \in VariableFacts(T)
  BY <1>2, <1>3
<1> QED BY <1>1, <1>4

\* The solver knows of each atom whether it is true.
LEMMA Known ==
  ASSUME AInv, stage = "planning", NEW c \in GroundAtom \X BOOLEAN
  PROVE  ChangeFact(c) \in holds <=> (c[2] <=> c[1] \in AtomsTrue)
<1> DEFINE B == VariableFacts(AtomsTrue)
<1>1. facts = Printed /\ Described /\ holds = WithDerived(B)
  BY DEF AInv
<1>2. ChangeFact(c)[1][1] # "derivedVariable"
  BY DEF ChangeFact
<1>3. ChangeFact(c) \in B <=> (c[2] <=> c[1] \in AtomsTrue)
  BY ChangeFacts
<1> HIDE DEF B
<1>4. ChangeFact(c) \in holds <=> ChangeFact(c) \in B
  BY <1>1, <1>2, OnlyDerived
<1> QED BY <1>3, <1>4

\* What an action causes, and otherwise what was so before, is so after it.
LEMMA InertiaValues ==
  ASSUME AInv, stage = "planning", NEW a, NEW C \in SUBSET (GroundAtom \X BOOLEAN),
         caused(a) = {ChangeFact(c) : c \in C}
  PROVE  /\ \A x \in Inertia(a) : \E c \in GroundAtom \X BOOLEAN : x = ChangeFact(c)
         /\ \A c \in GroundAtom \X BOOLEAN :
              ChangeFact(c) \in Inertia(a) <=>
                \/ c \in C
                \/ (c[2] <=> c[1] \in AtomsTrue) /\ \A b \in BOOLEAN : <<c[1], b>> \notin C
<1> DEFINE B == VariableFacts(AtomsTrue)
<1>1. facts = Printed /\ Described /\ holds = WithDerived(B)
  BY DEF AInv
<1>2. \A x \in B : \E c \in GroundAtom \X BOOLEAN : x = ChangeFact(c)
  BY ChangeFacts
<1> HIDE DEF B
<1>3. ASSUME NEW x \in Inertia(a) PROVE \E c \in GroundAtom \X BOOLEAN : x = ChangeFact(c)
  <2>1. CASE x \in caused(a)
    BY <2>1
  <2>2. CASE x \notin caused(a)
    <3>1. x \in holds /\ x[1][1] = "variable"
      BY <2>2 DEF Inertia
    <3>2. x \in B
      BY <1>1, <3>1, OnlyDerived
    <3> QED BY <1>2, <3>2
  <2> QED BY <2>1, <2>2
<1>4. ASSUME NEW c \in GroundAtom \X BOOLEAN PROVE ChangeFact(c) \in caused(a) <=> c \in C
  <2>1. ASSUME ChangeFact(c) \in caused(a) PROVE c \in C
    <3>1. PICK d \in C : ChangeFact(c) = ChangeFact(d)
      BY <2>1
    <3>2. c = d
      BY <3>1, ChangeFacts
    <3> QED BY <3>2
  <2> QED BY <2>1
<1>5. ASSUME NEW c \in GroundAtom \X BOOLEAN
      PROVE  ChangeFact(c) \in Inertia(a) <=>
                \/ c \in C
                \/ (c[2] <=> c[1] \in AtomsTrue) /\ \A b \in BOOLEAN : <<c[1], b>> \notin C
  <2> DEFINE x == ChangeFact(c)
  <2>1. ASSUME NEW b \in BOOLEAN PROVE <<x[1], b>> \in caused(a) <=> <<c[1], b>> \in C
    <3> DEFINE d == <<c[1], b>>
    <3>1. d \in GroundAtom \X BOOLEAN /\ d[1] = c[1] /\ d[2] = b
      OBVIOUS
    <3>2. ChangeFact(d) = <<x[1], b>>
      BY <3>1 DEF ChangeFact
    <3> HIDE DEF d, x
    <3>3. <<x[1], b>> \in caused(a) <=> d \in C
      BY <1>4, <3>1, <3>2
    <3> QED BY <3>3 DEF d
  <2>2. x[1][1] = "variable"
    BY DEF ChangeFact
  <2>3. x \in holds <=> (c[2] <=> c[1] \in AtomsTrue)
    BY Known
  <2>4. x \in caused(a) <=> c \in C
    BY <1>4
  <2> HIDE DEF x
  <2>5. x \in Inertia(a) <=> \/ x \in caused(a)
                             \/ x \in holds /\ x[1][1] = "variable" /\ \A b \in BOOLEAN : <<x[1], b>> \notin caused(a)
    BY DEF Inertia
  <2>6. x \in Inertia(a) <=> \/ c \in C
                             \/ (c[2] <=> c[1] \in AtomsTrue) /\ \A b \in BOOLEAN : <<c[1], b>> \notin C
    BY <2>1, <2>2, <2>3, <2>4, <2>5
  <2> QED BY <2>6 DEF x
<1> QED BY <1>3, <1>5

-----------------------------------------------------------------------------
(***************************************************************************)
(* What an action causes is what its effects set.                          *)
(***************************************************************************)
\* The facts for one action, one by one.
LEMMA InPostconditions ==
  ASSUME NEW action, NEW i, NEW out, NEW p
  PROVE  LET placed == PlacedEffects(action)
         IN  p \in PostconditionFacts(action, i, out) <=>
               \E k \in DOMAIN placed : \E os \in Tuples(action.parameters) :
                 \E env \in placed[k].scope[ParameterBinding(action, os)] : \E f \in Postconditions(placed[k]) :
                   p = <<<<i, os>>, EffectNumber(placed, k, out), LiteralFact(f, env)>>
<1> DEFINE placed == PlacedEffects(action)
           At(k, os) == placed[k].scope[ParameterBinding(action, os)]
           Facts(k, os) == {<<<<i, os>>, EffectNumber(placed, k, out), LiteralFact(f, env)>> :
                              f \in Postconditions(placed[k]), env \in At(k, os)}
<1>1. PostconditionFacts(action, i, out) = UNION {Facts(k, os) : k \in DOMAIN placed, os \in Tuples(action.parameters)}
  BY DEF PostconditionFacts
<1>2. \A k, os : p \in Facts(k, os) <=>
        \E env \in At(k, os) : \E f \in Postconditions(placed[k]) :
          p = <<<<i, os>>, EffectNumber(placed, k, out), LiteralFact(f, env)>>
  OBVIOUS
<1> HIDE DEF placed, Facts, At
<1>3. p \in PostconditionFacts(action, i, out) <=>
        \E k \in DOMAIN placed : \E os \in Tuples(action.parameters) : p \in Facts(k, os)
  BY <1>1
<1> QED BY <1>2, <1>3 DEF placed, At

LEMMA InEffectConditions ==
  ASSUME NEW action, NEW out, NEW p
  PROVE  LET placed == PlacedEffects(action)
         IN  p \in EffectConditionFacts(action, out) <=>
               \E k \in DOMAIN placed : \E os \in Tuples(action.parameters) :
                 \E env \in placed[k].scope[ParameterBinding(action, os)] :
                   /\ placed[k].effect.op = "when"
                   /\ \E x \in ConditionFacts(placed[k].effect.condition, env) : p = <<EffectNumber(placed, k, out), x>>
<1> DEFINE placed == PlacedEffects(action)
           At(k, os) == placed[k].scope[ParameterBinding(action, os)]
           K == {j \in DOMAIN placed : placed[j].effect.op = "when"}
           Conds(k, os) == UNION {ConditionFacts(placed[k].effect.condition, env) : env \in At(k, os)}
           Facts(k, os) == {<<EffectNumber(placed, k, out), x>> : x \in Conds(k, os)}
<1>1. EffectConditionFacts(action, out) = UNION {Facts(k, os) : k \in K, os \in Tuples(action.parameters)}
  BY DEF EffectConditionFacts
<1>2. \A k, os : p \in Facts(k, os) <=>
        \E env \in At(k, os) : \E x \in ConditionFacts(placed[k].effect.condition, env) :
          p = <<EffectNumber(placed, k, out), x>>
  <2> TAKE k, os
  <2>1. p \in Facts(k, os) <=> \E x \in Conds(k, os) : p = <<EffectNumber(placed, k, out), x>>
    OBVIOUS
  <2>2. \A x : x \in Conds(k, os) <=> \E env \in At(k, os) : x \in ConditionFacts(placed[k].effect.condition, env)
    OBVIOUS
  <2> HIDE DEF Facts, Conds, At, placed
  <2> QED BY <2>1, <2>2
<1>3. \A k : k \in K <=> k \in DOMAIN placed /\ placed[k].effect.op = "when"
  OBVIOUS
<1> HIDE DEF placed, Facts, At, K
<1>4. p \in EffectConditionFacts(action, out) <=>
        \E k \in K : \E os \in Tuples(action.parameters) : p \in Facts(k, os)
  BY <1>1
<1> QED BY <1>2, <1>3, <1>4 DEF placed, At

\* What an action of the description changes in the state: what its placed effects set.
SourceChanges(a, os) == UNION {Changes(AtomsTrue)[e][ParameterBinding(a, os)] : e \in Range(a.effect)}

LEMMA ActionChangesAt ==
  ASSUME NEW a \in Actions, NEW os, ParameterBinding(a, os) \in Environments
  PROVE  \A c : c \in SourceChanges(a, os) <=> SetsWithin(PlacedEffects(a), ParameterBinding(a, os), AtomsTrue, c)
<1> TAKE c
<1> DEFINE es == a.effect
           n == Len(es)
           env == ParameterBinding(a, os)
           ss == [i \in DOMAIN es |-> Placed[es[i]]]
<1>1. es \in Seq(Effects)
  <2>1. a \in [parameters : Seq(Var), precondition : Seq(Conditions), effect : Seq(SourceEffects)]
    BY InputAssumption
  <2>2. es \in Seq(SourceEffects) /\ SourceEffects \subseteq Effects
    BY <2>1, SourceParts
  <2> HIDE DEF es
  <2> QED BY <2>2
<1>2. PlacedEffects(a) = FlattenSeq(ss)
  BY DEF PlacedEffects
<1>3. c \in SourceChanges(a, os) <=> \E e \in Range(es) : c \in Changes(AtomsTrue)[e][env]
  BY DEF SourceChanges
<1> HIDE DEF es
<1>4. n \in Nat /\ DOMAIN es = 1 .. n /\ \A i \in 1 .. n : es[i] \in Effects
  BY <1>1
<1>5. ss = [i \in 1 .. n |-> ss[i]] /\ \A i \in 1 .. n : ss[i] = Placed[es[i]]
  BY <1>4
<1> HIDE DEF ss, n, env
<1>6. Len(ss) = n /\ (n = 0 => ss = <<>>)
  <2>1. Len(ss) = n
    BY <1>4, <1>5, LengthOf
  <2>2. ASSUME n = 0 PROVE ss = <<>>
    BY <1>5, <2>2
  <2> QED BY <2>1, <2>2
<1>7. \A i \in 1 .. n : PlacedChanges(es[i], AtomsTrue)
  BY <1>4, EffectChanges
<1>8. \A i \in 1 .. n : ss[i] \in Seq(Places)
  BY <1>5, <1>7 DEF PlacedChanges
<1>9. \A p : p \in Range(PlacedEffects(a)) <=> \E i \in 1 .. n : p \in Range(Placed[es[i]])
  BY <1>2, <1>4, <1>5, <1>6, <1>8, InFlattened
<1>10. c \in SourceChanges(a, os) <=> \E i \in 1 .. n : c \in Changes(AtomsTrue)[es[i]][env]
  BY <1>3, <1>4 DEF Range
<1>11. env \in Environments
  BY DEF env
<1>12. \A i \in 1 .. n : c \in Changes(AtomsTrue)[es[i]][env] <=> SetsWithin(Placed[es[i]], env, AtomsTrue, c)
  BY <1>7, <1>11 DEF PlacedChanges
<1>13. c \in SourceChanges(a, os) <=> \E i \in 1 .. n : SetsWithin(Placed[es[i]], env, AtomsTrue, c)
  BY <1>10, <1>12
<1> QED BY <1>9, <1>13 DEF SetsWithin, env

\* An action that occurs, with its source.
ActionAt(i, os) == i \in DOMAIN actions /\ os \in Tuples(actions[i].parameters)

LEMMA ActionParts ==
  ASSUME AInv, stage = "planning", NEW i, NEW os, ActionAt(i, os)
  PROVE  /\ i \in 1 .. Len(domain.actions) /\ actions[i] \in Actions /\ actions[i].parameters \in Seq(Var)
         /\ ActionPaired(actions[i], domain.actions[i], Pairs(DomainStart, DomainContext))
         /\ ParameterBinding(domain.actions[i], os) = ParameterBinding(actions[i], os)
         /\ ParameterBinding(actions[i], os) \in Environments
         /\ NoBinding \in Environments
<1>1. Described /\ Len(domain.actions) = Len(actions) /\ actions \in Seq(Actions)
  BY DEF AInv, Described
<1>2. i \in 1 .. Len(actions) /\ actions[i] \in Actions /\ i \in 1 .. Len(domain.actions)
  BY <1>1 DEF ActionAt
<1>3. ActionPaired(actions[i], domain.actions[i], Pairs(DomainStart, DomainContext))
  BY <1>1, <1>2 DEF Described
<1>4. domain.actions[i].parameters = actions[i].parameters
  BY <1>3 DEF ActionPaired
<1>5. actions[i].parameters \in Seq(Var)
  BY <1>2, InputAssumption
<1>6. NoBinding \in Environments
  <2>1. (CHOOSE o \in Object : TRUE) \in Object
    BY ObjectAssumption
  <2> QED BY <2>1 DEF NoBinding, Environments
<1>7. ParameterBinding(actions[i], os) \in Environments
  BY <1>5, <1>6, BindType DEF ParameterBinding, ActionAt
<1>8. ParameterBinding(domain.actions[i], os) = ParameterBinding(actions[i], os)
  BY <1>4 DEF ParameterBinding
<1> QED BY <1>2, <1>3, <1>5, <1>6, <1>7, <1>8

\* The facts an action causes, by the placed effects they come from.
CausedBy(H, i, os, x) ==
  LET placed == PlacedEffects(domain.actions[i])
  IN  \E k \in DOMAIN placed : \E env \in placed[k].scope[ParameterBinding(actions[i], os)] :
        \E f \in Postconditions(placed[k]) :
          /\ x = LiteralFact(f, env)
          /\ \A c \in output.condition : c[1] = EffectNumber(placed, k, H[i - 1]) => c[2] \in holds

LEMMA CausedFacts ==
  ASSUME AInv, stage = "planning", NEW i, NEW os, ActionAt(i, os), NEW H, Printing(domain.actions, H), NEW x
  PROVE  x \in caused(<<i, os>>) <=> CausedBy(H, i, os, x)
<1> DEFINE acts == domain.actions
           n == Len(acts)
           placed == PlacedEffects(acts[i])
           N(k) == EffectNumber(placed, k, H[i - 1])
           Applied(m) == \A c \in output.condition : c[1] = m => c[2] \in holds
           env0 == ParameterBinding(actions[i], os)
           Post == output.postcondition
<1>1. n \in Nat /\ output = H[n] /\ i \in 1 .. n /\ domain.actions[i].parameters = actions[i].parameters
  <2>1. domain.actions \in Seq(NormalizedActions) /\ output = translateActions(domain.actions)
    BY DEF AInv, Described
  <2>2. ActionPaired(actions[i], domain.actions[i], Pairs(DomainStart, DomainContext)) /\ i \in 1 .. n
    BY ActionParts
  <2> QED BY <2>1, <2>2 DEF Printing, ActionPaired
<1>2. \A p : p \in Post <=> \E j \in 1 .. n : p \in PostconditionFacts(acts[j], j, H[j - 1])
  <2>1. n \in 0 .. n
    BY <1>1
  <2>2. PrintedFor(acts, H, n)
    BY <1>1, <2>1, EachPrinted
  <2> QED BY <1>1, <2>2 DEF PrintedFor
<1>3. x \in caused(<<i, os>>) <=> \E p \in Post : p[1] = <<i, os>> /\ p[3] = x /\ Applied(p[2])
  BY DEF caused
<1>4. ParameterBinding(acts[i], os) = env0
  BY ActionParts
<1> HIDE DEF n, Post, Applied
<1>5. ASSUME NEW p \in Post, p[1] = <<i, os>>, p[3] = x, Applied(p[2])
      PROVE  \E k \in DOMAIN placed : \E env \in placed[k].scope[env0] : \E f \in Postconditions(placed[k]) :
               x = LiteralFact(f, env) /\ Applied(N(k))
  <2>1. PICK j \in 1 .. n : p \in PostconditionFacts(acts[j], j, H[j - 1])
    BY <1>2
  <2>2. PICK k \in DOMAIN PlacedEffects(acts[j]), us \in Tuples(acts[j].parameters) :
               \E env \in PlacedEffects(acts[j])[k].scope[ParameterBinding(acts[j], us)] :
                 \E f \in Postconditions(PlacedEffects(acts[j])[k]) :
                   p = <<<<j, us>>, EffectNumber(PlacedEffects(acts[j]), k, H[j - 1]), LiteralFact(f, env)>>
    BY <2>1, InPostconditions
  <2>3. j = i /\ us = os
    BY <1>5, <2>2
  <2>4. PICK env \in placed[k].scope[env0] : \E f \in Postconditions(placed[k]) :
               p = <<<<i, os>>, N(k), LiteralFact(f, env)>>
    BY <1>4, <2>2, <2>3
  <2>5. PICK f \in Postconditions(placed[k]) : p = <<<<i, os>>, N(k), LiteralFact(f, env)>>
    BY <2>4
  <2>6. p[2] = N(k) /\ p[3] = LiteralFact(f, env)
    BY <2>5
  <2>7. k \in DOMAIN placed
    BY <2>2, <2>3
  <2> QED BY <1>5, <2>6, <2>7
<1>6. ASSUME NEW k \in DOMAIN placed, NEW env \in placed[k].scope[env0], NEW f \in Postconditions(placed[k]),
             x = LiteralFact(f, env), Applied(N(k))
      PROVE  \E p \in Post : p[1] = <<i, os>> /\ p[3] = x /\ Applied(p[2])
  <2> DEFINE p == <<<<i, os>>, N(k), LiteralFact(f, env)>>
  <2>1. os \in Tuples(acts[i].parameters)
    BY <1>1 DEF ActionAt
  <2>2. p \in PostconditionFacts(acts[i], i, H[i - 1])
    BY <1>4, <2>1, InPostconditions
  <2>3. p \in Post
    BY <1>1, <1>2, <2>2
  <2>4. p[1] = <<i, os>> /\ p[2] = N(k) /\ p[3] = LiteralFact(f, env)
    OBVIOUS
  <2> HIDE DEF p
  <2> QED BY <1>6, <2>3, <2>4
<1> HIDE DEF placed, N, env0
<1>7. x \in caused(<<i, os>>) <=>
        \E k \in DOMAIN placed : \E env \in placed[k].scope[env0] : \E f \in Postconditions(placed[k]) :
          x = LiteralFact(f, env) /\ Applied(N(k))
  BY <1>3, <1>5, <1>6, Zenon
<1> QED BY <1>7, Zenon DEF placed, N, env0, Applied, CausedBy

\* An effect placed in an action and in what it was normalized to.
LEMMA PlacedTwins ==
  ASSUME AInv, stage = "planning", NEW i, NEW os, ActionAt(i, os)
  PROVE  LET s == PlacedEffects(actions[i])
             t == PlacedEffects(domain.actions[i])
         IN  /\ DOMAIN s = DOMAIN t
             /\ \A k \in DOMAIN t : /\ s[k] \in Places /\ t[k] \in Places /\ s[k].scope = t[k].scope
                                    /\ s[k].effect.op = t[k].effect.op /\ Postconditions(s[k]) = Postconditions(t[k])
                                    /\ Postconditions(s[k]) \subseteq EffectLiteral
                                    /\ s[k].effect.op = "when" =>
                                         /\ s[k].effect.condition \in Conditions /\ t[k].effect.condition \in Formulas
                                         /\ Translated(s[k].effect.condition, t[k].effect.condition,
                                                       DomainStart, DomainContext)
<1> DEFINE s == PlacedEffects(actions[i])
           t == PlacedEffects(domain.actions[i])
           W == Pairs(DomainStart, DomainContext)
<1>1. Paired(s, t, Places, Places, Twins(W))
  BY ActionParts DEF ActionPaired
<1> HIDE DEF s, t
<1>2. /\ DOMAIN s = DOMAIN t /\ DOMAIN t = 1 .. Len(t)
      /\ \A k \in DOMAIN t : s[k] \in Places /\ t[k] \in Places /\ <<s[k], t[k]>> \in Twins(W)
  BY <1>1 DEF Paired
<1>3. ASSUME NEW p \in Places, NEW q \in Places, <<p, q>> \in Twins(W)
      PROVE  /\ p.scope = q.scope /\ p.effect.op = q.effect.op /\ Postconditions(p) = Postconditions(q)
             /\ Postconditions(p) \subseteq EffectLiteral
             /\ p.effect.op = "when" => /\ p.effect.condition \in Conditions /\ q.effect.condition \in Formulas
                                        /\ Translated(p.effect.condition, q.effect.condition, DomainStart, DomainContext)
  <2>1. p.effect \in EffectLeaf(Formulas)
    BY DEF Places
  <2>2. p.scope = q.scope
    BY <1>3 DEF Twins
  <2>3. CASE p.effect.op # "when"
    <3>1. p.effect = q.effect
      BY <1>3, <2>3 DEF Twins
    <3>2. p.effect \in EffectLiteral
      BY <2>1, <2>3, EffectParts
    <3> QED BY <2>2, <2>3, <3>1, <3>2 DEF Postconditions
  <2>4. CASE p.effect.op = "when"
    <3>1. q.effect.op = "when" /\ p.effect.args = q.effect.args /\ <<p.effect.condition, q.effect.condition>> \in W
      BY <1>3, <2>4 DEF Twins
    <3>2. p.effect.args \in Seq(EffectLiteral)
      BY <2>1, <2>4, EffectParts
    <3>3. /\ p.effect.condition \in Conditions /\ q.effect.condition \in Formulas
          /\ Translated(p.effect.condition, q.effect.condition, DomainStart, DomainContext)
      BY <3>1 DEF Pairs
    <3>4. Range(p.effect.args) \subseteq EffectLiteral
      BY <3>2 DEF Range
    <3> QED BY <2>2, <2>4, <3>1, <3>3, <3>4 DEF Postconditions
  <2> QED BY <2>3, <2>4
<1> HIDE DEF W
<1>4. \A k \in DOMAIN t : /\ s[k] \in Places /\ t[k] \in Places /\ s[k].scope = t[k].scope
                          /\ s[k].effect.op = t[k].effect.op /\ Postconditions(s[k]) = Postconditions(t[k])
                          /\ Postconditions(s[k]) \subseteq EffectLiteral
                          /\ s[k].effect.op = "when" =>
                               /\ s[k].effect.condition \in Conditions /\ t[k].effect.condition \in Formulas
                               /\ Translated(s[k].effect.condition, t[k].effect.condition, DomainStart, DomainContext)
  <2> TAKE k \in DOMAIN t
  <2>1. s[k] \in Places /\ t[k] \in Places /\ <<s[k], t[k]>> \in Twins(W)
    BY <1>2
  <2> QED BY <1>3, <2>1
<1> QED BY <1>2, <1>4 DEF s, t

\* The solver has computed what follows from the atoms that are true.
LEMMA PlanSolved == AInv /\ stage = "planning" => Solved(AtomsTrue)
<1> SUFFICES ASSUME AInv, stage = "planning" PROVE Solved(AtomsTrue)
  OBVIOUS
<1>1. \A a \in AtomsTrue : Len(a) = 2
  <2> TAKE a \in AtomsTrue
  <2>1. a = <<a[1], a[2]>>
    BY GroundAtoms DEF AtomsTrue
  <2>2. Len(<<a[1], a[2]>>) = 2
    OBVIOUS
  <2> QED BY <2>1, <2>2
<1> QED BY <1>1 DEF AInv, Solved, Ground2

\* What an action changes in the description.
LEMMA InSourceChanges ==
  ASSUME AInv, stage = "planning", NEW i, NEW os, ActionAt(i, os)
  PROVE  LET s == PlacedEffects(actions[i])
         IN  /\ \A c : c \in SourceChanges(actions[i], os) <=>
                  \E k \in DOMAIN s : \E env \in s[k].scope[ParameterBinding(actions[i], os)] :
                    /\ env \in Environments
                    /\ s[k].effect.op = "when" => True(s[k].effect.condition, env, AtomsTrue)
                    /\ \E f \in Postconditions(s[k]) : c = LiteralChange(f, env)
             /\ SourceChanges(actions[i], os) \subseteq GroundAtom \X BOOLEAN
<1> DEFINE s == PlacedEffects(actions[i])
           env0 == ParameterBinding(actions[i], os)
           C == SourceChanges(actions[i], os)
<1>1. actions[i] \in Actions /\ env0 \in Environments
  BY ActionParts
<1>2. \A c : c \in C <=> SetsWithin(s, env0, AtomsTrue, c)
  BY <1>1, ActionChangesAt
<1>3. \A k \in DOMAIN s : s[k] \in Places /\ Postconditions(s[k]) \subseteq EffectLiteral
  BY PlacedTwins
<1> HIDE DEF s, env0, C
<1>4. \A k \in DOMAIN s : \A env \in s[k].scope[env0] : env \in Environments
  BY <1>1, <1>3 DEF Places, env0
<1>5. ASSUME NEW c
      PROVE  c \in C <=> \E k \in DOMAIN s : \E env \in s[k].scope[env0] :
                           /\ env \in Environments
                           /\ s[k].effect.op = "when" => True(s[k].effect.condition, env, AtomsTrue)
                           /\ \E f \in Postconditions(s[k]) : c = LiteralChange(f, env)
  <2>1. c \in C <=> \E k \in DOMAIN s : \E env \in s[k].scope[env0] : Sets(s[k], env, AtomsTrue, c)
    BY <1>2 DEF SetsWithin, Range
  <2> QED BY <1>4, <2>1 DEF Sets
<1>6. \A c \in C : c \in GroundAtom \X BOOLEAN
  BY <1>3, <1>5, LiteralFacts
<1> QED BY <1>5, <1>6 DEF s, env0, C

\* A fact an action causes says what its effects set.
LEMMA CausedSound ==
  ASSUME AInv, stage = "planning", NEW i, NEW os, ActionAt(i, os), NEW x \in caused(<<i, os>>)
  PROVE  \E c \in SourceChanges(actions[i], os) : x = ChangeFact(c)
<1> DEFINE s == PlacedEffects(actions[i])
           t == PlacedEffects(domain.actions[i])
           env0 == ParameterBinding(actions[i], os)
<1>1. Len(domain.actions) \in Nat /\ i \in 1 .. Len(domain.actions) /\ output = translateActions(domain.actions)
  BY ActionParts DEF AInv, Described
<1>2. PICK H : Printing(domain.actions, H)
  BY <1>1, PrintingAt
<1>3. PICK k \in DOMAIN t : \E env \in t[k].scope[env0] : \E f \in Postconditions(t[k]) :
             /\ x = LiteralFact(f, env)
             /\ \A c \in output.condition : c[1] = EffectNumber(t, k, H[i - 1]) => c[2] \in holds
  BY <1>2, CausedFacts DEF CausedBy
<1>4. PICK env \in t[k].scope[env0], f \in Postconditions(t[k]) :
             /\ x = LiteralFact(f, env)
             /\ \A c \in output.condition : c[1] = EffectNumber(t, k, H[i - 1]) => c[2] \in holds
  BY <1>3
<1>5. /\ DOMAIN s = DOMAIN t /\ k \in DOMAIN s /\ t[k] \in Places /\ s[k].scope = t[k].scope
      /\ s[k].effect.op = t[k].effect.op /\ f \in Postconditions(s[k]) /\ f \in EffectLiteral
      /\ s[k].effect.op = "when" =>
           /\ s[k].effect.condition \in Conditions /\ t[k].effect.condition \in Formulas
           /\ Translated(s[k].effect.condition, t[k].effect.condition, DomainStart, DomainContext)
  BY PlacedTwins
<1>6. /\ env0 \in Environments /\ env \in Environments /\ os \in Tuples(domain.actions[i].parameters)
      /\ ParameterBinding(domain.actions[i], os) = env0
  <2>1. env0 \in Environments /\ domain.actions[i].parameters = actions[i].parameters
        /\ ParameterBinding(domain.actions[i], os) = env0
    BY ActionParts DEF ActionPaired
  <2> HIDE DEF env0, t
  <2>2. t[k].scope[env0] \subseteq Environments
    BY <1>5, <2>1 DEF Places
  <2> QED BY <2>1, <2>2 DEF ActionAt
<1>7. ASSUME s[k].effect.op = "when" PROVE True(s[k].effect.condition, env, AtomsTrue)
  <2> DEFINE g == t[k].effect.condition
             m == EffectNumber(t, k, H[i - 1])
  <2>1. ASSUME NEW y \in ConditionFacts(g, env) PROVE y \in holds
    <3> DEFINE p == <<m, y>>
    <3>1. p \in EffectConditionFacts(domain.actions[i], H[i - 1])
      BY <1>5, <1>6, <1>7, InEffectConditions
    <3>2. output = H[Len(domain.actions)] /\ PrintedFor(domain.actions, H, Len(domain.actions))
      <4>1. Len(domain.actions) \in 0 .. Len(domain.actions)
        BY <1>1
      <4> QED BY <1>1, <1>2, <4>1, EachPrinted DEF Printing
    <3>3. p \in output.condition
      BY <1>1, <3>1, <3>2 DEF PrintedFor
    <3>4. p[1] = m /\ p[2] = y
      OBVIOUS
    <3> HIDE DEF p, m, g
    <3> QED BY <1>4, <3>3, <3>4 DEF m
  <2>2. Accepted(g, env)
    BY <2>1 DEF Accepted
  <2> QED BY <1>5, <1>6, <1>7, <2>2, PlanSolved, AcceptedTrue
<1> DEFINE c == LiteralChange(f, env)
<1>8. x = ChangeFact(c)
  BY <1>4, <1>5, <1>6, LiteralFacts
<1>9. c \in SourceChanges(actions[i], os)
  BY <1>5, <1>6, <1>7, InSourceChanges
<1> QED BY <1>8, <1>9

\* The facts an action causes, as changes.
LEMMA CausedChanges ==
  ASSUME AInv, stage = "planning", NEW i, NEW os, ActionAt(i, os)
  PROVE  \E C \in SUBSET (GroundAtom \X BOOLEAN) :
           C \subseteq SourceChanges(actions[i], os) /\ caused(<<i, os>>) = {ChangeFact(c) : c \in C}
<1> DEFINE S == SourceChanges(actions[i], os)
           C == {c \in S : ChangeFact(c) \in caused(<<i, os>>)}
<1>1. S \subseteq GroundAtom \X BOOLEAN
  BY InSourceChanges
<1>2. \A x \in caused(<<i, os>>) : \E c \in S : x = ChangeFact(c)
  BY CausedSound
<1> HIDE DEF S
<1>3. caused(<<i, os>>) = {ChangeFact(c) : c \in C}
  BY <1>2
<1> QED BY <1>1, <1>3 DEF S

-----------------------------------------------------------------------------
\* The ground actions that are printed are those of the description.
LEMMA PrintedActions ==
  ASSUME AInv, stage = "planning", NEW a \in output.action
  PROVE  \E i, os : ActionAt(i, os) /\ a = <<i, os>>
<1> DEFINE acts == domain.actions
           n == Len(acts)
<1>1. /\ Described /\ Len(acts) = Len(actions) /\ n \in Nat /\ output = translateActions(acts)
      /\ actions \in Seq(Actions)
  BY DEF AInv, Described
<1>2. PICK H : Printing(acts, H)
  BY <1>1, PrintingAt
<1>3. PrintedFor(acts, H, n) /\ output = H[n]
  <2>1. n \in 0 .. n
    BY <1>1
  <2> QED BY <1>1, <1>2, <2>1, EachPrinted DEF Printing
<1>4. PICK j \in 1 .. n : a \in {<<j, os>> : os \in Tuples(acts[j].parameters)}
  BY <1>3 DEF PrintedFor
<1>5. PICK os \in Tuples(acts[j].parameters) : a = <<j, os>>
  BY <1>4
<1>6. ActionPaired(actions[j], acts[j], Pairs(DomainStart, DomainContext))
  BY <1>1, <1>4 DEF Described
<1>7. acts[j].parameters = actions[j].parameters /\ j \in DOMAIN actions
  BY <1>1, <1>4, <1>6 DEF ActionPaired
<1> QED BY <1>5, <1>7 DEF ActionAt

\* The initial facts are about ground atoms.
LEMMA InitialChanges ==
  ASSUME NEW literals \in InitialStates
  PROVE  /\ NoBinding \in Environments /\ literals \subseteq EffectLiteral
         /\ \A x \in InitialFacts(literals) : \E c \in GroundAtom \X BOOLEAN : x = ChangeFact(c)
<1> DEFINE stated == {LiteralFact(f, NoBinding) : f \in literals}
<1>1. NoBinding \in Environments
  <2>1. (CHOOSE o \in Object : TRUE) \in Object
    BY ObjectAssumption
  <2> QED BY <2>1 DEF NoBinding, Environments
<1>2. literals \subseteq EffectLiteral
  BY InitialAssumption
<1>3. ASSUME NEW x \in stated PROVE \E c \in GroundAtom \X BOOLEAN : x = ChangeFact(c)
  BY <1>1, <1>2, LiteralFacts
<1>4. ASSUME NEW y \in VariableFacts({}) PROVE \E c \in GroundAtom \X BOOLEAN : <<y[1], FALSE>> = ChangeFact(c)
  <2>1. PICK d \in GroundAtom \X BOOLEAN : y = ChangeFact(d)
    BY ChangeFacts
  <2> DEFINE c == <<d[1], FALSE>>
  <2>2. c \in GroundAtom \X BOOLEAN /\ c[1] = d[1] /\ c[2] = FALSE
    OBVIOUS
  <2> HIDE DEF c
  <2>3. <<y[1], FALSE>> = ChangeFact(c)
    BY <2>1, <2>2 DEF ChangeFact
  <2> QED BY <2>2, <2>3
<1>5. ASSUME NEW x \in InitialFacts(literals)
      PROVE  x \in stated \/ \E y \in VariableFacts({}) : x = <<y[1], FALSE>>
  BY DEF InitialFacts
<1> QED BY <1>1, <1>2, <1>3, <1>4, <1>5

\* A step that does not touch the description leaves what is said of it.
LEMMA DescriptionStays ==
  ASSUME UNCHANGED <<actions, goal, domain, problem>>, Described
  PROVE  Described' /\ Printed' = Printed
BY DEF Described, Printed, Declared, DomainStart, DomainContext, ProblemStart, ProblemContext, FirstProblemNumber

\* The solver's next state is again that of the atoms that are true.
LEMMA NextValues ==
  ASSUME facts = Printed, Described, facts' = facts, NEW B, UniqueValues(B), holds' = WithDerived(B),
         \A x \in B : \E c \in GroundAtom \X BOOLEAN : x = ChangeFact(c)
  PROVE  /\ B = VariableFacts(AtomsTrue') /\ \A g \in GroundAtom : g \in AtomsTrue' <=> ChangeFact(<<g, TRUE>>) \in B
         /\ holds' = WithDerived(VariableFacts(AtomsTrue))'
<1> DEFINE T == {g \in GroundAtom : <<<<"variable", g[1], g[2]>>, TRUE>> \in WithDerived(B)}
<1>1. AtomsTrue' = T
  BY DEF AtomsTrue
<1>2. /\ B = VariableFacts(AtomsTrue')
      /\ \A g \in GroundAtom : g \in AtomsTrue' <=> ChangeFact(<<g, TRUE>>) \in B
  <2>1. \A X : X = T => /\ B = VariableFacts(X)
                        /\ \A g \in GroundAtom : g \in X <=> ChangeFact(<<g, TRUE>>) \in B
    BY ValuesOfState
  <2> HIDE DEF T
  <2> QED BY <1>1, <2>1
<1>3. WithDerived(VariableFacts(AtomsTrue))' = WithDerived(VariableFacts(AtomsTrue'))
  BY DEF WithDerived, VariableFacts
<1> QED BY <1>2, <1>3

\* A step of normalization, and what it does if it succeeds.
LEMMA NormalizationStep ==
  ASSUME AInv, Next
  PROVE  stage = "domain" /\ IInv' /\ (stage' # "failed" => Len(domain'.actions) = Len(actions'))
<1>1. stage = "domain"
  BY DEF Next, NormalizeAction, NormalizeProblem
<1>2. IInv'
  BY <1>1, StepKeeps DEF AInv
<1>3. ASSUME NEW action \in Actions, NormalizeAction(action), stage' # "failed"
      PROVE  Len(domain'.actions) = Len(actions')
  <2>1. stage' = "domain"
    BY <1>1, <1>3 DEF NormalizeAction, Throw
  <2> QED BY <1>2, <2>1 DEF IInv
<1>4. ASSUME NEW g \in Goals, NormalizeProblem(g) PROVE Len(domain'.actions) = Len(actions')
  <2>1. actions' = actions /\ domain' = domain
    BY <1>4 DEF NormalizeProblem, Throw
  <2> QED BY <1>1, <2>1 DEF AInv
<1> QED BY <1>1, <1>2, <1>3, <1>4 DEF Next

\* The invariant holds throughout.
LEMMA PlanKept == ASpec => []AInv
<1>1. AInit => AInv
  <2> SUFFICES ASSUME AInit PROVE AInv
    OBVIOUS
  <2>1. IInv /\ stage = "domain"
    BY InitHolds DEF AInit, TInit, Init
  <2> QED BY <2>1 DEF AInv, IInv
<1>2. ASSUME AInv, [ANext]_avars PROVE AInv'
  <2>1. CASE ANormalize
    <3>1. Next
      BY <2>1 DEF ANormalize, Normalize
    <3> QED BY <1>2, <3>1, NormalizationStep DEF AInv, IInv
  <2>2. CASE TranslateAll
    <3>1. /\ stage = "done" /\ stage' = "translated" /\ facts' = Printed /\ output' = translateActions(domain.actions)
          /\ UNCHANGED <<actions, goal, domain, problem>>
      BY <2>2 DEF TranslateAll, Translate, Printed
    <3>2. Described' /\ Printed' = Printed
      BY <1>2, <3>1, DescriptionStays DEF AInv
    <3> QED BY <1>2, <3>1, <3>2 DEF AInv
  <2>3. ASSUME NEW literals \in InitialStates, Start(literals) PROVE AInv'
    <3> DEFINE B == InitialFacts(literals)
    <3>1. /\ stage = "translated" /\ stage' = "planning" /\ UniqueValues(B) /\ holds' = WithDerived(B)
          /\ UNCHANGED <<actions, goal, domain, problem, facts, output>>
      BY <2>3 DEF Start
    <3>2. Described' /\ Printed' = Printed /\ facts = Printed /\ Described
      BY <1>2, <3>1, DescriptionStays DEF AInv
    <3>3. \A x \in B : \E c \in GroundAtom \X BOOLEAN : x = ChangeFact(c)
      BY InitialChanges
    <3> HIDE DEF B
    <3>4. holds' = WithDerived(VariableFacts(AtomsTrue))'
      BY <3>1, <3>2, <3>3, NextValues
    <3> QED BY <1>2, <3>1, <3>2, <3>4 DEF AInv
  <2>4. ASSUME NEW a \in output.action, Occurs(a) PROVE AInv'
    <3> DEFINE B == Inertia(a)
    <3>1. /\ stage = "planning" /\ stage' = "planning" /\ UniqueValues(B) /\ holds' = WithDerived(B)
          /\ UNCHANGED <<actions, goal, domain, problem, facts, output>>
      BY <2>4 DEF Occurs, vars
    <3>2. Described' /\ Printed' = Printed /\ facts = Printed /\ Described
      BY <1>2, <3>1, DescriptionStays DEF AInv
    <3>3. PICK i, os : ActionAt(i, os) /\ a = <<i, os>>
      BY <1>2, <3>1, PrintedActions
    <3>4. PICK C \in SUBSET (GroundAtom \X BOOLEAN) : caused(a) = {ChangeFact(c) : c \in C}
      BY <1>2, <3>1, <3>3, CausedChanges
    <3>5. \A x \in B : \E c \in GroundAtom \X BOOLEAN : x = ChangeFact(c)
      BY <1>2, <3>1, <3>4, InertiaValues
    <3> HIDE DEF B
    <3>6. holds' = WithDerived(VariableFacts(AtomsTrue))'
      BY <3>1, <3>2, <3>5, NextValues
    <3> QED BY <1>2, <3>1, <3>2, <3>6 DEF AInv
  <2>5. CASE UNCHANGED avars
    <3>1. UNCHANGED <<stage, actions, goal, domain, problem, facts, state, holds, output>> /\ UNCHANGED vars
      BY <2>5 DEF avars, tvars, vars
    <3>2. Described' /\ Printed' = Printed
      BY <1>2, <3>1, DescriptionStays DEF AInv
    <3>3. IInv => IInv'
      BY <3>1, StepKeeps
    <3>4. WithDerived(VariableFacts(AtomsTrue))' = WithDerived(VariableFacts(AtomsTrue))
      BY <3>1 DEF WithDerived, VariableFacts, AtomsTrue
    <3> QED BY <1>2, <3>1, <3>2, <3>3, <3>4 DEF AInv
  <2> QED BY <1>2, <2>1, <2>2, <2>3, <2>4, <2>5 DEF ANext
<1> QED BY <1>1, <1>2, PTL DEF ASpec

-----------------------------------------------------------------------------
(***************************************************************************)
(* Plans and the description.                                              *)
(***************************************************************************)
\* PDDLPlanner has the module of effects for itself; its definitions are the same.
LEMMA SameMeaning ==
  /\ PDDL!NoBinding = NoBinding
  /\ \A xs : PDDL!Tuples(xs) = Tuples(xs)
  /\ \A env, xs, os : PDDL!Bind(env, xs, os) = Bind(env, xs, os)
  /\ \A f, env, I : PDDL!True(f, env, I) = True(f, env, I)
  /\ \A I : PDDL!Changes(I) = Changes(I)
<1>1. /\ PDDL!NoBinding = NoBinding /\ PDDL!Environments = Environments
      /\ \A xs : PDDL!Tuples(xs) = Tuples(xs)
      /\ \A env, xs, os : PDDL!Bind(env, xs, os) = Bind(env, xs, os)
  BY DEF PDDL!NoBinding, NoBinding, PDDL!Environments, Environments, PDDL!Tuples, Tuples, PDDL!Bind, Bind
<1>2. /\ PDDL!Leaf = Leaf /\ PDDL!Atomic = Atomic
      /\ \A S : PDDL!Node(S) = Node(S)
  BY DEF PDDL!Leaf, Leaf, PDDL!Atomic, Atomic, PDDL!Terms, Terms,
         PDDL!Node, Node, PDDL!Connective, Connective, PDDL!Quantifier, Quantifier, PDDL!IsInjective, IsInjective
<1>3. PDDL!Trees = Trees
  BY <1>2 DEF PDDL!Trees, Trees
<1>4. PDDL!Formulas = Formulas
  BY <1>3 DEF PDDL!Formulas, Formulas
<1>5. /\ \A f : PDDL!IsLeaf(f) = IsLeaf(f)
      /\ \A f, env : PDDL!GroundLeaf(f, env) = GroundLeaf(f, env)
  BY DEF PDDL!IsLeaf, IsLeaf, PDDL!GroundLeaf, GroundLeaf, PDDL!Ground, Ground
<1>6. \A M, f, I : PDDL!Satisfying(M, f, I) = Satisfying(M, f, I)
  BY Zenon DEF PDDL!Satisfying, Satisfying, PDDL!Environments, Environments, PDDL!Tuples, Tuples, PDDL!Bind, Bind,
               PDDL!IsLeaf, IsLeaf, PDDL!GroundLeaf, GroundLeaf, PDDL!Ground, Ground
<1>7. \A I : PDDL!Models(I) = Models(I)
  BY <1>4, <1>6 DEF PDDL!Models, Models
<1>8. \A f, env, I : PDDL!True(f, env, I) = True(f, env, I)
  BY <1>7 DEF PDDL!True, True
<1>9. PDDL!EffectLiteral = EffectLiteral
  BY <1>2 DEF PDDL!EffectLiteral, EffectLiteral
<1>10. \A C : PDDL!EffectLeaf(C) = EffectLeaf(C)
  BY <1>9 DEF PDDL!EffectLeaf, EffectLeaf
<1>11. \A S : PDDL!EffectNode(S) = EffectNode(S)
  BY DEF PDDL!EffectNode, EffectNode, PDDL!IsInjective, IsInjective
<1>12. \A C : PDDL!EffectTrees(C) = EffectTrees(C)
  BY <1>10, <1>11 DEF PDDL!EffectTrees, EffectTrees
<1>13. PDDL!Effects = Effects
  BY <1>4, <1>12 DEF PDDL!Effects, Effects
<1>14. \A f, env : PDDL!LiteralChange(f, env) = LiteralChange(f, env)
  BY <1>5 DEF PDDL!LiteralChange, LiteralChange, PDDL!AtomOf, AtomOf
<1>15. \A C, e, I : PDDL!ChangesWith(C, e, I) = ChangesWith(C, e, I)
  BY Zenon DEF PDDL!ChangesWith, ChangesWith, PDDL!Environments, Environments, PDDL!Tuples, Tuples, PDDL!Bind, Bind,
               PDDL!IsLeaf, IsLeaf, PDDL!GroundLeaf, GroundLeaf, PDDL!Ground, Ground, PDDL!LiteralChange, LiteralChange,
               PDDL!AtomOf, AtomOf, PDDL!True, True, PDDL!Models, Models, PDDL!Satisfying, Satisfying, PDDL!Formulas, Formulas,
               PDDL!Trees, Trees, PDDL!Leaf, Leaf, PDDL!Atomic, Atomic, PDDL!Terms, Terms,
               PDDL!Node, Node, PDDL!Connective, Connective, PDDL!Quantifier, Quantifier, PDDL!IsInjective, IsInjective
<1>16. \A I : PDDL!Changes(I) = Changes(I)
  BY <1>13, <1>15 DEF PDDL!Changes, Changes
<1> QED BY <1>1, <1>8, <1>16

\* While the solver plans, the description's state is that of the atoms that are true.
LEMMA DescribedStep ==
  ASSUME stage = "planning", NEW a, NEW os
  PROVE  /\ PDDL!ActionChanges(a, os) = SourceChanges(a, os)
         /\ PDDL!PreconditionTrue(a, os) <=>
              \A f \in Range(a.precondition) : True(f, ParameterBinding(a, os), AtomsTrue)
<1>1. (IF stage = "planning" THEN AtomsTrue ELSE NoState) = AtomsTrue
  OBVIOUS
<1>2. PDDL!Binding(a, os) = ParameterBinding(a, os)
  BY SameMeaning DEF PDDL!Binding, ParameterBinding
<1>3. \A fs : PDDL!Range(fs) = Range(fs)
  BY DEF PDDL!Range, Range
<1>4. PDDL!ActionChanges(a, os) = SourceChanges(a, os)
  BY <1>1, <1>2, <1>3, SameMeaning, Zenon DEF PDDL!ActionChanges, SourceChanges
<1>5. PDDL!PreconditionTrue(a, os) <=>
        \A f \in Range(a.precondition) : True(f, ParameterBinding(a, os), AtomsTrue)
  BY <1>1, <1>2, <1>3, SameMeaning, Zenon DEF PDDL!PreconditionTrue
<1> QED BY <1>4, <1>5

\* The facts for an action's precondition, one by one.
LEMMA InPreconditions ==
  ASSUME NEW action, NEW i, NEW p
  PROVE  p \in PreconditionFacts(action, i) <=>
           \E f \in Range(action.precondition) : \E os \in Tuples(action.parameters) :
             \E x \in ConditionFacts(f, ParameterBinding(action, os)) : p = <<<<i, os>>, x>>
<1> DEFINE Facts(f, os) == {<<<<i, os>>, x>> : x \in ConditionFacts(f, ParameterBinding(action, os))}
<1>1. PreconditionFacts(action, i) =
        UNION {Facts(f, os) : f \in Range(action.precondition), os \in Tuples(action.parameters)}
  BY DEF PreconditionFacts
<1>2. \A f, os : p \in Facts(f, os) <=>
        \E x \in ConditionFacts(f, ParameterBinding(action, os)) : p = <<<<i, os>>, x>>
  OBVIOUS
<1> HIDE DEF Facts
<1>3. p \in PreconditionFacts(action, i) <=>
        \E f \in Range(action.precondition) : \E os \in Tuples(action.parameters) : p \in Facts(f, os)
  BY <1>1
<1> QED BY <1>2, <1>3

\* An action may occur if and only if the solver accepts its normalized precondition.
LEMMA PossibleAccepted ==
  ASSUME AInv, stage = "planning", NEW i, NEW os, ActionAt(i, os)
  PROVE  Possible(<<i, os>>) <=>
           \A f \in Range(domain.actions[i].precondition) : Accepted(f, ParameterBinding(actions[i], os))
<1> DEFINE acts == domain.actions
           n == Len(acts)
           env0 == ParameterBinding(actions[i], os)
<1>1. /\ n \in Nat /\ i \in 1 .. n /\ output = translateActions(acts) /\ ParameterBinding(acts[i], os) = env0
      /\ acts[i].parameters = actions[i].parameters
  BY ActionParts DEF AInv, Described, ActionPaired
<1>2. PICK H : Printing(acts, H)
  BY <1>1, PrintingAt
<1>3. \A p : p \in output.precondition <=> \E j \in 1 .. n : p \in PreconditionFacts(acts[j], j)
  <2>1. n \in 0 .. n
    BY <1>1
  <2>2. PrintedFor(acts, H, n) /\ output = H[n]
    BY <1>1, <1>2, <2>1, EachPrinted DEF Printing
  <2> QED BY <2>2 DEF PrintedFor
<1> HIDE DEF env0, n
<1>4. ASSUME Possible(<<i, os>>), NEW f \in Range(acts[i].precondition) PROVE Accepted(f, env0)
  <2> SUFFICES ASSUME NEW x \in ConditionFacts(f, env0) PROVE x \in holds
    BY DEF Accepted
  <2> DEFINE p == <<<<i, os>>, x>>
  <2>1. os \in Tuples(acts[i].parameters)
    BY <1>1 DEF ActionAt
  <2>2. p \in PreconditionFacts(acts[i], i)
    BY <1>1, <2>1, InPreconditions
  <2>3. p \in output.precondition
    BY <1>1, <1>3, <2>2
  <2>4. p[1] = <<i, os>> /\ p[2] = x
    OBVIOUS
  <2> HIDE DEF p
  <2> QED BY <1>4, <2>3, <2>4 DEF Possible
<1>5. ASSUME \A f \in Range(acts[i].precondition) : Accepted(f, env0) PROVE Possible(<<i, os>>)
  <2> SUFFICES ASSUME NEW p \in output.precondition, p[1] = <<i, os>> PROVE p[2] \in holds
    BY DEF Possible
  <2>1. PICK j \in 1 .. n : p \in PreconditionFacts(acts[j], j)
    BY <1>3
  <2>2. PICK f \in Range(acts[j].precondition), us \in Tuples(acts[j].parameters) :
          \E x \in ConditionFacts(f, ParameterBinding(acts[j], us)) : p = <<<<j, us>>, x>>
    BY <2>1, InPreconditions
  <2>3. PICK x \in ConditionFacts(f, ParameterBinding(acts[j], us)) : p = <<<<j, us>>, x>>
    BY <2>2
  <2>4. j = i /\ us = os /\ p[2] = x
    BY <2>3
  <2>5. Accepted(f, env0) /\ x \in ConditionFacts(f, env0)
    BY <1>1, <1>5, <2>2, <2>3, <2>4
  <2> QED BY <2>4, <2>5 DEF Accepted
<1> QED BY <1>4, <1>5 DEF env0

\* An action that may occur has a true precondition; one with a plain normalized
\* precondition may occur if it is true.
LEMMA PossibleTrue ==
  ASSUME AInv, stage = "planning", NEW i, NEW os, ActionAt(i, os)
  PROVE  LET satisfied0 == \A f \in Range(actions[i].precondition) : True(f, ParameterBinding(actions[i], os), AtomsTrue)
         IN  /\ Possible(<<i, os>>) => satisfied0
             /\ satisfied0 /\ (\A f \in Range(domain.actions[i].precondition) : Plain(f)) => Possible(<<i, os>>)
<1> DEFINE s == actions[i].precondition
           t == domain.actions[i].precondition
           env0 == ParameterBinding(actions[i], os)
<1>1. Paired(s, t, Conditions, Formulas, Pairs(DomainStart, DomainContext)) /\ env0 \in Environments
  BY ActionParts DEF ActionPaired
<1>2. Possible(<<i, os>>) <=> \A f \in Range(t) : Accepted(f, env0)
  BY PossibleAccepted
<1> HIDE DEF s, t, env0
<1>3. DOMAIN s = DOMAIN t
  BY <1>1 DEF Paired
<1>4. ASSUME NEW k \in DOMAIN s
      PROVE  s[k] \in Conditions /\ t[k] \in Formulas /\ Translated(s[k], t[k], DomainStart, DomainContext)
  BY <1>1, PairedTranslated
<1>5. ASSUME NEW k \in DOMAIN s
      PROVE  /\ Accepted(t[k], env0) => True(s[k], env0, AtomsTrue)
             /\ Plain(t[k]) /\ True(s[k], env0, AtomsTrue) => Accepted(t[k], env0)
  BY <1>1, <1>4, PlanSolved, AcceptedTrue, PlainAccepted
<1>6. (\A f \in Range(t) : Accepted(f, env0)) => \A f \in Range(s) : True(f, env0, AtomsTrue)
  BY <1>3, <1>5 DEF Range
<1>7. (\A f \in Range(s) : True(f, env0, AtomsTrue)) /\ (\A f \in Range(t) : Plain(f)) => \A f \in Range(t) : Accepted(f, env0)
  BY <1>3, <1>5 DEF Range
<1> QED BY <1>2, <1>6, <1>7 DEF s, t, env0

\* What an action does leaves every variable with one value, unless its effects
\* contradict each other.
LEMMA OneValueEach ==
  ASSUME AInv, stage = "planning", NEW i, NEW os, ActionAt(i, os),
         \A c \in SourceChanges(actions[i], os) : <<c[1], ~c[2]>> \notin SourceChanges(actions[i], os)
  PROVE  UniqueValues(Inertia(<<i, os>>))
<1> DEFINE a == <<i, os>>
           S == SourceChanges(actions[i], os)
<1>1. PICK C \in SUBSET (GroundAtom \X BOOLEAN) : C \subseteq S /\ caused(a) = {ChangeFact(c) : c \in C}
  BY CausedChanges
<1>2. \A c \in GroundAtom \X BOOLEAN :
        ChangeFact(c) \in Inertia(a) <=>
          \/ c \in C
          \/ (c[2] <=> c[1] \in AtomsTrue) /\ \A b \in BOOLEAN : <<c[1], b>> \notin C
  BY <1>1, InertiaValues
<1> HIDE DEF a, S
<1>3. ASSUME NEW g \in GroundAtom PROVE ~(<<g, TRUE>> \in C /\ <<g, FALSE>> \in C)
  <2> DEFINE c == <<g, TRUE>>
  <2>1. c[1] = g /\ (~c[2]) = FALSE
    OBVIOUS
  <2> HIDE DEF c
  <2>2. c \in S => <<g, FALSE>> \notin S
    BY <2>1 DEF S
  <2> QED BY <1>1, <2>2 DEF c
<1>4. ASSUME NEW g \in GroundAtom, NEW b \in BOOLEAN
      PROVE  ChangeFact(<<g, b>>) \in Inertia(a) <=>
               \/ <<g, b>> \in C
               \/ (b <=> g \in AtomsTrue) /\ \A e \in BOOLEAN : <<g, e>> \notin C
  <2> DEFINE c == <<g, b>>
  <2>1. c \in GroundAtom \X BOOLEAN /\ c[1] = g /\ c[2] = b
    OBVIOUS
  <2> HIDE DEF c
  <2>2. ChangeFact(c) \in Inertia(a) <=>
          \/ c \in C
          \/ (b <=> g \in AtomsTrue) /\ \A e \in BOOLEAN : <<g, e>> \notin C
    BY <1>2, <2>1
  <2> QED BY <2>2 DEF c
<1>5. ASSUME NEW g \in GroundAtom
      PROVE  ChangeFact(<<g, TRUE>>) \in Inertia(a) <=> ChangeFact(<<g, FALSE>>) \notin Inertia(a)
  <2>1. ChangeFact(<<g, TRUE>>) \in Inertia(a) <=>
          <<g, TRUE>> \in C \/ (g \in AtomsTrue /\ <<g, TRUE>> \notin C /\ <<g, FALSE>> \notin C)
    BY <1>4
  <2>2. ChangeFact(<<g, FALSE>>) \in Inertia(a) <=>
          <<g, FALSE>> \in C \/ (g \notin AtomsTrue /\ <<g, TRUE>> \notin C /\ <<g, FALSE>> \notin C)
    BY <1>4
  <2> QED BY <1>3, <2>1, <2>2
<1> QED BY <1>5, UniqueAtoms DEF a

\* An action whose PDDL precondition is true may occur, unless its effects
\* contradict each other or a precondition is not plain: the facts printed for
\* actions (TranslatorASP.cpp, lines 304-362) with the rules of
\* sequential-horizon.lp (lines 34-58) forbid no step the description allows.
THEOREM PlainActionsMayOccur == ASpec => []PlainActionsPossible
<1>1. AInv => PlainActionsPossible
  <2> SUFFICES ASSUME AInv, stage = "planning", NEW i \in DOMAIN actions, NEW os \in Tuples(actions[i].parameters),
                      PDDL!PreconditionTrue(actions[i], os),
                      \A c \in PDDL!ActionChanges(actions[i], os) :
                        <<c[1], ~c[2]>> \notin PDDL!ActionChanges(actions[i], os),
                      \A f \in Range(domain.actions[i].precondition) : Plain(f)
               PROVE  Possible(<<i, os>>) /\ UniqueValues(Inertia(<<i, os>>))
    BY DEF PlainActionsPossible
  <2>1. ActionAt(i, os)
    BY DEF ActionAt
  <2>2. /\ PDDL!ActionChanges(actions[i], os) = SourceChanges(actions[i], os)
        /\ \A f \in Range(actions[i].precondition) : True(f, ParameterBinding(actions[i], os), AtomsTrue)
    BY DescribedStep
  <2>3. Possible(<<i, os>>)
    BY <2>1, <2>2, PossibleTrue
  <2>4. UniqueValues(Inertia(<<i, os>>))
    BY <2>1, <2>2, OneValueEach
  <2> QED BY <2>3, <2>4
<1> QED BY <1>1, PlanKept, PTL

-----------------------------------------------------------------------------
(***************************************************************************)
(* The numbers of effects.                                                 *)
(***************************************************************************)
\* Numbers grow from one "when" to the next.
LEMMA WhensGrow ==
  ASSUME NEW placed, NEW n \in Nat
  PROVE  /\ \A k \in 0 .. n : WhensUpTo(placed, k) \in Nat
         /\ \A k, l \in 0 .. n : k <= l => WhensUpTo(placed, k) <= WhensUpTo(placed, l)
         /\ \A k \in 0 .. n : \A l \in 1 .. n : k < l /\ placed[l].effect.op = "when" =>
              WhensUpTo(placed, k) < WhensUpTo(placed, l)
<1> DEFINE W(k) == {j \in 1 .. k : placed[j].effect.op = "when"}
<1>1. \A k \in 0 .. n : IsFiniteSet(W(k)) /\ Cardinality(W(k)) \in Nat
  <2> TAKE k \in 0 .. n
  <2>1. IsFiniteSet(1 .. k) /\ W(k) \in SUBSET (1 .. k)
    <3>1. 1 \in Int /\ k \in Int
      OBVIOUS
    <3>2. W(k) \in SUBSET (1 .. k)
      OBVIOUS
    <3> HIDE DEF W
    <3> QED BY <3>1, <3>2, FS_Interval
  <2>2. IsFiniteSet(W(k))
    BY <2>1, FS_Subset
  <2> QED BY <2>2, FS_CardinalityType
<1>2. \A k : WhensUpTo(placed, k) = Cardinality(W(k))
  BY DEF WhensUpTo
<1>3. ASSUME NEW k \in 0 .. n, NEW l \in 0 .. n, k <= l PROVE W(k) \in SUBSET W(l)
  BY <1>3
<1>4. ASSUME NEW k \in 0 .. n, NEW l \in 1 .. n, k < l, placed[l].effect.op = "when"
      PROVE  l \in W(l) /\ l \notin W(k) /\ W(k) \in SUBSET W(l) /\ l \in 0 .. n
  BY <1>4
<1> HIDE DEF W
<1>5. ASSUME NEW k \in 0 .. n, NEW l \in 0 .. n, k <= l PROVE Cardinality(W(k)) <= Cardinality(W(l))
  BY <1>1, <1>3, <1>5, FS_Subset
<1>6. ASSUME NEW k \in 0 .. n, NEW l \in 1 .. n, k < l, placed[l].effect.op = "when"
      PROVE  Cardinality(W(k)) < Cardinality(W(l))
  <2>1. l \in W(l) /\ l \notin W(k) /\ W(k) \in SUBSET W(l) /\ l \in 0 .. n
    BY <1>4, <1>6
  <2>2. Cardinality(W(k) \cup {l}) = Cardinality(W(k)) + 1
    BY <1>1, <2>1, FS_AddElement
  <2>3. W(k) \cup {l} \in SUBSET W(l)
    BY <2>1
  <2>4. Cardinality(W(k) \cup {l}) <= Cardinality(W(l))
    BY <1>1, <2>1, <2>3, FS_Subset
  <2> QED BY <1>1, <2>1, <2>2, <2>4
<1>7. \A k \in 0 .. n : WhensUpTo(placed, k) \in Nat
  BY <1>1, <1>2
<1>8. \A k, l \in 0 .. n : k <= l => WhensUpTo(placed, k) <= WhensUpTo(placed, l)
  BY <1>2, <1>5
<1>9. \A k \in 0 .. n : \A l \in 1 .. n : k < l /\ placed[l].effect.op = "when" =>
        WhensUpTo(placed, k) < WhensUpTo(placed, l)
  BY <1>2, <1>6
<1> QED BY <1>7, <1>8, <1>9

\* They grow from one action to the next.
LEMMA NumbersGrowOn ==
  ASSUME NEW acts, Len(acts) \in Nat, NEW H, Printing(acts, H),
         \A i \in 1 .. Len(acts) : Len(PlacedEffects(acts[i])) \in Nat
  PROVE  \A i \in 0 .. Len(acts) : H[i].number \in Nat /\ \A j \in 0 .. i : H[j].number \in Nat /\ H[j].number <= H[i].number
<1> DEFINE n == Len(acts)
           D == 0 .. n
           Growing(i) == H[i].number \in Nat /\ \A j \in 0 .. i : H[j].number \in Nat /\ H[j].number <= H[i].number
           S == {i \in D : Growing(i)}
           rank == [i \in D |-> i]
<1>1. H[0].number = 0
  BY DEF Printing, NoFacts
<1>2. ASSUME NEW i \in 1 .. n, H[i - 1].number \in Nat PROVE H[i].number \in Nat /\ H[i - 1].number <= H[i].number
  <2> DEFINE placed == PlacedEffects(acts[i])
  <2>1. H[i] = translateAction(acts[i], i, H[i - 1]) /\ Len(placed) \in Nat
    BY DEF Printing
  <2>2. H[i].number = H[i - 1].number + WhensUpTo(placed, Len(placed))
    BY <2>1 DEF translateAction, NumberBefore
  <2> HIDE DEF placed
  <2>3. Len(placed) \in 0 .. Len(placed)
    BY <2>1
  <2>4. WhensUpTo(placed, Len(placed)) \in Nat
    BY <2>1, <2>3, WhensGrow
  <2> QED BY <1>2, <2>2, <2>4
<1>3. ASSUME NEW i \in D, \A j \in D : rank[j] < rank[i] => j \in S PROVE i \in S
  <2>1. CASE i = 0
    BY <1>1, <2>1
  <2>2. CASE i # 0
    <3>1. i - 1 \in D /\ rank[i - 1] < rank[i] /\ i \in 1 .. n
      BY <2>2
    <3>2. Growing(i - 1)
      BY <1>3, <3>1
    <3>3. H[i].number \in Nat /\ H[i - 1].number <= H[i].number /\ H[i - 1].number \in Nat
      BY <1>2, <3>1, <3>2
    <3>4. \A j \in 0 .. i : j = i \/ j \in 0 .. i - 1
      BY <3>1
    <3>5. Growing(i)
      BY <3>2, <3>3, <3>4
    <3> QED BY <3>5
  <2> QED BY <2>1, <2>2
<1>4. D \subseteq S
  <2>1. rank \in [D -> Nat]
    OBVIOUS
  <2> HIDE DEF D, S, rank
  <2> QED BY <1>3, <2>1, RankInduction
<1> QED BY <1>4

\* A number belongs to one "when" of one action; other effects have the number 0.
Numbered(acts, H) ==
  \A i, j \in 1 .. Len(acts) :
    \A k \in 1 .. Len(PlacedEffects(acts[i])) : \A l \in 1 .. Len(PlacedEffects(acts[j])) :
      /\ PlacedEffects(acts[j])[l].effect.op = "when"
      /\ EffectNumber(PlacedEffects(acts[i]), k, H[i - 1]) = EffectNumber(PlacedEffects(acts[j]), l, H[j - 1])
      => i = j /\ k = l /\ PlacedEffects(acts[i])[k].effect.op = "when"

\* The translator numbers them so.
LEMMA NumberTells ==
  ASSUME NEW acts, Len(acts) \in Nat, NEW H, Printing(acts, H),
         \A i \in 1 .. Len(acts) : Len(PlacedEffects(acts[i])) \in Nat
  PROVE  Numbered(acts, H)
<1> SUFFICES ASSUME NEW i \in 1 .. Len(acts), NEW j \in 1 .. Len(acts), NEW k \in 1 .. Len(PlacedEffects(acts[i])),
                    NEW l \in 1 .. Len(PlacedEffects(acts[j])),
                    PlacedEffects(acts[j])[l].effect.op = "when",
                    EffectNumber(PlacedEffects(acts[i]), k, H[i - 1]) = EffectNumber(PlacedEffects(acts[j]), l, H[j - 1])
             PROVE  i = j /\ k = l /\ PlacedEffects(acts[i])[k].effect.op = "when"
  BY DEF Numbered
<1> DEFINE n == Len(acts)
           P(m) == PlacedEffects(acts[m])
           h(m) == H[m].number
           w(m, q) == WhensUpTo(P(m), q)
           IsWhen(m, q) == P(m)[q].effect.op = "when"
<1>1. \A m \in 0 .. n : h(m) \in Nat /\ \A q \in 0 .. m : h(q) \in Nat /\ h(q) <= h(m)
  BY NumbersGrowOn
<1>2. \A m \in 1 .. n : Len(P(m)) \in Nat /\ h(m) = h(m - 1) + w(m, Len(P(m)))
  <2> TAKE m \in 1 .. n
  <2>1. H[m] = translateAction(acts[m], m, H[m - 1]) /\ Len(P(m)) \in Nat
    BY DEF Printing
  <2> QED BY <2>1 DEF translateAction, NumberBefore
<1>3. \A m \in 1 .. n : \A q \in 0 .. Len(P(m)) : w(m, q) \in Nat /\ w(m, q) <= w(m, Len(P(m)))
  <2> TAKE m \in 1 .. n
  <2> TAKE q \in 0 .. Len(P(m))
  <2>1. Len(P(m)) \in Nat
    BY <1>2
  <2> HIDE DEF P
  <2>2. Len(P(m)) \in 0 .. Len(P(m)) /\ q <= Len(P(m))
    BY <2>1
  <2> QED BY <2>1, <2>2, WhensGrow
<1>4. \A m \in 1 .. n : \A q \in 0 .. Len(P(m)) : \A r \in 1 .. Len(P(m)) :
        q < r /\ IsWhen(m, r) => w(m, q) < w(m, r)
  <2> TAKE m \in 1 .. n
  <2>1. Len(P(m)) \in Nat
    BY <1>2
  <2> HIDE DEF P
  <2> QED BY <2>1, WhensGrow
<1>5. /\ EffectNumber(P(i), k, H[i - 1]) = IF IsWhen(i, k) THEN h(i - 1) + w(i, k) ELSE 0
      /\ EffectNumber(P(j), l, H[j - 1]) = h(j - 1) + w(j, l)
  BY DEF EffectNumber, NumberBefore
<1>6. IsWhen(j, l) /\ i \in 1 .. n /\ j \in 1 .. n /\ k \in 1 .. Len(P(i)) /\ l \in 1 .. Len(P(j)) /\ n \in Nat
  OBVIOUS
<1>7. EffectNumber(P(i), k, H[i - 1]) = EffectNumber(P(j), l, H[j - 1])
  OBVIOUS
<1> HIDE DEF n, P, h, w, IsWhen
<1>8. Len(P(i)) \in Nat /\ Len(P(j)) \in Nat /\ k \in 0 .. Len(P(i)) /\ l \in 0 .. Len(P(j)) /\ 0 \in 0 .. Len(P(i)) /\ 0 \in 0 .. Len(P(j))
  BY <1>2, <1>6
<1>9. h(i - 1) \in Nat /\ h(j - 1) \in Nat /\ w(i, k) \in Nat /\ w(j, l) \in Nat /\ w(i, 0) \in Nat /\ w(j, 0) \in Nat
  BY <1>1, <1>3, <1>6, <1>8
<1>10. w(j, 0) < w(j, l) /\ (IsWhen(i, k) => w(i, 0) < w(i, k))
  BY <1>4, <1>6, <1>8
<1>11. IsWhen(i, k) /\ h(i - 1) + w(i, k) = h(j - 1) + w(j, l)
  BY <1>5, <1>7, <1>9, <1>10
<1>12. h(i - 1) + w(i, k) <= h(i) /\ h(j - 1) + w(j, l) <= h(j) /\ h(i) \in Nat /\ h(j) \in Nat
  <2>1. w(i, k) <= w(i, Len(P(i))) /\ w(i, Len(P(i))) \in Nat /\ h(i) = h(i - 1) + w(i, Len(P(i)))
    <3>1. Len(P(i)) \in 0 .. Len(P(i))
      BY <1>8
    <3> QED BY <1>2, <1>3, <1>6, <1>8, <3>1
  <2>2. w(j, l) <= w(j, Len(P(j))) /\ w(j, Len(P(j))) \in Nat /\ h(j) = h(j - 1) + w(j, Len(P(j)))
    <3>1. Len(P(j)) \in 0 .. Len(P(j))
      BY <1>8
    <3> QED BY <1>2, <1>3, <1>6, <1>8, <3>1
  <2>3. ASSUME NEW a \in Nat, NEW x \in Nat, NEW y, x <= y /\ y \in Nat, NEW b, b = a + y
        PROVE  a + x <= b /\ b \in Nat
    BY <2>3
  <2>4. h(i - 1) + w(i, k) <= h(i) /\ h(i) \in Nat
    BY ONLY <1>9, <2>1, <2>3, Zenon
  <2>5. h(j - 1) + w(j, l) <= h(j) /\ h(j) \in Nat
    BY ONLY <1>9, <2>2, <2>3, Zenon
  <2> QED BY <2>4, <2>5
<1>13. i = j
  <2>1. ASSUME i < j PROVE FALSE
    <3>1. i \in 0 .. j - 1 /\ j - 1 \in 0 .. n
      BY <1>6, <2>1
    <3>2. h(i) <= h(j - 1)
      BY <1>1, <3>1
    <3> QED BY <1>9, <1>10, <1>11, <1>12, <3>2
  <2>2. ASSUME j < i PROVE FALSE
    <3>1. j \in 0 .. i - 1 /\ i - 1 \in 0 .. n
      BY <1>6, <2>2
    <3>2. h(j) <= h(i - 1)
      BY <1>1, <3>1
    <3> QED BY <1>9, <1>10, <1>11, <1>12, <3>2
  <2> QED BY <1>6, <2>1, <2>2
<1>14. k = l
  <2>1. w(i, k) = w(i, l)
    BY <1>9, <1>11, <1>13
  <2>2. ~(k < l) /\ ~(l < k)
    BY <1>4, <1>6, <1>8, <1>9, <1>11, <1>13, <2>1
  <2> QED BY <1>6, <1>8, <1>13, <2>2
<1> QED BY <1>11, <1>13, <1>14 DEF IsWhen, P

\* What a placed effect sets is caused, if the conditions of its "when" are plain and
\* the same wherever it is placed.
LEMMA CausedComplete ==
  ASSUME AInv, ConditionalEffectsPlain, stage = "planning", NEW i, NEW os, ActionAt(i, os),
         NEW c \in SourceChanges(actions[i], os)
  PROVE  ChangeFact(c) \in caused(<<i, os>>)
<1> DEFINE acts == domain.actions
           n == Len(acts)
           P(m) == PlacedEffects(acts[m])
           s == PlacedEffects(actions[i])
           t == PlacedEffects(acts[i])
           env0 == ParameterBinding(actions[i], os)
           x == ChangeFact(c)
<1>1. /\ n \in Nat /\ i \in 1 .. n /\ output = translateActions(acts) /\ ParameterBinding(acts[i], os) = env0
      /\ acts[i].parameters = actions[i].parameters /\ os \in Tuples(acts[i].parameters) /\ env0 \in Environments
  BY ActionParts DEF AInv, Described, ActionPaired, ActionAt
<1>2. PICK H : Printing(acts, H)
  BY <1>1, PrintingAt
<1>3. PICK k \in DOMAIN s : \E env \in s[k].scope[env0] :
        /\ env \in Environments
        /\ s[k].effect.op = "when" => True(s[k].effect.condition, env, AtomsTrue)
        /\ \E f \in Postconditions(s[k]) : c = LiteralChange(f, env)
  BY InSourceChanges
<1>4. PICK env \in s[k].scope[env0], f \in Postconditions(s[k]) :
        /\ env \in Environments
        /\ s[k].effect.op = "when" => True(s[k].effect.condition, env, AtomsTrue)
        /\ c = LiteralChange(f, env)
  BY <1>3
<1>5. /\ k \in DOMAIN t /\ env \in t[k].scope[env0] /\ f \in Postconditions(t[k]) /\ f \in EffectLiteral
      /\ s[k].effect.op = t[k].effect.op
      /\ t[k].effect.op = "when" =>
           /\ s[k].effect.condition \in Conditions /\ t[k].effect.condition \in Formulas
           /\ Translated(s[k].effect.condition, t[k].effect.condition, DomainStart, DomainContext)
  BY <1>3, <1>4, PlacedTwins
<1>6. x = LiteralFact(f, env)
  BY <1>4, <1>5, LiteralFacts
<1>7. \A m \in 1 .. n : Len(P(m)) \in Nat /\ DOMAIN P(m) = 1 .. Len(P(m))
  <2> TAKE m \in 1 .. n
  <2>1. ActionPaired(actions[m], acts[m], Pairs(DomainStart, DomainContext))
    BY DEF AInv, Described
  <2>2. P(m) \in Seq(Places)
    BY <2>1 DEF ActionPaired, Paired
  <2> QED BY <2>2
<1>8. \A p : p \in output.condition <=> \E j \in 1 .. n : p \in EffectConditionFacts(acts[j], H[j - 1])
  <2>1. n \in 0 .. n
    BY <1>1
  <2>2. PrintedFor(acts, H, n) /\ output = H[n]
    BY <1>1, <1>2, <2>1, EachPrinted DEF Printing
  <2> QED BY <2>2 DEF PrintedFor
<1> DEFINE N == EffectNumber(t, k, H[i - 1])
           g == t[k].effect.condition
<1> HIDE DEF x, env0
<1>9. ASSUME NEW p \in output.condition, p[1] = N PROVE p[2] \in holds
  <2>1. PICK j \in 1 .. n : p \in EffectConditionFacts(acts[j], H[j - 1])
    BY <1>8
  <2>2. PICK l \in DOMAIN P(j), us \in Tuples(acts[j].parameters) :
          \E inner \in P(j)[l].scope[ParameterBinding(acts[j], us)] :
            /\ P(j)[l].effect.op = "when"
            /\ \E y \in ConditionFacts(P(j)[l].effect.condition, inner) : p = <<EffectNumber(P(j), l, H[j - 1]), y>>
    BY <2>1, InEffectConditions
  <2>3. PICK inner \in P(j)[l].scope[ParameterBinding(acts[j], us)] :
            /\ P(j)[l].effect.op = "when"
            /\ \E y \in ConditionFacts(P(j)[l].effect.condition, inner) : p = <<EffectNumber(P(j), l, H[j - 1]), y>>
    BY <2>2
  <2>4. PICK y \in ConditionFacts(P(j)[l].effect.condition, inner) : p = <<EffectNumber(P(j), l, H[j - 1]), y>>
    BY <2>3
  <2>5. p[1] = EffectNumber(P(j), l, H[j - 1]) /\ p[2] = y
    BY <2>4
  <2>6. EffectNumber(P(i), k, H[i - 1]) = EffectNumber(P(j), l, H[j - 1])
    BY <1>9, <2>5
  <2>7. \A m \in 1 .. Len(acts) : Len(PlacedEffects(acts[m])) \in Nat
    BY <1>7
  <2>8. k \in 1 .. Len(PlacedEffects(acts[i])) /\ l \in 1 .. Len(PlacedEffects(acts[j]))
    BY <1>1, <1>5, <1>7, <2>2
  <2>9. i = j /\ k = l /\ t[k].effect.op = "when"
    <3>1. Len(acts) \in Nat /\ i \in 1 .. Len(acts) /\ j \in 1 .. Len(acts)
      BY <1>1
    <3>2. /\ PlacedEffects(acts[j])[l].effect.op = "when"
          /\ EffectNumber(PlacedEffects(acts[i]), k, H[i - 1]) = EffectNumber(PlacedEffects(acts[j]), l, H[j - 1])
      BY <2>3, <2>6
    <3>3. i = j /\ k = l /\ PlacedEffects(acts[i])[k].effect.op = "when"
      <4> HIDE DEF acts
      <4>1. Numbered(acts, H)
        BY <1>2, <2>7, <3>1, NumberTells
      <4> QED BY <2>8, <3>1, <3>2, <4>1 DEF Numbered
    <3> QED BY <3>3
  <2>10. Accepted(g, env)
    <3>1. Plain(g)
      <4>1. i \in DOMAIN domain.actions /\ t[k] \in Range(PlacedEffects(domain.actions[i]))
        <5>1. domain.actions \in Seq(NormalizedActions)
          BY DEF AInv, Described
        <5> QED BY <1>1, <1>5, <5>1 DEF Range
      <4> QED BY <2>9, <4>1 DEF ConditionalEffectsPlain
    <3> HIDE DEF g, t, s
    <3> QED BY <1>4, <1>5, <2>9, <3>1, PlanSolved, PlainAccepted DEF g
  <2>11. ConditionFacts(g, env) = ConditionFacts(g, inner)
    <3> DEFINE At == Placements(acts[i], t[k])
    <3>1. env \in At
      BY <1>1, <1>5 DEF Placements
    <3>2. inner \in At
      <4>1. inner \in t[k].scope[ParameterBinding(acts[i], us)] /\ us \in Tuples(acts[i].parameters)
        BY <2>2, <2>3, <2>9
      <4> QED BY <4>1 DEF Placements
    <3>3. i \in DOMAIN domain.actions /\ t[k] \in Range(PlacedEffects(domain.actions[i]))
      <4>1. domain.actions \in Seq(NormalizedActions)
        BY DEF AInv, Described
      <4> QED BY <1>1, <1>5, <4>1 DEF Range
    <3> HIDE DEF At
    <3> QED BY <2>9, <3>1, <3>2, <3>3 DEF ConditionalEffectsPlain, At
  <2>12. y \in ConditionFacts(g, inner)
    BY <2>4, <2>9
  <2> QED BY <2>5, <2>10, <2>11, <2>12 DEF Accepted
<1>10. CausedBy(H, i, os, x)
  <2> HIDE DEF t, s, g, N
  <2>1. \E e \in t[k].scope[env0] : \E h \in Postconditions(t[k]) :
          /\ x = LiteralFact(h, e)
          /\ \A p \in output.condition : p[1] = N => p[2] \in holds
    BY <1>5, <1>6, <1>9
  <2> QED BY <1>5, <2>1 DEF CausedBy, t, N, env0
<1> QED BY <1>2, <1>10, CausedFacts DEF x

-----------------------------------------------------------------------------
(***************************************************************************)
(* The solver's plans are plans of the description.                        *)
(***************************************************************************)

\* A literal of an initial state mentions objects only.
LEMMA InitialLiteral ==
  ASSUME NEW literals \in InitialStates, NEW f \in literals
  PROVE  LiteralChange(f, NoBinding) = <<<<AtomOf(f).pred, AtomOf(f).terms>>, f.op # "not">> /\ (f.op = "atom" <=> f.op # "not")
<1> DEFINE g == AtomOf(f)
<1>1. f \in EffectLiteral /\ Range(g.terms) \cap Var = {}
  BY InitialAssumption
<1>2. g \in Atomic /\ (f.op = "atom" <=> f.op # "not")
  <2>1. CASE f \in Atomic
    BY <2>1 DEF AtomOf, Atomic
  <2>2. CASE f \notin Atomic
    <3>1. f.op = "not" /\ f.args \in Seq(Atomic) /\ Len(f.args) = 1
      BY <1>1, <2>2 DEF EffectLiteral
    <3>2. f.args[1] \in Atomic
      BY <3>1
    <3> QED BY <3>1, <3>2 DEF AtomOf
  <2> QED BY <2>1, <2>2
<1> HIDE DEF g
<1>3. g.op = "atom" /\ g.terms \in Seq(Range(g.terms)) /\ DOMAIN g.terms = 1 .. Len(g.terms)
  <2>1. g.op = "atom" /\ \E S : g.terms \in Seq(S)
    BY <1>2 DEF Atomic, Terms
  <2>2. PICK S : g.terms \in Seq(S)
    BY <2>1
  <2> QED BY <2>1, <2>2 DEF Range
<1>4. Ground(g.terms, NoBinding) = g.terms
  <2>1. \A k \in DOMAIN g.terms : g.terms[k] \notin Var
    BY <1>1 DEF Range, g
  <2>2. Ground(g.terms, NoBinding) = [k \in DOMAIN g.terms |-> g.terms[k]]
    BY <2>1 DEF Ground
  <2>3. g.terms = [k \in DOMAIN g.terms |-> g.terms[k]]
    BY <1>3
  <2> QED BY <2>2, <2>3
<1>5. GroundLeaf(g, NoBinding) = <<g.pred, g.terms>>
  BY <1>3, <1>4 DEF GroundLeaf
<1> QED BY <1>2, <1>5 DEF LiteralChange, g

\* The solver starts with the atoms that the description lists.
LEMMA StartBegins ==
  ASSUME AInv, NEW literals \in InitialStates, Start(literals)
  PROVE  AtomsTrue' = {<<f.pred, f.terms>> : f \in {g \in literals : g.op = "atom"}}
<1> DEFINE B == InitialFacts(literals)
           A == {<<f.pred, f.terms>> : f \in {g \in literals : g.op = "atom"}}
<1>1. /\ stage = "translated" /\ UniqueValues(B) /\ holds' = WithDerived(B) /\ facts' = facts
      /\ facts = Printed /\ Described
  BY DEF Start, AInv
<1>2. /\ \A x \in B : \E c \in GroundAtom \X BOOLEAN : x = ChangeFact(c)
      /\ literals \subseteq EffectLiteral /\ NoBinding \in Environments
  BY InitialChanges
<1>3. \A x \in B : x \in {LiteralFact(f, NoBinding) : f \in literals} \/ x[2] = FALSE
  <2> DEFINE stated == {LiteralFact(f, NoBinding) : f \in literals}
  <2>1. \A x \in B : x \in stated \/ \E y \in VariableFacts({}) : x = <<y[1], FALSE>>
    BY DEF InitialFacts
  <2> HIDE DEF stated, B
  <2>2. \A y : <<y[1], FALSE>>[2] = FALSE
    OBVIOUS
  <2>3. \A x \in B : x \in stated \/ x[2] = FALSE
    BY <2>1, <2>2
  <2> QED BY <2>3 DEF stated
<1>4. \A f \in literals : LiteralFact(f, NoBinding) \in B
  BY DEF InitialFacts
<1> HIDE DEF B
<1>5. \A g \in GroundAtom : g \in AtomsTrue' <=> ChangeFact(<<g, TRUE>>) \in B
  BY <1>1, <1>2, NextValues
<1>6. ASSUME NEW f \in literals
      PROVE  /\ LiteralChange(f, NoBinding) \in GroundAtom \X BOOLEAN
             /\ LiteralFact(f, NoBinding) = ChangeFact(LiteralChange(f, NoBinding))
             /\ LiteralChange(f, NoBinding) = <<<<AtomOf(f).pred, AtomOf(f).terms>>, f.op = "atom">>
             /\ f.op = "atom" => AtomOf(f) = f
  <2>1. (f.op # "not") = (f.op = "atom")
    BY InitialLiteral
  <2>2. f.op = "atom" => AtomOf(f) = f
    BY DEF AtomOf
  <2> QED BY <1>2, <2>1, <2>2, InitialLiteral, LiteralFacts
<1>7. ASSUME NEW g \in GroundAtom, ChangeFact(<<g, TRUE>>) \in B PROVE g \in A
  <2> DEFINE c == <<g, TRUE>>
  <2>1. c \in GroundAtom \X BOOLEAN /\ c[1] = g /\ c[2] = TRUE
    OBVIOUS
  <2>2. ChangeFact(c)[2] = TRUE /\ ChangeFact(c) \in B
    BY <1>7 DEF ChangeFact
  <2> HIDE DEF c
  <2>3. PICK f \in literals : ChangeFact(c) = LiteralFact(f, NoBinding)
    BY <1>3, <2>2
  <2>4. c = LiteralChange(f, NoBinding)
    BY <1>6, <2>1, <2>3, ChangeFacts
  <2>5. f.op = "atom" /\ g = <<f.pred, f.terms>>
    BY <1>6, <2>1, <2>4
  <2> QED BY <2>5
<1>8. ASSUME NEW f \in literals, f.op = "atom"
      PROVE  <<f.pred, f.terms>> \in AtomsTrue'
  <2> DEFINE g == <<f.pred, f.terms>>
  <2>1. LiteralChange(f, NoBinding) = <<g, TRUE>>
    <3>1. (f.op = "atom") = TRUE
      BY <1>8
    <3> QED BY <1>6, <1>8, <3>1
  <2> HIDE DEF g
  <2>2. g \in GroundAtom /\ ChangeFact(<<g, TRUE>>) \in B
    <3> DEFINE c == LiteralChange(f, NoBinding)
    <3>1. c \in GroundAtom \X BOOLEAN /\ LiteralFact(f, NoBinding) = ChangeFact(c)
      BY <1>6
    <3>2. LiteralFact(f, NoBinding) \in B
      BY <1>4
    <3>3. c[1] \in GroundAtom /\ c[1] = g
      BY <2>1, <3>1
    <3> QED BY <2>1, <3>1, <3>2, <3>3
  <2> QED BY <1>5, <2>2 DEF g
<1>9. AtomsTrue' \subseteq GroundAtom
  BY DEF AtomsTrue
<1>10. \A x : x \in AtomsTrue' <=> x \in A
  BY <1>5, <1>7, <1>8, <1>9
<1> QED BY <1>10

\* An action that occurs does to the state what the description says.
LEMMA OccursResult ==
  ASSUME AInv, ConditionalEffectsPlain, NEW i, NEW os, ActionAt(i, os), Occurs(<<i, os>>)
  PROVE  LET S == SourceChanges(actions[i], os)
         IN  AtomsTrue' = (AtomsTrue \ {c[1] : c \in {d \in S : ~d[2]}}) \cup {c[1] : c \in {d \in S : d[2]}}
<1> DEFINE a == <<i, os>>
           B == Inertia(a)
           S == SourceChanges(actions[i], os)
           R == (AtomsTrue \ {c[1] : c \in {d \in S : ~d[2]}}) \cup {c[1] : c \in {d \in S : d[2]}}
<1>1. /\ stage = "planning" /\ UniqueValues(B) /\ holds' = WithDerived(B) /\ facts' = facts
      /\ facts = Printed /\ Described
  BY DEF Occurs, AInv
<1>2. S \subseteq GroundAtom \X BOOLEAN
  BY <1>1, InSourceChanges
<1>3. caused(a) = {ChangeFact(c) : c \in S}
  <2>1. \A c \in S : ChangeFact(c) \in caused(a)
    BY <1>1, CausedComplete
  <2>2. \A x \in caused(a) : \E c \in S : x = ChangeFact(c)
    BY <1>1, CausedSound
  <2> HIDE DEF S, a
  <2> QED BY <2>1, <2>2
<1>4. /\ \A x \in B : \E c \in GroundAtom \X BOOLEAN : x = ChangeFact(c)
      /\ \A c \in GroundAtom \X BOOLEAN :
           ChangeFact(c) \in B <=>
             \/ c \in S
             \/ (c[2] <=> c[1] \in AtomsTrue) /\ \A b \in BOOLEAN : <<c[1], b>> \notin S
  BY <1>1, <1>2, <1>3, InertiaValues
<1> HIDE DEF a, B, S
<1>5. \A g \in GroundAtom : g \in AtomsTrue' <=> ChangeFact(<<g, TRUE>>) \in B
  BY <1>1, <1>4, NextValues
<1>6. ASSUME NEW g \in GroundAtom
      PROVE  g \in AtomsTrue' <=> \/ <<g, TRUE>> \in S
                                  \/ g \in AtomsTrue /\ <<g, TRUE>> \notin S /\ <<g, FALSE>> \notin S
  <2> DEFINE c == <<g, TRUE>>
  <2>1. c \in GroundAtom \X BOOLEAN /\ c[1] = g /\ c[2] = TRUE
    OBVIOUS
  <2> HIDE DEF c
  <2>2. ChangeFact(c) \in B <=> \/ c \in S
                                \/ (TRUE <=> g \in AtomsTrue) /\ \A b \in BOOLEAN : <<g, b>> \notin S
    BY <1>4, <2>1
  <2> QED BY <1>5, <2>2 DEF c
<1>7. ASSUME NEW g, NEW b \in BOOLEAN PROVE g \in {c[1] : c \in {d \in S : d[2] = b}} <=> <<g, b>> \in S
  <2>1. ASSUME NEW c \in S, c[2] = b, g = c[1] PROVE <<g, b>> \in S
    <3>1. c = <<c[1], c[2]>>
      BY <1>2
    <3> QED BY <2>1, <3>1
  <2>2. ASSUME <<g, b>> \in S PROVE \E c \in S : c[2] = b /\ g = c[1]
    <3> DEFINE c == <<g, b>>
    <3>1. c[1] = g /\ c[2] = b
      OBVIOUS
    <3> HIDE DEF c
    <3> QED BY <2>2, <3>1 DEF c
  <2> QED BY <2>1, <2>2
<1>8. {d \in S : ~d[2]} = {d \in S : d[2] = FALSE} /\ {d \in S : d[2]} = {d \in S : d[2] = TRUE}
  <2>1. \A d \in S : d[2] \in BOOLEAN
    BY <1>2
  <2> QED BY <2>1
<1>9. \A g : g \in R <=> (g \in AtomsTrue /\ <<g, FALSE>> \notin S) \/ <<g, TRUE>> \in S
  BY <1>7, <1>8
<1> HIDE DEF R
<1>10. AtomsTrue \subseteq GroundAtom /\ AtomsTrue' \subseteq GroundAtom
  BY DEF AtomsTrue
<1>11. \A g : g \in R => g \in GroundAtom
  <2>1. \A g : <<g, TRUE>> \in S => g \in GroundAtom
    BY <1>2
  <2> QED BY <1>9, <1>10, <2>1
<1>12. \A g : g \in AtomsTrue' <=> g \in R
  BY <1>6, <1>9, <1>10, <1>11
<1>13. AtomsTrue' = R
  BY <1>12
<1> QED BY <1>13 DEF R, S

\* Every step of the system is a step of the description, or leaves its variables alone.
LEMMA StepDescribed ==
  ASSUME AInv, ConditionalEffectsPlain, [ANext]_avars
  PROVE  [PDDL!Next]_<<actions, IF stage = "planning" THEN AtomsTrue ELSE NoState, time>>
<1> DEFINE before == IF stage = "planning" THEN AtomsTrue ELSE NoState
           after  == IF stage' = "planning" THEN AtomsTrue' ELSE NoState
<1>1. CASE ANormalize
  <2>1. stage = "domain" /\ IInv' /\ Next /\ time' = time
    BY <1>1, NormalizationStep DEF ANormalize, Normalize
  <2>2. before = NoState /\ after = NoState
    BY <2>1 DEF IInv
  <2>3. ASSUME NEW action \in Actions, NormalizeAction(action) PROVE PDDL!Read(action)
    <3>1. actions' = Append(actions, action)
      BY <2>3 DEF NormalizeAction
    <3> QED BY <2>1, <2>2, <3>1 DEF PDDL!Read
  <2>4. ASSUME NEW g \in Goals, NormalizeProblem(g) PROVE UNCHANGED <<actions, before, time>>
    <3>1. actions' = actions
      BY <2>4 DEF NormalizeProblem
    <3> QED BY <2>1, <2>2, <3>1
  <2> QED BY <2>1, <2>3, <2>4 DEF Next, PDDL!Next
<1>2. CASE TranslateAll
  <2>1. stage = "done" /\ stage' = "translated" /\ actions' = actions /\ time' = time
    BY <1>2 DEF TranslateAll, Translate
  <2>2. before = NoState /\ after = NoState
    BY <2>1
  <2> QED BY <2>1, <2>2
<1>3. ASSUME NEW literals \in InitialStates, Start(literals) PROVE PDDL!Begin(literals)
  <2>1. stage = "translated" /\ stage' = "planning" /\ actions' = actions /\ time' = time
    BY <1>3 DEF Start
  <2>2. AtomsTrue' = {<<f.pred, f.terms>> : f \in {g \in literals : g.op = "atom"}}
    BY <1>3, StartBegins
  <2>3. before = NoState /\ after = {<<f.pred, f.terms>> : f \in {g \in literals : g.op = "atom"}}
    BY <2>1, <2>2
  <2> QED BY <2>1, <2>3 DEF PDDL!Begin
<1>4. ASSUME NEW a \in output.action, Occurs(a) PROVE PDDL!Next
  <2>1. /\ stage = "planning" /\ stage' = "planning" /\ actions' = actions /\ time' = time + 1 /\ time < Horizon
        /\ Possible(a)
    BY <1>4 DEF Occurs, vars
  <2>2. PICK i, os : ActionAt(i, os) /\ a = <<i, os>>
    BY <2>1, PrintedActions
  <2>3. before = AtomsTrue /\ after = AtomsTrue' /\ AtomsTrue # NoState
    <3>1. AtomsTrue \in SUBSET GroundAtom
      BY DEF AtomsTrue
    <3> QED BY <2>1, <3>1, NoStateAssumption
  <2>4. PDDL!PreconditionTrue(actions[i], os)
    BY <2>1, <2>2, PossibleTrue, DescribedStep
  <2>5. after = PDDL!Result(actions[i], os)
    <3> DEFINE S == SourceChanges(actions[i], os)
    <3>1. AtomsTrue' = (AtomsTrue \ {c[1] : c \in {d \in S : ~d[2]}}) \cup {c[1] : c \in {d \in S : d[2]}}
      BY <1>4, <2>2, OccursResult
    <3>2. PDDL!ActionChanges(actions[i], os) = S
      BY <2>1, DescribedStep
    <3> HIDE DEF S
    <3> QED BY <2>3, <3>1, <3>2 DEF PDDL!Result
  <2>6. PDDL!Occurs(actions[i], os)
    BY <2>1, <2>3, <2>4, <2>5 DEF PDDL!Occurs
  <2>7. i \in DOMAIN actions /\ os \in PDDL!Tuples(actions[i].parameters)
    BY <2>2, SameMeaning DEF ActionAt
  <2> QED BY <2>6, <2>7 DEF PDDL!Next
<1>5. CASE UNCHANGED avars
  <2>1. UNCHANGED <<stage, actions, holds, time>>
    BY <1>5 DEF avars, tvars, vars
  <2>2. AtomsTrue' = AtomsTrue
    BY <2>1 DEF AtomsTrue
  <2> QED BY <2>1, <2>2
<1> QED BY <1>1, <1>2, <1>3, <1>4, <1>5 DEF ANext, PDDL!Next

\* Where the conditions of "when" effects are plain and the same wherever they are
\* placed, each of the solver's plans is a plan of the description, of whatever
\* depth its conditions and effects: what TranslatorASP prints for actions and
\* sequential-horizon.lp makes of it never takes a step PDDL forbids, nor one with
\* another result.
THEOREM PlansAreDescribed == ASpec /\ []ConditionalEffectsPlain => ImplementsPDDL
<1>1. AInit => PDDL!Init
  <2> SUFFICES ASSUME AInit PROVE PDDL!Init
    OBVIOUS
  <2>1. stage = "domain" /\ actions = <<>> /\ time = 0
    BY DEF AInit, TInit, Init
  <2> QED BY <2>1 DEF PDDL!Init
<1>2. AInv /\ ConditionalEffectsPlain /\ [ANext]_avars
        => [PDDL!Next]_<<actions, IF stage = "planning" THEN AtomsTrue ELSE NoState, time>>
  BY StepDescribed
<1> QED BY <1>1, <1>2, PlanKept, PTL DEF ASpec, ImplementsPDDL, PDDL!Spec
=============================================================================
