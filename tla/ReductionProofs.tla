--------------------------- MODULE ReductionProofs ---------------------------
(***************************************************************************)
(* The passes keep what a precondition of any depth says and its leaves,   *)
(* and leave what the next one can handle.  A pass is a function defined   *)
(* by recursion; Recursion shows that there is one, which unfolds it, and  *)
(* each pass is then an induction over the depth of the trees.             *)
(***************************************************************************)
EXTENDS Reduction, WellFoundedInduction, TLAPS

-----------------------------------------------------------------------------
\* A set of natural numbers has a least element.
LEMMA LeastNatural ==
  \A T \in SUBSET Nat : \A t \in T : \E m \in T : \A k \in T : m <= k
<1> SUFFICES ASSUME NEW T \in SUBSET Nat, NEW t \in T
             PROVE  \E m \in T : \A k \in T : m <= k
  OBVIOUS
<1> DEFINE R == {s \in Nat \X Nat : s[1] < s[2]}
<1>1. IsWellFoundedOn(R, Nat)
  BY NatLessThanWellFounded DEF OpToRel
<1>2. PICK m \in T : \A k \in T : <<k, m>> \notin R
  <2> HIDE DEF R
  <2> QED BY <1>1, WFMin, Zenon
<1>3. ASSUME NEW k \in T, ~(m <= k) PROVE FALSE
  <2>1. <<k, m>> \in Nat \X Nat /\ k < m
    BY <1>3
  <2> QED BY <1>2, <2>1
<1> QED BY <1>3

-----------------------------------------------------------------------------
(***************************************************************************)
(* The trees.                                                              *)
(***************************************************************************)
\* The body of Trees.
TreesDef(p, g, n) == IF n = 0 THEN Leaf ELSE Leaf \cup Node(g[n - 1])
TreesR == INSTANCE Recursion WITH Def <- TreesDef

\* What holds of x whenever it holds of everything of a lower rank, holds throughout.
LEMMA RankInduction ==
  ASSUME NEW D, NEW rank \in [D -> Nat], NEW S,
         \A x \in D : (\A y \in D : rank[y] < rank[x] => y \in S) => x \in S
  PROVE  D \subseteq S
BY LeastNatural, TreesR!RankInduction

\* Trees, unfolded once.
LEMMA TreesAt ==
  \A n \in Nat : Trees[n] = IF n = 0 THEN Leaf ELSE Leaf \cup Node(Trees[n - 1])
<1> DEFINE rank == [n \in Nat |-> n]
<1>1. TreesR!Grounded(0, Nat, rank)
  <2> SUFFICES ASSUME NEW n \in Nat, NEW g, NEW h,
                      \A m \in Nat : rank[m] < rank[n] => g[m] = h[m]
               PROVE  TreesDef(0, g, n) = TreesDef(0, h, n)
    BY DEF TreesR!Grounded
  <2>1. CASE n = 0
    BY <2>1 DEF TreesDef
  <2>2. CASE n # 0
    <3>1. n - 1 \in Nat /\ n - 1 < n
      BY <2>2
    <3>2. g[n - 1] = h[n - 1]
      BY <3>1
    <3> QED BY <2>2, <3>2 DEF TreesDef
  <2> QED BY <2>1, <2>2
<1>2. \E F : F = [n \in Nat |-> TreesDef(0, F, n)]
  <2>1. rank \in [Nat -> Nat]
    OBVIOUS
  <2> HIDE DEF rank
  <2> QED BY <1>1, <2>1, TreesR!RecursiveFunction, LeastNatural
<1>3. Trees = [n \in Nat |-> IF n = 0 THEN Leaf ELSE Leaf \cup Node(Trees[n - 1])]
  BY <1>2, Zenon DEF Trees, TreesDef
<1> QED BY <1>3

-----------------------------------------------------------------------------
\* A leaf is no node, and a node has the number of arguments its operator takes.
LEMMA LeafIsLeaf == \A f \in Leaf : IsLeaf(f)
BY DEF Leaf, Atomic, IsLeaf

\* What a node consists of.
LEMMA NodeParts ==
  ASSUME NEW S, NEW f \in Node(S)
  PROVE  /\ ~IsLeaf(f) /\ f.op \in {"and", "or", "imply", "not", "exists", "forall"}
         /\ f.args \in Seq(S)
         /\ f.op = "imply" => Len(f.args) = 2
         /\ f.op \in {"not", "exists", "forall"} => Len(f.args) = 1
         /\ Quantified(f) => f.vars \in Seq(Var) /\ IsInjective(f.vars)
BY DEF Node, Connective, Quantifier, IsLeaf, Quantified

\* What is left of a node when its arguments are replaced.
LEMMA NodeRebuilt ==
  ASSUME NEW S, NEW f \in Node(S), NEW T, NEW args \in Seq(T), Len(args) = Len(f.args)
  PROVE  LET g == [f EXCEPT !.args = args]
         IN  /\ g \in Node(T) /\ g.op = f.op /\ g.args = args
             /\ Quantified(f) => g.vars = f.vars
<1>1. CASE f \in Connective(S)
  <2> DEFINE R == [op : {"and", "or", "imply", "not"}, args : Seq(S)]
  <2>1. f \in R
    BY <1>1 DEF Connective
  <2>2. PICK o \in {"and", "or", "imply", "not"}, a \in Seq(S) : f = [op |-> o, args |-> a]
    BY <2>1
  <2>3. [f EXCEPT !.args = args] = [op |-> o, args |-> args]
    BY <2>2
  <2>4. (o = "imply" => Len(args) = 2) /\ (o = "not" => Len(args) = 1)
    BY <1>1, <2>2 DEF Connective
  <2>5. [op |-> o, args |-> args] \in Connective(T)
    BY <2>4 DEF Connective
  <2>6. ~Quantified(f)
    BY <2>2 DEF Quantified
  <2> QED BY <2>2, <2>3, <2>5, <2>6 DEF Node
<1>2. CASE f \in Quantifier(S)
  <2>1. /\ f \in [op : {"exists", "forall"}, vars : Seq(Var), args : Seq(S)]
        /\ IsInjective(f.vars) /\ Len(f.args) = 1
    BY <1>2 DEF Quantifier
  <2>2. PICK o \in {"exists", "forall"}, xs \in Seq(Var), a \in Seq(S) :
          f = [op |-> o, vars |-> xs, args |-> a]
    BY <2>1
  <2>3. [f EXCEPT !.args = args] = [op |-> o, vars |-> xs, args |-> args]
    BY <2>2
  <2>4. [op |-> o, vars |-> xs, args |-> args] \in Quantifier(T)
    <3>1. IsInjective(xs) /\ Len(args) = 1
      BY <2>1, <2>2
    <3> QED BY <3>1 DEF Quantifier
  <2> QED BY <2>2, <2>3, <2>4 DEF Node
<1> QED BY <1>1, <1>2 DEF Node

\* Nodes over some trees are nodes over more of them.
LEMMA NodeGrows ==
  ASSUME NEW S, NEW T, S \subseteq T
  PROVE  Node(S) \subseteq Node(T)
<1> SUFFICES ASSUME NEW f \in Node(S) PROVE f \in Node(T)
  OBVIOUS
<1>1. Seq(S) \subseteq Seq(T)
  OBVIOUS
<1> QED BY <1>1 DEF Node, Connective, Quantifier

\* Trees that nest at most n connectives nest at most m, for any greater m.
LEMMA TreesGrow == \A n \in Nat : \A m \in Nat : m <= n => Trees[m] \subseteq Trees[n]
<1> DEFINE S == {n \in Nat : \A m \in Nat : m <= n => Trees[m] \subseteq Trees[n]}
           rank == [n \in Nat |-> n]
<1>1. ASSUME NEW n \in Nat, \A k \in Nat : rank[k] < rank[n] => k \in S
      PROVE  n \in S
  <2> SUFFICES ASSUME NEW m \in Nat, m <= n PROVE Trees[m] \subseteq Trees[n]
    OBVIOUS
  <2>1. CASE m = 0
    <3>1. Trees[m] = Leaf
      BY <2>1, TreesAt
    <3> QED BY <3>1, TreesAt
  <2>2. CASE m # 0
    <3>1. m - 1 \in Nat /\ n - 1 \in Nat /\ m - 1 <= n - 1 /\ n - 1 < n /\ n # 0
      BY <2>2
    <3>2. Trees[m - 1] \subseteq Trees[n - 1]
      BY <1>1, <3>1
    <3>3. Node(Trees[m - 1]) \subseteq Node(Trees[n - 1])
      BY <3>2, NodeGrows
    <3>4. Trees[m] = Leaf \cup Node(Trees[m - 1]) /\ Trees[n] = Leaf \cup Node(Trees[n - 1])
      BY <2>2, <3>1, TreesAt
    <3> QED BY <3>3, <3>4
  <2> QED BY <2>1, <2>2
<1>2. Nat \subseteq S
  <2>1. rank \in [Nat -> Nat]
    OBVIOUS
  <2> HIDE DEF S, rank
  <2> QED BY <1>1, <2>1, RankInduction
<1> QED BY <1>2

\* How deep a tree is.
Height == [f \in Formulas |-> CHOOSE n \in Nat : f \in Trees[n] /\ \A m \in Nat : f \in Trees[m] => n <= m]

\* It is the least of the depths that allow the tree.
LEMMA HeightLeast ==
  /\ Height \in [Formulas -> Nat]
  /\ \A f \in Formulas : f \in Trees[Height[f]] /\ \A m \in Nat : f \in Trees[m] => Height[f] <= m
<1>1. \A f \in Formulas :
        /\ Height[f] \in Nat /\ f \in Trees[Height[f]]
        /\ \A m \in Nat : f \in Trees[m] => Height[f] <= m
  <2> TAKE f \in Formulas
  <2> DEFINE T == {n \in Nat : f \in Trees[n]}
  <2>1. T \in SUBSET Nat /\ 6 * Depth \in T
    BY DepthAssumption DEF Formulas
  <2>2. \E m \in T : \A k \in T : m <= k
    <3> HIDE DEF T
    <3> QED BY <2>1, LeastNatural
  <2>3. \E n \in Nat : f \in Trees[n] /\ \A m \in Nat : f \in Trees[m] => n <= m
    BY <2>2
  <2>4. Height[f] = CHOOSE n \in Nat : f \in Trees[n] /\ \A m \in Nat : f \in Trees[m] => n <= m
    BY DEF Height
  <2> QED BY <2>3, <2>4
<1> QED BY <1>1 DEF Height

\* The arguments of a node are trees of a lower height.
LEMMA Subtrees ==
  ASSUME NEW f \in Formulas, ~IsLeaf(f)
  PROVE  /\ f.args \in Seq(Formulas) /\ f \in Node(Formulas)
         /\ \A i \in DOMAIN f.args : f.args[i] \in Formulas /\ Height[f.args[i]] < Height[f]
<1> DEFINE n == Height[f]
<1>1. n \in Nat /\ f \in Trees[n] /\ n <= 6 * Depth /\ 6 * Depth \in Nat
  BY HeightLeast, DepthAssumption DEF Formulas
<1>2. n # 0 /\ f \in Node(Trees[n - 1])
  <2> HIDE DEF n
  <2> QED BY <1>1, TreesAt, LeafIsLeaf
<1> HIDE DEF n
<1>3. n - 1 \in Nat /\ n - 1 <= 6 * Depth
  BY <1>1, <1>2
<1>4. Trees[n - 1] \subseteq Formulas
  BY <1>1, <1>3, TreesGrow DEF Formulas
<1>5. f.args \in Seq(Trees[n - 1])
  BY <1>2, NodeParts
<1>6. \A i \in DOMAIN f.args : f.args[i] \in Trees[n - 1]
  BY <1>5
<1>7. \A i \in DOMAIN f.args : f.args[i] \in Formulas /\ Height[f.args[i]] < n
  <2> TAKE i \in DOMAIN f.args
  <2>1. f.args[i] \in Formulas /\ Height[f.args[i]] <= n - 1 /\ Height[f.args[i]] \in Nat
    BY <1>3, <1>4, <1>6, HeightLeast
  <2> QED BY <1>1, <2>1
<1>8. f.args \in Seq(Formulas) /\ f \in Node(Formulas)
  BY <1>2, <1>4, <1>5, NodeGrows
<1> QED BY <1>7, <1>8 DEF n

-----------------------------------------------------------------------------
(***************************************************************************)
(* The definitions by recursion, unfolded once.                            *)
(***************************************************************************)
\* The body of eliminateImply.
ImplyDef(p, g, f) ==
  LET args == [i \in DOMAIN f.args |-> g[f.args[i]]]
  IN  IF IsLeaf(f) THEN f
      ELSE IF f.op = "imply" THEN Disjunction(args[1], args[2])
      ELSE [f EXCEPT !.args = args]
ImplyR == INSTANCE Recursion WITH Def <- ImplyDef

\* Two functions that agree on the trees of a lower height agree on the arguments.
LEMMA ArgumentsAgree ==
  ASSUME NEW f \in Formulas, ~IsLeaf(f), NEW g, NEW h,
         \A e \in Formulas : Height[e] < Height[f] => g[e] = h[e]
  PROVE  /\ [i \in DOMAIN f.args |-> g[f.args[i]]] = [i \in DOMAIN f.args |-> h[f.args[i]]]
         /\ \A i \in DOMAIN f.args : g[f.args[i]] = h[f.args[i]]
<1>1. \A i \in DOMAIN f.args : f.args[i] \in Formulas /\ Height[f.args[i]] < Height[f]
  BY Subtrees
<1> QED BY <1>1

\* eliminateImply, unfolded once.
LEMMA ImplyAt == \A f \in Formulas : eliminateImply[f] = ImplyDef(0, eliminateImply, f)
<1>1. ImplyR!Grounded(0, Formulas, Height)
  <2> SUFFICES ASSUME NEW f \in Formulas, NEW g, NEW h,
                      \A e \in Formulas : Height[e] < Height[f] => g[e] = h[e]
               PROVE  ImplyDef(0, g, f) = ImplyDef(0, h, f)
    BY DEF ImplyR!Grounded
  <2>1. CASE IsLeaf(f)
    BY <2>1 DEF ImplyDef
  <2>2. CASE ~IsLeaf(f)
    <3> DEFINE A == [i \in DOMAIN f.args |-> g[f.args[i]]]
               B == [i \in DOMAIN f.args |-> h[f.args[i]]]
    <3>1. A = B
      BY <2>2, ArgumentsAgree
    <3> HIDE DEF A, B
    <3> QED BY <3>1 DEF ImplyDef, A, B
  <2> QED BY <2>1, <2>2
<1>2. \E F : F = [f \in Formulas |-> ImplyDef(0, F, f)]
  BY <1>1, HeightLeast, ImplyR!RecursiveFunction, LeastNatural
<1>3. eliminateImply = [f \in Formulas |-> ImplyDef(0, eliminateImply, f)]
  BY <1>2, Zenon DEF eliminateImply, ImplyDef
<1> QED BY <1>3

\* The body of eliminateForAll.
ForAllDef(p, g, f) ==
  LET args == [i \in DOMAIN f.args |-> g[f.args[i]]]
  IN  IF IsLeaf(f) THEN f
      ELSE IF f.op = "forall" THEN NegatedExists(f.vars, args[1])
      ELSE [f EXCEPT !.args = args]
ForAllR == INSTANCE Recursion WITH Def <- ForAllDef

\* eliminateForAll, unfolded once.
LEMMA ForAllAt == \A f \in Formulas : eliminateForAll[f] = ForAllDef(0, eliminateForAll, f)
<1>1. ForAllR!Grounded(0, Formulas, Height)
  <2> SUFFICES ASSUME NEW f \in Formulas, NEW g, NEW h,
                      \A e \in Formulas : Height[e] < Height[f] => g[e] = h[e]
               PROVE  ForAllDef(0, g, f) = ForAllDef(0, h, f)
    BY DEF ForAllR!Grounded
  <2>1. CASE IsLeaf(f)
    BY <2>1 DEF ForAllDef
  <2>2. CASE ~IsLeaf(f)
    <3> DEFINE A == [i \in DOMAIN f.args |-> g[f.args[i]]]
               B == [i \in DOMAIN f.args |-> h[f.args[i]]]
    <3>1. A = B
      BY <2>2, ArgumentsAgree
    <3> HIDE DEF A, B
    <3> QED BY <3>1 DEF ForAllDef, A, B
  <2> QED BY <2>1, <2>2
<1>2. \E F : F = [f \in Formulas |-> ForAllDef(0, F, f)]
  BY <1>1, HeightLeast, ForAllR!RecursiveFunction, LeastNatural
<1>3. eliminateForAll = [f \in Formulas |-> ForAllDef(0, eliminateForAll, f)]
  BY <1>2, Zenon DEF eliminateForAll, ForAllDef
<1> QED BY <1>3

\* The body of Models.
ModelsDef(I, M, f) == Satisfying(M, f, I)
ModelsR == INSTANCE Recursion WITH Def <- ModelsDef

\* What a node is true in follows from what its arguments are true in.
LEMMA ModelsAgree ==
  ASSUME NEW I, NEW S, NEW f \in Node(S), NEW g \in Node(S), NEW M, NEW N,
         f.op = g.op, Quantified(f) => f.vars = g.vars, DOMAIN f.args = DOMAIN g.args,
         \A i \in DOMAIN f.args : M[f.args[i]] = N[g.args[i]]
  PROVE  Satisfying(M, f, I) = Satisfying(N, g, I)
<1>1. f.op \in {"and", "or", "imply", "not", "exists", "forall"} /\ ~IsLeaf(f) /\ ~IsLeaf(g)
  BY NodeParts
<1>2. f.op \in {"not", "exists", "forall", "imply"} => 1 \in DOMAIN f.args
  BY NodeParts
<1>3. f.op = "imply" => 2 \in DOMAIN f.args
  BY NodeParts
<1>4. CASE f.op = "not"
  BY <1>1, <1>2, <1>4 DEF Satisfying
<1>5. CASE f.op = "and"
  BY <1>1, <1>5 DEF Satisfying
<1>6. CASE f.op = "or"
  BY <1>1, <1>6 DEF Satisfying
<1>7. CASE f.op = "imply"
  BY <1>1, <1>2, <1>3, <1>7 DEF Satisfying
<1>8. CASE f.op = "exists"
  <2>1. f.vars = g.vars
    BY <1>8 DEF Quantified
  <2> QED BY <1>1, <1>2, <1>8, <2>1 DEF Satisfying
<1>9. CASE f.op = "forall"
  <2>1. f.vars = g.vars
    BY <1>9 DEF Quantified
  <2> QED BY <1>1, <1>2, <1>9, <2>1 DEF Satisfying
<1> QED BY <1>1, <1>4, <1>5, <1>6, <1>7, <1>8, <1>9

\* Models, unfolded once.
LEMMA ModelsAt == \A I : \A f \in Formulas : Models(I)[f] = Satisfying(Models(I), f, I)
<1> SUFFICES ASSUME NEW I PROVE \A f \in Formulas : Models(I)[f] = Satisfying(Models(I), f, I)
  OBVIOUS
<1>1. ModelsR!Grounded(I, Formulas, Height)
  <2> SUFFICES ASSUME NEW f \in Formulas, NEW g, NEW h,
                      \A e \in Formulas : Height[e] < Height[f] => g[e] = h[e]
               PROVE  ModelsDef(I, g, f) = ModelsDef(I, h, f)
    BY DEF ModelsR!Grounded
  <2>1. CASE IsLeaf(f)
    BY <2>1 DEF ModelsDef, Satisfying
  <2>2. CASE ~IsLeaf(f)
    <3>1. f \in Node(Formulas) /\ \A i \in DOMAIN f.args : g[f.args[i]] = h[f.args[i]]
      BY <2>2, ArgumentsAgree, Subtrees
    <3> QED BY <3>1, ModelsAgree DEF ModelsDef
  <2> QED BY <2>1, <2>2
<1>2. \E F : F = [f \in Formulas |-> ModelsDef(I, F, f)]
  BY <1>1, HeightLeast, ModelsR!RecursiveFunction, LeastNatural
<1>3. Models(I) = [f \in Formulas |-> ModelsDef(I, Models(I), f)]
  BY <1>2, Zenon DEF Models, ModelsDef
<1> QED BY <1>3 DEF ModelsDef

\* The body of Leaves.
LeavesDef(p, g, f) ==
  IF IsLeaf(f) THEN <<f>> ELSE FlattenSeq([i \in DOMAIN f.args |-> g[f.args[i]]])
LeavesR == INSTANCE Recursion WITH Def <- LeavesDef

\* Leaves, unfolded once.
LEMMA LeavesAt == \A f \in Formulas : Leaves[f] = LeavesDef(0, Leaves, f)
<1>1. LeavesR!Grounded(0, Formulas, Height)
  <2> SUFFICES ASSUME NEW f \in Formulas, NEW g, NEW h,
                      \A e \in Formulas : Height[e] < Height[f] => g[e] = h[e]
               PROVE  LeavesDef(0, g, f) = LeavesDef(0, h, f)
    BY DEF LeavesR!Grounded
  <2>1. CASE IsLeaf(f)
    BY <2>1 DEF LeavesDef
  <2>2. CASE ~IsLeaf(f)
    <3> DEFINE A == [i \in DOMAIN f.args |-> g[f.args[i]]]
               B == [i \in DOMAIN f.args |-> h[f.args[i]]]
    <3>1. A = B
      BY <2>2, ArgumentsAgree
    <3> HIDE DEF A, B
    <3> QED BY <3>1 DEF LeavesDef, A, B
  <2> QED BY <2>1, <2>2
<1>2. \E F : F = [f \in Formulas |-> LeavesDef(0, F, f)]
  BY <1>1, HeightLeast, LeavesR!RecursiveFunction, LeastNatural
<1>3. Leaves = [f \in Formulas |-> LeavesDef(0, Leaves, f)]
  BY <1>2, Zenon DEF Leaves, LeavesDef
<1> QED BY <1>3

\* The body of Subformulas.
SubformulasDef(p, g, f) ==
  {f} \cup (IF IsLeaf(f) THEN {} ELSE UNION {g[f.args[i]] : i \in DOMAIN f.args})
SubformulasR == INSTANCE Recursion WITH Def <- SubformulasDef

\* Subformulas, unfolded once.
LEMMA SubformulasAt == \A f \in Formulas : Subformulas[f] = SubformulasDef(0, Subformulas, f)
<1>1. SubformulasR!Grounded(0, Formulas, Height)
  <2> SUFFICES ASSUME NEW f \in Formulas, NEW g, NEW h,
                      \A e \in Formulas : Height[e] < Height[f] => g[e] = h[e]
               PROVE  SubformulasDef(0, g, f) = SubformulasDef(0, h, f)
    BY DEF SubformulasR!Grounded
  <2>1. CASE IsLeaf(f)
    BY <2>1 DEF SubformulasDef
  <2>2. CASE ~IsLeaf(f)
    <3> DEFINE A == {g[f.args[i]] : i \in DOMAIN f.args}
               B == {h[f.args[i]] : i \in DOMAIN f.args}
    <3>1. A = B
      BY <2>2, ArgumentsAgree
    <3> HIDE DEF A, B
    <3> QED BY <3>1 DEF SubformulasDef, A, B
  <2> QED BY <2>1, <2>2
<1>2. \E F : F = [f \in Formulas |-> SubformulasDef(0, F, f)]
  BY <1>1, HeightLeast, SubformulasR!RecursiveFunction, LeastNatural
<1>3. Subformulas = [f \in Formulas |-> SubformulasDef(0, Subformulas, f)]
  BY <1>2, Zenon DEF Subformulas, SubformulasDef
<1> QED BY <1>3

-----------------------------------------------------------------------------
\* What the constructors build, and how deep.
LEMMA NotNode ==
  ASSUME NEW S, NEW f \in S
  PROVE  Not(f) \in Node(S) /\ Not(f).op = "not" /\ Not(f).args = <<f>>
BY DEF Not, Node, Connective

\* A conjunction and a disjunction.
LEMMA JunctionNode ==
  ASSUME NEW S, NEW fs \in Seq(S)
  PROVE  /\ And(fs) \in Node(S) /\ And(fs).op = "and" /\ And(fs).args = fs
         /\ Or(fs) \in Node(S) /\ Or(fs).op = "or" /\ Or(fs).args = fs
BY DEF And, Or, Node, Connective

\* An existential quantifier.
LEMMA ExistsNode ==
  ASSUME NEW S, NEW f \in S, NEW xs \in Seq(Var), IsInjective(xs)
  PROVE  /\ Exists(xs, f) \in Node(S) /\ Exists(xs, f).op = "exists"
         /\ Exists(xs, f).args = <<f>> /\ Exists(xs, f).vars = xs
BY DEF Exists, Node, Quantifier

\* Leaves and nodes are trees.
LEMMA NodeTree ==
  ASSUME NEW n \in Nat
  PROVE  Leaf \subseteq Trees[n] /\ Node(Trees[n]) \subseteq Trees[n + 1]
<1>1. n + 1 \in Nat /\ n + 1 # 0 /\ (n + 1) - 1 = n
  OBVIOUS
<1> QED BY <1>1, TreesAt

\* A tree of height n is a leaf or a node over trees of height n - 1.
LEMMA TreeCases ==
  ASSUME NEW n \in Nat, NEW f \in Trees[n]
  PROVE  \/ f \in Leaf /\ IsLeaf(f)
         \/ n # 0 /\ n - 1 \in Nat /\ f \in Node(Trees[n - 1]) /\ ~IsLeaf(f)
<1>1. CASE f \in Leaf
  BY <1>1, LeafIsLeaf
<1>2. CASE f \notin Leaf
  <2>1. n # 0 /\ f \in Node(Trees[n - 1])
    BY <1>2, TreesAt
  <2>2. n - 1 \in Nat
    BY <2>1
  <2> QED BY <2>1, <2>2, NodeParts
<1> QED BY <1>1, <1>2

\* Trees of a bounded depth are among those the passes are defined on.
LEMMA TreesAreFormulas == \A n \in Nat : n <= 6 * Depth => Trees[n] \subseteq Formulas
BY TreesGrow, DepthAssumption DEF Formulas

\* A "not" is at most one higher than its argument.
LEMMA NotHeight ==
  ASSUME NEW f \in Formulas, Height[f] + 1 <= 6 * Depth
  PROVE  Not(f) \in Formulas /\ Height[Not(f)] <= Height[f] + 1
<1>1. Height[f] \in Nat /\ f \in Trees[Height[f]]
  BY HeightLeast
<1> DEFINE n == Height[f]
<1>2. Not(f) \in Node(Trees[n])
  BY <1>1, NotNode
<1>3. n \in Nat /\ n + 1 \in Nat
  BY <1>1
<1> HIDE DEF n
<1>4. Not(f) \in Trees[n + 1]
  BY <1>2, <1>3, NodeTree
<1>5. Not(f) \in Formulas
  BY <1>3, <1>4, TreesAreFormulas DEF n
<1> QED BY <1>3, <1>4, <1>5, HeightLeast DEF n

\* The body of negationNormalize.
NegationDef(p, nn, f) ==
  LET Inside(g)  == [g EXCEPT !.args = [i \in DOMAIN g.args |-> nn[g.args[i]]]]
      Negated(g) == CASE g.op \in {"and", "or"} -> Inside(DeMorgan(g))
                      [] g.op = "not"           -> nn[g.args[1]]
                      [] Quantified(g)          -> Not(Inside(g))
                      [] OTHER                  -> Not(g)
  IN  CASE IsLeaf(f)     -> f
        [] f.op = "not"  -> Negated(f.args[1])
        [] OTHER         -> Inside(f)
NegationR == INSTANCE Recursion WITH Def <- NegationDef

\* An "and" or "or" with its arguments negated: its arguments are "not"s.
LEMMA DeMorganNode ==
  ASSUME NEW S, NEW f \in Node(S), f.op \in {"and", "or"}
  PROVE  LET g == DeMorgan(f)
         IN  /\ g \in Node(Node(S)) /\ ~IsLeaf(g) /\ ~Quantified(g)
             /\ g.op = IF f.op = "and" THEN "or" ELSE "and"
             /\ DOMAIN g.args = DOMAIN f.args /\ Len(g.args) = Len(f.args)
             /\ g.args = [i \in DOMAIN f.args |-> Not(f.args[i])]
<1> DEFINE ns == Apply(Not, f.args)
<1>1. f.args \in Seq(S)
  BY NodeParts
<1>2. ns = [i \in DOMAIN f.args |-> Not(f.args[i])]
  BY DEF Apply
<1>3. \A i \in DOMAIN f.args : Not(f.args[i]) \in Node(S)
  BY <1>1, NotNode
<1>4. ns \in Seq(Node(S)) /\ DOMAIN ns = DOMAIN f.args /\ Len(ns) = Len(f.args)
  BY <1>1, <1>2, <1>3
<1> HIDE DEF ns
<1>5. /\ And(ns) \in Node(Node(S)) /\ And(ns).op = "and" /\ And(ns).args = ns
      /\ Or(ns) \in Node(Node(S)) /\ Or(ns).op = "or" /\ Or(ns).args = ns
  BY <1>4, JunctionNode
<1>6. DeMorgan(f) = IF f.op = "and" THEN Or(ns) ELSE And(ns)
  BY DEF DeMorgan, ns
<1> QED BY <1>2, <1>4, <1>5, <1>6 DEF IsLeaf, Quantified

\* Under a "not", De Morgan's rules negate trees of a height below that of the "not".
LEMMA NegatedLower ==
  ASSUME NEW f \in Formulas, f.op = "not", f.args[1].op \in {"and", "or"}
  PROVE  \A i \in DOMAIN f.args[1].args :
           LET e == Not(f.args[1].args[i]) IN e \in Formulas /\ Height[e] < Height[f]
<1> DEFINE g == f.args[1]
<1>1. ~IsLeaf(f)
  BY DEF IsLeaf
<1>2. f \in Node(Formulas)
  BY <1>1, Subtrees
<1>3. Len(f.args) = 1 /\ f.args \in Seq(Formulas)
  BY <1>2, NodeParts
<1>4. g \in Formulas /\ Height[g] < Height[f]
  BY <1>1, <1>3, Subtrees
<1>5. ~IsLeaf(g)
  BY DEF IsLeaf
<1> SUFFICES ASSUME NEW i \in DOMAIN g.args
             PROVE  Not(g.args[i]) \in Formulas /\ Height[Not(g.args[i])] < Height[f]
  OBVIOUS
<1> HIDE DEF g
<1>6. g.args[i] \in Formulas /\ Height[g.args[i]] < Height[g]
  BY <1>4, <1>5, Subtrees
<1>7. Height[g.args[i]] \in Nat /\ Height[g] \in Nat /\ Height[f] \in Nat /\ Height[g] <= 6 * Depth
      /\ 6 * Depth \in Nat
  BY <1>4, <1>6, HeightLeast, DepthAssumption DEF Formulas
<1>8. Height[g.args[i]] + 1 <= 6 * Depth
  BY <1>6, <1>7
<1>9. Not(g.args[i]) \in Formulas /\ Height[Not(g.args[i])] <= Height[g.args[i]] + 1
  BY <1>6, <1>8, NotHeight
<1>10. Height[Not(g.args[i])] \in Nat
  BY <1>9, HeightLeast
<1> QED BY <1>4, <1>6, <1>7, <1>9, <1>10

\* negationNormalize, unfolded once.
LEMMA NegationAt == \A f \in Formulas : negationNormalize[f] = NegationDef(0, negationNormalize, f)
<1>1. NegationR!Grounded(0, Formulas, Height)
  <2> SUFFICES ASSUME NEW f \in Formulas, NEW g, NEW h,
                      \A e \in Formulas : Height[e] < Height[f] => g[e] = h[e]
               PROVE  NegationDef(0, g, f) = NegationDef(0, h, f)
    BY DEF NegationR!Grounded
  <2>1. CASE IsLeaf(f)
    BY <2>1 DEF NegationDef, IsLeaf
  <2>2. CASE ~IsLeaf(f) /\ f.op # "not"
    <3> DEFINE A == [i \in DOMAIN f.args |-> g[f.args[i]]]
               B == [i \in DOMAIN f.args |-> h[f.args[i]]]
    <3>1. A = B
      BY <2>2, ArgumentsAgree
    <3> HIDE DEF A, B
    <3> QED BY <2>2, <3>1 DEF NegationDef, A, B
  <2>3. CASE ~IsLeaf(f) /\ f.op = "not"
    <3> DEFINE e == f.args[1]
    <3>1. Len(f.args) = 1 /\ f.args \in Seq(Formulas)
      BY <2>3, Subtrees, NodeParts
    <3>2. e \in Formulas /\ Height[e] < Height[f]
      BY <2>3, <3>1, Subtrees
    <3>3. Height[f] \in Nat /\ Height[e] \in Nat
      BY <3>2, HeightLeast
    <3>4. CASE e.op \in {"and", "or"}
      <4>1. \A i \in DOMAIN e.args : g[Not(e.args[i])] = h[Not(e.args[i])]
        BY <2>3, <3>4, NegatedLower
      <4>2. e \in Node(Formulas)
        BY <3>2, <3>4, Subtrees DEF IsLeaf
      <4> DEFINE d == DeMorgan(e)
                 A == [i \in DOMAIN d.args |-> g[d.args[i]]]
                 B == [i \in DOMAIN d.args |-> h[d.args[i]]]
      <4>3. DOMAIN d.args = DOMAIN e.args /\ d.args = [i \in DOMAIN e.args |-> Not(e.args[i])]
        BY <3>4, <4>2, DeMorganNode
      <4>4. A = B
        <5> HIDE DEF d
        <5> QED BY <4>1, <4>3
      <4>5. NegationDef(0, g, f) = [d EXCEPT !.args = A] /\ NegationDef(0, h, f) = [d EXCEPT !.args = B]
        BY <2>3, <3>4 DEF NegationDef, IsLeaf, Quantified
      <4> QED BY <4>4, <4>5
    <3>5. CASE e.op = "not"
      <4>1. e.args[1] \in Formulas /\ Height[e.args[1]] < Height[e]
        <5>1. ~IsLeaf(e)
          BY <3>5 DEF IsLeaf
        <5>2. Len(e.args) = 1 /\ e.args \in Seq(Formulas)
          BY <3>2, <3>5, <5>1, Subtrees, NodeParts
        <5> QED BY <3>2, <5>1, <5>2, Subtrees
      <4>2. Height[e.args[1]] \in Nat
        BY <4>1, HeightLeast
      <4>3. g[e.args[1]] = h[e.args[1]]
        BY <3>2, <3>3, <4>1, <4>2
      <4> QED BY <2>3, <3>5, <4>3 DEF NegationDef, Quantified
    <3>6. CASE Quantified(e)
      <4>1. ~IsLeaf(e) /\ e.op \notin {"and", "or", "not"}
        BY <3>6 DEF IsLeaf, Quantified
      <4>2. \A x \in Formulas : Height[x] < Height[e] => g[x] = h[x]
        <5> TAKE x \in Formulas
        <5>1. Height[x] \in Nat
          BY HeightLeast
        <5> QED BY <3>2, <3>3, <5>1
      <4> DEFINE A == [i \in DOMAIN e.args |-> g[e.args[i]]]
                 B == [i \in DOMAIN e.args |-> h[e.args[i]]]
      <4>3. A = B
        <5> HIDE DEF e
        <5> QED BY <3>2, <4>1, <4>2, ArgumentsAgree
      <4>4. /\ NegationDef(0, g, f) = Not([e EXCEPT !.args = A])
            /\ NegationDef(0, h, f) = Not([e EXCEPT !.args = B])
        BY <2>3, <3>6, <4>1 DEF NegationDef
      <4> QED BY <4>3, <4>4
    <3>7. CASE ~(e.op \in {"and", "or"}) /\ ~(e.op = "not") /\ ~Quantified(e)
      <4>1. NegationDef(0, g, f) = Not(e) /\ NegationDef(0, h, f) = Not(e)
        BY <2>3, <3>7 DEF NegationDef
      <4> QED BY <4>1
    <3> QED BY <3>4, <3>5, <3>6, <3>7
  <2> QED BY <2>1, <2>2, <2>3
<1>2. \E F : F = [f \in Formulas |-> NegationDef(0, F, f)]
  BY <1>1, HeightLeast, NegationR!RecursiveFunction, LeastNatural
<1>3. negationNormalize = [f \in Formulas |-> NegationDef(0, negationNormalize, f)]
  BY <1>2, Zenon DEF negationNormalize, NegationDef
<1> QED BY <1>3

-----------------------------------------------------------------------------
(***************************************************************************)
(* What the three properties say of a tree, in terms of its arguments.     *)
(***************************************************************************)
\* Binding variables to objects gives an environment.
LEMMA BindType ==
  ASSUME NEW xs \in Seq(Var), NEW os \in Tuples(xs), NEW env \in Environments
  PROVE  Bind(env, xs, os) \in Environments
<1> SUFFICES ASSUME NEW x \in Var
             PROVE  (IF \E i \in DOMAIN xs : xs[i] = x
                     THEN os[CHOOSE i \in DOMAIN xs : xs[i] = x] ELSE env[x]) \in Object
  BY DEF Bind, Environments
<1>1. CASE \E i \in DOMAIN xs : xs[i] = x
  <2>1. (CHOOSE i \in DOMAIN xs : xs[i] = x) \in DOMAIN xs
    BY <1>1
  <2> QED BY <1>1, <2>1 DEF Tuples
<1>2. CASE ~\E i \in DOMAIN xs : xs[i] = x
  BY <1>2 DEF Environments
<1> QED BY <1>1, <1>2

\* The environments a node is true in, from those its arguments are true in.
LEMMA ModelsOf ==
  ASSUME NEW I, NEW f \in Formulas
  PROVE  /\ Models(I)[f] \subseteq Environments
         /\ f.op = "not" => Models(I)[f] = Environments \ Models(I)[f.args[1]]
         /\ f.op = "and" => Models(I)[f] =
              {env \in Environments : \A i \in DOMAIN f.args : env \in Models(I)[f.args[i]]}
         /\ f.op = "or" => Models(I)[f] =
              {env \in Environments : \E i \in DOMAIN f.args : env \in Models(I)[f.args[i]]}
         /\ f.op = "imply" => Models(I)[f] =
              {env \in Environments : env \in Models(I)[f.args[1]] => env \in Models(I)[f.args[2]]}
         /\ f.op = "exists" => Models(I)[f] =
              {env \in Environments :
                 \E os \in Tuples(f.vars) : Bind(env, f.vars, os) \in Models(I)[f.args[1]]}
         /\ f.op = "forall" => Models(I)[f] =
              {env \in Environments :
                 \A os \in Tuples(f.vars) : Bind(env, f.vars, os) \in Models(I)[f.args[1]]}
<1> DEFINE M == Models(I)
<1>1. M[f] = Satisfying(M, f, I)
  BY ModelsAt
<1> HIDE DEF M
<1>2. M[f] \subseteq Environments
  BY <1>1 DEF Satisfying
<1>3. ASSUME f.op = "not" PROVE M[f] = Environments \ M[f.args[1]]
  BY <1>1, <1>3 DEF Satisfying, IsLeaf
<1>4. ASSUME f.op = "and"
      PROVE  M[f] = {env \in Environments : \A i \in DOMAIN f.args : env \in M[f.args[i]]}
  BY <1>1, <1>4 DEF Satisfying, IsLeaf
<1>5. ASSUME f.op = "or"
      PROVE  M[f] = {env \in Environments : \E i \in DOMAIN f.args : env \in M[f.args[i]]}
  BY <1>1, <1>5 DEF Satisfying, IsLeaf
<1>6. ASSUME f.op = "imply"
      PROVE  M[f] = {env \in Environments : env \in M[f.args[1]] => env \in M[f.args[2]]}
  BY <1>1, <1>6 DEF Satisfying, IsLeaf
<1>7. ASSUME f.op = "exists"
      PROVE  M[f] = {env \in Environments :
                       \E os \in Tuples(f.vars) : Bind(env, f.vars, os) \in M[f.args[1]]}
  BY <1>1, <1>7 DEF Satisfying, IsLeaf
<1>8. ASSUME f.op = "forall"
      PROVE  M[f] = {env \in Environments :
                       \A os \in Tuples(f.vars) : Bind(env, f.vars, os) \in M[f.args[1]]}
  BY <1>1, <1>8 DEF Satisfying, IsLeaf
<1> QED BY <1>2, <1>3, <1>4, <1>5, <1>6, <1>7, <1>8 DEF M

\* The same of the quantifiers, for one environment.
LEMMA QuantifiedModels ==
  ASSUME NEW I, NEW f \in Formulas, NEW env \in Environments
  PROVE  /\ f.op = "exists" =>
              (env \in Models(I)[f] <=>
                 \E os \in Tuples(f.vars) : Bind(env, f.vars, os) \in Models(I)[f.args[1]])
         /\ f.op = "forall" =>
              (env \in Models(I)[f] <=>
                 \A os \in Tuples(f.vars) : Bind(env, f.vars, os) \in Models(I)[f.args[1]])
<1> DEFINE M == Models(I)
<1>1. M[f] = Satisfying(M, f, I)
  BY ModelsAt
<1> HIDE DEF M
<1> QED BY <1>1 DEF Satisfying, IsLeaf, M

\* Flattening a sequence of one sequence gives that sequence.
LEMMA FlattenOne == \A s : FlattenSeq(<<s>>) = s
<1> SUFFICES ASSUME NEW s PROVE FlattenSeq(<<s>>) = s
  OBVIOUS
<1> DEFINE ss == <<s>>
           flatten == CHOOSE F : F = [i \in 1 .. 1 |-> IF i = 1 THEN ss[i] ELSE F[i - 1] \o ss[i]]
<1>1. Len(ss) = 1 /\ ss[1] = s
  OBVIOUS
<1> HIDE DEF ss
<1>2. \E F : F = [i \in 1 .. 1 |-> IF i = 1 THEN ss[i] ELSE F[i - 1] \o ss[i]]
  <2> DEFINE F == [i \in 1 .. 1 |-> ss[i]]
  <2>1. F = [i \in 1 .. 1 |-> IF i = 1 THEN ss[i] ELSE F[i - 1] \o ss[i]]
    OBVIOUS
  <2> QED BY <2>1
<1>3. flatten = [i \in 1 .. 1 |-> IF i = 1 THEN ss[i] ELSE flatten[i - 1] \o ss[i]]
  BY <1>2, Zenon
<1>4. FlattenSeq(ss) = flatten[1]
  <2>1. Len(ss) # 0
    BY <1>1
  <2> QED BY <1>1, <2>1 DEF FlattenSeq
<1> HIDE DEF flatten
<1>5. flatten[1] = ss[1]
  <2>1. 1 \in 1 .. 1
    OBVIOUS
  <2> QED BY <1>3, <2>1
<1> QED BY <1>1, <1>4, <1>5 DEF ss

\* The leaves of a node are those of its arguments.
LEMMA LeavesOf ==
  ASSUME NEW f \in Formulas, ~IsLeaf(f)
  PROVE  /\ Leaves[f] = FlattenSeq([i \in DOMAIN f.args |-> Leaves[f.args[i]]])
         /\ Len(f.args) = 1 => Leaves[f] = Leaves[f.args[1]]
<1>1. Leaves[f] = FlattenSeq([i \in DOMAIN f.args |-> Leaves[f.args[i]]])
  BY LeavesAt DEF LeavesDef
<1>2. ASSUME Len(f.args) = 1
      PROVE  [i \in DOMAIN f.args |-> Leaves[f.args[i]]] = <<Leaves[f.args[1]]>>
  <2>1. f.args \in Seq(Formulas)
    BY Subtrees
  <2>2. DOMAIN f.args = 1 .. 1
    BY <1>2, <2>1
  <2> QED BY <2>2
<1> QED BY <1>1, <1>2, FlattenOne

\* No operator of ops occurs in f.
Without(f, ops) == \A e \in Subformulas[f] : e.op \notin ops
\* Every "not" of f is one that normalizeNested can handle.
Negative(f) == \A e \in Subformulas[f] : e.op = "not" => e.args[1].op \in {"atom", "exists"}

\* The subformulas of a node are those of its arguments, and itself.
LEMMA SubformulasOf ==
  ASSUME NEW f \in Formulas
  PROVE  /\ IsLeaf(f) => Subformulas[f] = {f}
         /\ ~IsLeaf(f) => Subformulas[f] = {f} \cup UNION {Subformulas[f.args[i]] : i \in DOMAIN f.args}
BY SubformulasAt DEF SubformulasDef

\* Which operators occur in a node.
LEMMA WithoutOf ==
  ASSUME NEW f \in Formulas, NEW ops
  PROVE  /\ IsLeaf(f) => (Without(f, ops) <=> f.op \notin ops)
         /\ ~IsLeaf(f) => (Without(f, ops) <=>
                             f.op \notin ops /\ \A i \in DOMAIN f.args : Without(f.args[i], ops))
BY SubformulasOf DEF Without

\* Where a node has a "not".
LEMMA NegativeOf ==
  ASSUME NEW f \in Formulas
  PROVE  /\ IsLeaf(f) => Negative(f)
         /\ ~IsLeaf(f) => (Negative(f) <=>
              /\ f.op = "not" => f.args[1].op \in {"atom", "exists"}
              /\ \A i \in DOMAIN f.args : Negative(f.args[i]))
BY SubformulasOf DEF Negative, IsLeaf

\* g means the same as f, and has the same leaves.
Kept(f, g) == Leaves[f] = Leaves[g] /\ \A I : Models(I)[f] = Models(I)[g]

\* A node is kept if only its arguments change, and each of them is kept.
LEMMA RebuiltKept ==
  ASSUME NEW f \in Formulas, ~IsLeaf(f), NEW args \in Seq(Formulas), Len(args) = Len(f.args),
         [f EXCEPT !.args = args] \in Formulas,
         \A i \in DOMAIN f.args : Kept(f.args[i], args[i])
  PROVE  Kept(f, [f EXCEPT !.args = args])
<1> DEFINE g == [f EXCEPT !.args = args]
<1>1. f \in Node(Formulas) /\ f.args \in Seq(Formulas)
  BY Subtrees
<1>2. /\ g \in Node(Formulas) /\ g.op = f.op /\ g.args = args
      /\ Quantified(f) => g.vars = f.vars
  BY <1>1, NodeRebuilt
<1>3. g \in Formulas
  OBVIOUS
<1> HIDE DEF g
<1>4. ~IsLeaf(g)
  BY <1>2 DEF IsLeaf
<1>5. DOMAIN args = DOMAIN f.args
  BY <1>1
<1>6. Leaves[f] = Leaves[g]
  <2>1. \A i \in DOMAIN f.args : Leaves[f.args[i]] = Leaves[args[i]]
    BY DEF Kept
  <2>2. [i \in DOMAIN f.args |-> Leaves[f.args[i]]] = [i \in DOMAIN g.args |-> Leaves[g.args[i]]]
    BY <1>2, <1>5, <2>1
  <2> QED BY <1>3, <1>4, <2>2, LeavesOf
<1>7. ASSUME NEW I PROVE Models(I)[f] = Models(I)[g]
  <2>1. \A i \in DOMAIN f.args : Models(I)[f.args[i]] = Models(I)[g.args[i]]
    BY <1>2 DEF Kept
  <2>2. Satisfying(Models(I), f, I) = Satisfying(Models(I), g, I)
    BY <1>1, <1>2, <1>5, <2>1, ModelsAgree
  <2> QED BY <1>3, <2>2, ModelsAt
<1> QED BY <1>6, <1>7 DEF Kept, g

-----------------------------------------------------------------------------
(***************************************************************************)
(* eliminateImply.                                                         *)
(***************************************************************************)
\* Two trees are a list of trees.
LEMMA Pair == ASSUME NEW S, NEW a \in S, NEW b \in S PROVE <<a, b>> \in Seq(S)
OBVIOUS

\* An implication as a disjunction.
LEMMA DisjunctionKept ==
  ASSUME NEW n \in Nat, n + 2 <= 6 * Depth, NEW f \in Formulas, f.op = "imply",
         NEW a \in Trees[n], NEW b \in Trees[n], Kept(f.args[1], a), Kept(f.args[2], b)
  PROVE  LET g == Disjunction(a, b)
         IN  /\ g \in Trees[n + 2] /\ Kept(f, g)
             /\ \A ops : Without(a, ops) /\ Without(b, ops) /\ "or" \notin ops /\ "not" \notin ops
                           => Without(g, ops)
<1> DEFINE m == Not(a)
           g == Or(<<m, b>>)
<1>1. /\ n + 1 \in Nat /\ n + 2 \in Nat /\ (n + 1) + 1 = n + 2 /\ n <= n + 1
      /\ n <= 6 * Depth /\ n + 1 <= 6 * Depth
  BY DepthAssumption
<1>2. m \in Trees[n + 1] /\ b \in Trees[n + 1] /\ m.op = "not" /\ m.args = <<a>>
  BY <1>1, NotNode, NodeTree, TreesGrow
<1> HIDE DEF m
<1>3. <<m, b>> \in Seq(Trees[n + 1])
  BY <1>2, Pair
<1>4. g \in Trees[n + 2] /\ g.op = "or" /\ g.args = <<m, b>>
  <2>1. g \in Node(Trees[n + 1]) /\ g.op = "or" /\ g.args = <<m, b>>
    BY <1>3, JunctionNode
  <2>2. g \in Trees[(n + 1) + 1]
    BY <1>1, <2>1, NodeTree
  <2> QED BY <1>1, <2>1, <2>2
<1> HIDE DEF g
<1>5. a \in Formulas /\ b \in Formulas /\ m \in Formulas /\ g \in Formulas
  BY <1>1, <1>2, <1>4, TreesAreFormulas
<1>6. ~IsLeaf(f) /\ ~IsLeaf(m) /\ ~IsLeaf(g)
  BY <1>2, <1>4 DEF IsLeaf
<1>7. f.args \in Seq(Formulas) /\ Len(f.args) = 2 /\ DOMAIN f.args = 1 .. 2
  <2>1. f \in Node(Formulas) /\ f.args \in Seq(Formulas)
    BY <1>6, Subtrees
  <2>2. Len(f.args) = 2
    BY <2>1, NodeParts
  <2> QED BY <2>1, <2>2
<1>8. DOMAIN g.args = 1 .. 2 /\ g.args[1] = m /\ g.args[2] = b
      /\ DOMAIN m.args = 1 .. 1 /\ Len(m.args) = 1 /\ m.args[1] = a
  BY <1>2, <1>4
<1>9. Leaves[f] = Leaves[g]
  <2>1. Leaves[m] = Leaves[a]
    BY <1>5, <1>6, <1>8, LeavesOf
  <2>2. \A i \in 1 .. 2 : Leaves[f.args[i]] = Leaves[g.args[i]]
    BY <1>8, <2>1 DEF Kept
  <2>3. [i \in DOMAIN f.args |-> Leaves[f.args[i]]] = [i \in DOMAIN g.args |-> Leaves[g.args[i]]]
    BY <1>7, <1>8, <2>2
  <2> QED BY <1>5, <1>6, <2>3, LeavesOf
<1>10. ASSUME NEW I PROVE Models(I)[f] = Models(I)[g]
  <2> DEFINE M == Models(I)
  <2>1. M[f.args[1]] = M[a] /\ M[f.args[2]] = M[b]
    BY DEF Kept
  <2>2. M[m] = Environments \ M[a]
    BY <1>2, <1>5, <1>8, ModelsOf
  <2>3. M[f] = {env \in Environments : env \in M[a] => env \in M[b]}
    BY <2>1, ModelsOf
  <2>4. M[g] = {env \in Environments : \E i \in DOMAIN g.args : env \in M[g.args[i]]}
    BY <1>4, <1>5, ModelsOf
  <2> HIDE DEF M
  <2>5. \A env : (\E i \in DOMAIN g.args : env \in M[g.args[i]]) <=> env \in M[m] \/ env \in M[b]
    BY <1>8
  <2>6. M[f] = M[g]
    BY <2>2, <2>3, <2>4, <2>5
  <2> QED BY <2>6 DEF M
<1>11. ASSUME NEW ops, Without(a, ops), Without(b, ops), "or" \notin ops, "not" \notin ops
       PROVE  Without(g, ops)
  <2>1. Without(m, ops)
    BY <1>2, <1>5, <1>6, <1>8, <1>11, WithoutOf
  <2>2. \A i \in DOMAIN g.args : Without(g.args[i], ops)
    BY <1>8, <1>11, <2>1
  <2> QED BY <1>4, <1>5, <1>6, <1>11, <2>2, WithoutOf
<1> QED BY <1>4, <1>9, <1>10, <1>11 DEF Kept, Disjunction, g, m

\* The pass keeps what a formula says and its leaves, at most doubles its height,
\* and leaves no implication.
LEMMA ImplyPass ==
  \A n \in Nat : n <= 3 * Depth => \A f \in Trees[n] :
    /\ eliminateImply[f] \in Trees[2 * n] /\ Kept(f, eliminateImply[f])
    /\ Without(f, {"derived"}) => Without(eliminateImply[f], {"derived", "imply"})
<1> DEFINE Good(f, n) ==
             /\ eliminateImply[f] \in Trees[2 * n] /\ Kept(f, eliminateImply[f])
             /\ Without(f, {"derived"}) => Without(eliminateImply[f], {"derived", "imply"})
           S == {n \in Nat : n <= 3 * Depth => \A f \in Trees[n] : Good(f, n)}
           rank == [n \in Nat |-> n]
<1>1. ASSUME NEW n \in Nat, \A k \in Nat : rank[k] < rank[n] => k \in S
      PROVE  n \in S
  <2> SUFFICES ASSUME n <= 3 * Depth, NEW f \in Trees[n] PROVE Good(f, n)
    OBVIOUS
  <2>1. /\ 2 * n \in Nat /\ n <= 2 * n /\ n <= 6 * Depth /\ 2 * n <= 6 * Depth
    BY DepthAssumption
  <2>2. f \in Formulas
    BY <2>1, TreesAreFormulas
  <2>3. CASE f \in Leaf /\ IsLeaf(f)
    <3>1. eliminateImply[f] = f
      BY <2>2, <2>3, ImplyAt DEF ImplyDef
    <3>2. f \in Trees[2 * n]
      BY <2>1, TreesGrow
    <3>3. Without(f, {"derived"}) => Without(f, {"derived", "imply"})
      BY <2>2, <2>3, WithoutOf DEF IsLeaf
    <3> QED BY <3>1, <3>2, <3>3 DEF Kept
  <2>4. CASE n # 0 /\ n - 1 \in Nat /\ f \in Node(Trees[n - 1]) /\ ~IsLeaf(f)
    <3>1. PICK k \in Nat : k = n - 1
      BY <2>4
    <3>2. /\ k < n /\ k <= 3 * Depth /\ 2 * k + 2 = 2 * n /\ 2 * k \in Nat /\ 2 * k + 1 \in Nat
          /\ 2 * k + 1 <= 2 * n /\ k <= 6 * Depth
      BY <2>1, <2>4, <3>1, DepthAssumption
    <3>3. \A e \in Trees[k] : Good(e, k)
      BY <1>1, <3>2
    <3> DEFINE args == [i \in DOMAIN f.args |-> eliminateImply[f.args[i]]]
    <3>4. f \in Node(Trees[k]) /\ f.args \in Seq(Trees[k]) /\ \A i \in DOMAIN f.args : f.args[i] \in Trees[k]
      BY <2>4, <3>1, NodeParts
    <3>5. /\ args \in Seq(Trees[2 * k]) /\ Len(args) = Len(f.args)
          /\ \A i \in DOMAIN f.args : args[i] = eliminateImply[f.args[i]]
      BY <3>3, <3>4
    <3>6. \A i \in DOMAIN f.args :
            /\ args[i] \in Trees[2 * k] /\ Kept(f.args[i], args[i])
            /\ Without(f.args[i], {"derived"}) => Without(args[i], {"derived", "imply"})
      BY <3>3, <3>4, <3>5
    <3>7. eliminateImply[f] = IF f.op = "imply" THEN Disjunction(args[1], args[2])
                              ELSE [f EXCEPT !.args = args]
      BY <2>2, <2>4, ImplyAt DEF ImplyDef
    <3> HIDE DEF args, Good
    <3>8. Without(f, {"derived"}) =>
            f.op # "derived" /\ \A i \in DOMAIN f.args : Without(args[i], {"derived", "imply"})
      BY <2>2, <2>4, <3>6, WithoutOf
    <3>9. CASE f.op = "imply"
      <4>1. Len(f.args) = 2 /\ 1 \in DOMAIN f.args /\ 2 \in DOMAIN f.args
        <5>1. Len(f.args) = 2
          BY <3>4, <3>9, NodeParts
        <5> QED BY <3>4, <5>1
      <4>2. 2 * k + 2 <= 6 * Depth
        BY <2>1, <3>2
      <4> DEFINE g == Disjunction(args[1], args[2])
      <4>3. /\ g \in Trees[2 * k + 2] /\ Kept(f, g)
            /\ \A ops : Without(args[1], ops) /\ Without(args[2], ops) /\ "or" \notin ops /\ "not" \notin ops
                          => Without(g, ops)
        BY <2>2, <3>2, <3>6, <3>9, <4>1, <4>2, DisjunctionKept
      <4> HIDE DEF g
      <4>4. Without(f, {"derived"}) => Without(g, {"derived", "imply"})
        BY <3>8, <4>1, <4>3
      <4>5. eliminateImply[f] = g
        BY <3>7, <3>9 DEF g
      <4> QED BY <3>2, <4>3, <4>4, <4>5 DEF Good
    <3>10. CASE f.op # "imply"
      <4> DEFINE g == [f EXCEPT !.args = args]
      <4>1. g \in Node(Trees[2 * k]) /\ g.op = f.op /\ g.args = args
        BY <3>4, <3>5, NodeRebuilt
      <4>2. g \in Trees[2 * n] /\ g \in Formulas
        <5> HIDE DEF g
        <5>1. g \in Trees[2 * k + 1]
          BY <3>2, <4>1, NodeTree
        <5>2. g \in Trees[2 * n]
          BY <2>1, <3>2, <5>1, TreesGrow
        <5> QED BY <2>1, <5>2, TreesAreFormulas
      <4>3. args \in Seq(Formulas)
        <5>1. 2 * k <= 6 * Depth
          BY <2>1, <3>2, DepthAssumption
        <5>2. Trees[2 * k] \subseteq Formulas
          BY <3>2, <5>1, TreesAreFormulas
        <5> QED BY <3>5, <5>2
      <4>4. Kept(f, g)
        BY <2>2, <2>4, <3>5, <3>6, <4>2, <4>3, RebuiltKept
      <4> HIDE DEF g
      <4>5. ~IsLeaf(g) /\ DOMAIN g.args = DOMAIN f.args
        BY <2>4, <3>4, <3>5, <4>1 DEF IsLeaf
      <4>6. Without(f, {"derived"}) => Without(g, {"derived", "imply"})
        BY <3>8, <3>10, <4>1, <4>2, <4>5, WithoutOf
      <4>7. eliminateImply[f] = g
        BY <3>7, <3>10 DEF g
      <4> QED BY <4>2, <4>4, <4>6, <4>7 DEF Good
    <3> QED BY <3>9, <3>10
  <2> QED BY <2>3, <2>4, TreeCases
<1>2. Nat \subseteq S
  <2>1. rank \in [Nat -> Nat]
    OBVIOUS
  <2> HIDE DEF S, rank
  <2> QED BY <1>1, <2>1, RankInduction
<1> QED BY <1>2

-----------------------------------------------------------------------------
(***************************************************************************)
(* eliminateForAll.                                                        *)
(***************************************************************************)
\* A "not" over a tree of n nested connectives.
LEMMA NotOf ==
  ASSUME NEW n \in Nat, n + 1 <= 6 * Depth, NEW f \in Trees[n]
  PROVE  /\ Not(f) \in Trees[n + 1] /\ Not(f) \in Formulas /\ f \in Formulas /\ ~IsLeaf(Not(f))
         /\ Not(f).op = "not" /\ Not(f).args = <<f>>
         /\ Leaves[Not(f)] = Leaves[f]
         /\ \A I : Models(I)[Not(f)] = Environments \ Models(I)[f]
         /\ \A ops : Without(f, ops) /\ "not" \notin ops => Without(Not(f), ops)
         /\ Negative(Not(f)) <=> f.op \in {"atom", "exists"} /\ Negative(f)
<1> DEFINE g == Not(f)
<1>1. g \in Node(Trees[n]) /\ g.op = "not" /\ g.args = <<f>>
  BY NotNode
<1> HIDE DEF g
<1>2. g \in Trees[n + 1]
  BY <1>1, NodeTree
<1>3. n + 1 \in Nat /\ n <= 6 * Depth
  BY DepthAssumption
<1>4. g \in Formulas /\ f \in Formulas
  BY <1>2, <1>3, TreesAreFormulas
<1>5. ~IsLeaf(g) /\ Len(g.args) = 1 /\ g.args[1] = f /\ DOMAIN g.args = 1 .. 1
  BY <1>1 DEF IsLeaf
<1>6. Leaves[g] = Leaves[f]
  BY <1>4, <1>5, LeavesOf
<1>7. \A I : Models(I)[g] = Environments \ Models(I)[f]
  BY <1>1, <1>4, <1>5, ModelsOf
<1>8. \A ops : Without(f, ops) /\ "not" \notin ops => Without(g, ops)
  BY <1>1, <1>4, <1>5, WithoutOf
<1>9. Negative(g) <=> f.op \in {"atom", "exists"} /\ Negative(f)
  BY <1>1, <1>4, <1>5, NegativeOf
<1> QED BY <1>1, <1>2, <1>4, <1>5, <1>6, <1>7, <1>8, <1>9 DEF g

\* A universal quantifier as an existential one.
LEMMA NegatedExistsKept ==
  ASSUME NEW n \in Nat, n + 3 <= 6 * Depth, NEW f \in Formulas, f.op = "forall",
         NEW a \in Trees[n], Kept(f.args[1], a)
  PROVE  LET g == NegatedExists(f.vars, a)
         IN  /\ g \in Trees[n + 3] /\ Kept(f, g)
             /\ \A ops : Without(a, ops) /\ "exists" \notin ops /\ "not" \notin ops => Without(g, ops)
<1> DEFINE m == Not(a)
           e == Exists(f.vars, m)
           g == Not(e)
<1>1. /\ n + 1 \in Nat /\ n + 2 \in Nat /\ (n + 1) + 1 = n + 2 /\ (n + 2) + 1 = n + 3
      /\ n + 1 <= 6 * Depth /\ n + 2 <= 6 * Depth /\ (n + 2) + 1 <= 6 * Depth
  BY DepthAssumption
<1>2. f \in Node(Formulas) /\ ~IsLeaf(f) /\ f.args \in Seq(Formulas) /\ Len(f.args) = 1
      /\ f.vars \in Seq(Var) /\ IsInjective(f.vars)
  <2>1. ~IsLeaf(f)
    BY DEF IsLeaf
  <2>2. f \in Node(Formulas)
    BY <2>1, Subtrees
  <2> QED BY <2>1, <2>2, NodeParts DEF Quantified
<1>3. /\ m \in Trees[n + 1] /\ m \in Formulas /\ a \in Formulas /\ Leaves[m] = Leaves[a]
      /\ \A I : Models(I)[m] = Environments \ Models(I)[a]
      /\ \A ops : Without(a, ops) /\ "not" \notin ops => Without(m, ops)
  BY <1>1, NotOf
<1> HIDE DEF m
<1>4. e \in Node(Trees[n + 1]) /\ e.op = "exists" /\ e.args = <<m>> /\ e.vars = f.vars
  BY <1>2, <1>3, ExistsNode
<1> HIDE DEF e
<1>5. e \in Trees[n + 2]
  BY <1>1, <1>4, NodeTree
<1>6. e \in Formulas
  BY <1>1, <1>5, TreesAreFormulas
<1>7. ~IsLeaf(e) /\ Len(e.args) = 1 /\ e.args[1] = m /\ DOMAIN e.args = 1 .. 1
  BY <1>4 DEF IsLeaf
<1>8. /\ g \in Trees[(n + 2) + 1] /\ g \in Formulas /\ Leaves[g] = Leaves[e]
      /\ \A I : Models(I)[g] = Environments \ Models(I)[e]
      /\ \A ops : Without(e, ops) /\ "not" \notin ops => Without(g, ops)
  BY <1>1, <1>5, NotOf
<1> HIDE DEF g
<1>9. Leaves[f] = Leaves[g]
  <2>1. Leaves[f] = Leaves[f.args[1]]
    BY <1>2, LeavesOf
  <2>2. Leaves[e] = Leaves[m]
    BY <1>6, <1>7, LeavesOf
  <2> QED BY <1>3, <1>8, <2>1, <2>2 DEF Kept
<1>10. ASSUME NEW I PROVE Models(I)[f] = Models(I)[g]
  <2> DEFINE M == Models(I)
  <2>1. M[f.args[1]] = M[a]
    BY DEF Kept
  <2>2. M[m] = Environments \ M[a] /\ M[g] = Environments \ M[e]
    BY <1>3, <1>8
  <2>3. \A env \in Environments :
          env \in M[f] <=> \A os \in Tuples(f.vars) : Bind(env, f.vars, os) \in M[a]
    BY <2>1, QuantifiedModels
  <2>4. \A env \in Environments :
          env \in M[e] <=> \E os \in Tuples(f.vars) : Bind(env, f.vars, os) \in M[m]
    BY <1>4, <1>6, <1>7, QuantifiedModels
  <2>5. M[f] \subseteq Environments
    BY ModelsOf
  <2> HIDE DEF M
  <2>6. \A env \in Environments : \A os \in Tuples(f.vars) :
          Bind(env, f.vars, os) \in M[m] <=> Bind(env, f.vars, os) \notin M[a]
    BY <1>2, <2>2, BindType
  <2>7. \A env \in Environments : env \in M[f] <=> env \in M[g]
    BY <2>2, <2>3, <2>4, <2>6
  <2>8. M[f] = M[g]
    BY <2>2, <2>5, <2>7
  <2> QED BY <2>8 DEF M
<1>11. ASSUME NEW ops, Without(a, ops), "exists" \notin ops, "not" \notin ops
       PROVE  Without(g, ops)
  <2>1. Without(m, ops)
    BY <1>3, <1>11
  <2>2. Without(e, ops)
    BY <1>4, <1>6, <1>7, <1>11, <2>1, WithoutOf
  <2> QED BY <1>8, <1>11, <2>2
<1> QED BY <1>1, <1>8, <1>9, <1>10, <1>11 DEF Kept, NegatedExists, g, e, m

\* The pass keeps what a formula says and its leaves, puts at most three nodes for
\* one, and leaves no universal quantifier.
LEMMA ForAllPass ==
  \A n \in Nat : n <= 2 * Depth => \A f \in Trees[n] :
    /\ eliminateForAll[f] \in Trees[3 * n] /\ Kept(f, eliminateForAll[f])
    /\ Without(f, {"derived", "imply"}) => Without(eliminateForAll[f], {"derived", "imply", "forall"})
<1> DEFINE Good(f, n) ==
             /\ eliminateForAll[f] \in Trees[3 * n] /\ Kept(f, eliminateForAll[f])
             /\ Without(f, {"derived", "imply"}) =>
                  Without(eliminateForAll[f], {"derived", "imply", "forall"})
           S == {n \in Nat : n <= 2 * Depth => \A f \in Trees[n] : Good(f, n)}
           rank == [n \in Nat |-> n]
<1>1. ASSUME NEW n \in Nat, \A k \in Nat : rank[k] < rank[n] => k \in S
      PROVE  n \in S
  <2> SUFFICES ASSUME n <= 2 * Depth, NEW f \in Trees[n] PROVE Good(f, n)
    OBVIOUS
  <2>1. /\ 3 * n \in Nat /\ n <= 3 * n /\ n <= 6 * Depth /\ 3 * n <= 6 * Depth
    BY DepthAssumption
  <2>2. f \in Formulas
    BY <2>1, TreesAreFormulas
  <2>3. CASE f \in Leaf /\ IsLeaf(f)
    <3>1. eliminateForAll[f] = f
      BY <2>2, <2>3, ForAllAt DEF ForAllDef
    <3>2. f \in Trees[3 * n]
      BY <2>1, TreesGrow
    <3>3. Without(f, {"derived", "imply"}) => Without(f, {"derived", "imply", "forall"})
      BY <2>2, <2>3, WithoutOf DEF IsLeaf
    <3> QED BY <3>1, <3>2, <3>3 DEF Kept
  <2>4. CASE n # 0 /\ n - 1 \in Nat /\ f \in Node(Trees[n - 1]) /\ ~IsLeaf(f)
    <3>1. PICK k \in Nat : k = n - 1
      BY <2>4
    <3>2. /\ k < n /\ k <= 2 * Depth /\ 3 * k + 3 = 3 * n /\ 3 * k \in Nat /\ 3 * k + 1 \in Nat
          /\ 3 * k + 1 <= 3 * n /\ 3 * k <= 6 * Depth
      BY <2>1, <2>4, <3>1, DepthAssumption
    <3>3. \A e \in Trees[k] : Good(e, k)
      BY <1>1, <3>2
    <3> DEFINE args == [i \in DOMAIN f.args |-> eliminateForAll[f.args[i]]]
    <3>4. f \in Node(Trees[k]) /\ f.args \in Seq(Trees[k]) /\ \A i \in DOMAIN f.args : f.args[i] \in Trees[k]
      BY <2>4, <3>1, NodeParts
    <3>5. /\ args \in Seq(Trees[3 * k]) /\ Len(args) = Len(f.args)
          /\ \A i \in DOMAIN f.args : args[i] = eliminateForAll[f.args[i]]
      BY <3>3, <3>4
    <3>6. \A i \in DOMAIN f.args :
            /\ args[i] \in Trees[3 * k] /\ Kept(f.args[i], args[i])
            /\ Without(f.args[i], {"derived", "imply"}) => Without(args[i], {"derived", "imply", "forall"})
      BY <3>3, <3>4, <3>5
    <3>7. eliminateForAll[f] = IF f.op = "forall" THEN NegatedExists(f.vars, args[1])
                               ELSE [f EXCEPT !.args = args]
      BY <2>2, <2>4, ForAllAt DEF ForAllDef
    <3> HIDE DEF args, Good
    <3>8. Without(f, {"derived", "imply"}) =>
            /\ f.op \notin {"derived", "imply"}
            /\ \A i \in DOMAIN f.args : Without(args[i], {"derived", "imply", "forall"})
      BY <2>2, <2>4, <3>6, WithoutOf
    <3>9. CASE f.op = "forall"
      <4>1. 1 \in DOMAIN f.args
        <5>1. Len(f.args) = 1
          BY <3>4, <3>9, NodeParts
        <5> QED BY <3>4, <5>1
      <4>2. 3 * k + 3 <= 6 * Depth
        BY <2>1, <3>2
      <4> DEFINE g == NegatedExists(f.vars, args[1])
      <4>3. /\ g \in Trees[3 * k + 3] /\ Kept(f, g)
            /\ \A ops : Without(args[1], ops) /\ "exists" \notin ops /\ "not" \notin ops => Without(g, ops)
        BY <2>2, <3>2, <3>6, <3>9, <4>1, <4>2, NegatedExistsKept
      <4> HIDE DEF g
      <4>4. Without(f, {"derived", "imply"}) => Without(g, {"derived", "imply", "forall"})
        BY <3>8, <4>1, <4>3
      <4>5. eliminateForAll[f] = g
        BY <3>7, <3>9 DEF g
      <4> QED BY <3>2, <4>3, <4>4, <4>5 DEF Good
    <3>10. CASE f.op # "forall"
      <4> DEFINE g == [f EXCEPT !.args = args]
      <4>1. g \in Node(Trees[3 * k]) /\ g.op = f.op /\ g.args = args
        BY <3>4, <3>5, NodeRebuilt
      <4>2. g \in Trees[3 * n] /\ g \in Formulas
        <5> HIDE DEF g
        <5>1. g \in Trees[3 * k + 1]
          BY <3>2, <4>1, NodeTree
        <5>2. g \in Trees[3 * n]
          BY <2>1, <3>2, <5>1, TreesGrow
        <5> QED BY <2>1, <5>2, TreesAreFormulas
      <4>3. args \in Seq(Formulas)
        <5>1. Trees[3 * k] \subseteq Formulas
          BY <3>2, TreesAreFormulas
        <5> QED BY <3>5, <5>1
      <4>4. Kept(f, g)
        BY <2>2, <2>4, <3>5, <3>6, <4>2, <4>3, RebuiltKept
      <4> HIDE DEF g
      <4>5. ~IsLeaf(g) /\ DOMAIN g.args = DOMAIN f.args
        BY <2>4, <3>4, <3>5, <4>1 DEF IsLeaf
      <4>6. Without(f, {"derived", "imply"}) => Without(g, {"derived", "imply", "forall"})
        BY <3>8, <3>10, <4>1, <4>2, <4>5, WithoutOf
      <4>7. eliminateForAll[f] = g
        BY <3>7, <3>10 DEF g
      <4> QED BY <4>2, <4>4, <4>6, <4>7 DEF Good
    <3> QED BY <3>9, <3>10
  <2> QED BY <2>3, <2>4, TreeCases
<1>2. Nat \subseteq S
  <2>1. rank \in [Nat -> Nat]
    OBVIOUS
  <2> HIDE DEF S, rank
  <2> QED BY <1>1, <2>1, RankInduction
<1> QED BY <1>2

-----------------------------------------------------------------------------
(***************************************************************************)
(* negationNormalize.                                                      *)
(***************************************************************************)
\* What the passes before it leave behind.
Earlier == {"derived", "imply", "forall"}

\* g is what the pass should make of f.
Normalized(f, g) == Kept(f, g) /\ (Without(f, Earlier) => Without(g, Earlier) /\ Negative(g))

\* f as a node whose arguments are the pass's.
LEMMA NegationInside ==
  ASSUME NEW k \in Nat, k + 1 <= 6 * Depth, NEW f \in Node(Trees[k]), f.op # "not",
         NEW args \in Seq(Trees[k]), Len(args) = Len(f.args),
         \A i \in DOMAIN f.args : Normalized(f.args[i], args[i])
  PROVE  LET g == [f EXCEPT !.args = args]
         IN  g \in Trees[k + 1] /\ g.op = f.op /\ Normalized(f, g)
<1> DEFINE g == [f EXCEPT !.args = args]
<1>1. k + 1 \in Nat /\ k <= 6 * Depth
  BY DepthAssumption
<1>2. Trees[k] \subseteq Formulas /\ args \in Seq(Formulas)
  BY <1>1, TreesAreFormulas
<1>3. f \in Formulas /\ ~IsLeaf(f)
  BY <1>1, NodeTree, TreesAreFormulas, NodeParts
<1>4. g \in Node(Trees[k]) /\ g.op = f.op /\ g.args = args
  BY NodeRebuilt
<1>5. g \in Trees[k + 1] /\ g \in Formulas
  <2> HIDE DEF g
  <2> QED BY <1>1, <1>4, NodeTree, TreesAreFormulas
<1>6. \A i \in DOMAIN f.args : Kept(f.args[i], args[i])
  BY DEF Normalized
<1>7. Kept(f, g)
  BY <1>2, <1>3, <1>5, <1>6, RebuiltKept
<1> HIDE DEF g
<1>8. ~IsLeaf(g) /\ DOMAIN g.args = DOMAIN f.args
  <2>1. f.args \in Seq(Trees[k])
    BY NodeParts
  <2> QED BY <1>3, <1>4, <2>1 DEF IsLeaf
<1>9. ASSUME Without(f, Earlier) PROVE Without(g, Earlier) /\ Negative(g)
  <2>1. f.op \notin Earlier /\ \A i \in DOMAIN f.args : Without(f.args[i], Earlier)
    BY <1>3, <1>9, WithoutOf
  <2>2. \A i \in DOMAIN g.args : Without(g.args[i], Earlier) /\ Negative(g.args[i])
    BY <1>4, <1>8, <2>1 DEF Normalized
  <2> QED BY <1>4, <1>5, <1>8, <2>1, <2>2, WithoutOf, NegativeOf
<1> QED BY <1>4, <1>5, <1>7, <1>9 DEF Normalized, g

\* The negation of an "and" or "or", its arguments being what the pass makes of the
\* negated ones.
LEMMA NegationJunction ==
  ASSUME NEW k \in Nat, k + 2 <= 6 * Depth, NEW f \in Formulas, f.op = "not",
         f.args[1] \in Node(Trees[k]), f.args[1].op \in {"and", "or"},
         NEW args \in Seq(Trees[k + 1]), Len(args) = Len(f.args[1].args),
         \A i \in DOMAIN args : Normalized(Not(f.args[1].args[i]), args[i])
  PROVE  LET g == [DeMorgan(f.args[1]) EXCEPT !.args = args]
         IN  g \in Trees[k + 2] /\ Normalized(f, g)
<1>1. PICK e \in Node(Trees[k]) : e = f.args[1]
  OBVIOUS
<1> DEFINE d == DeMorgan(e)
           g == [d EXCEPT !.args = args]
<1>2. /\ k + 1 \in Nat /\ k + 2 \in Nat /\ (k + 1) + 1 = k + 2 /\ k <= 6 * Depth /\ k + 1 <= 6 * Depth
  BY DepthAssumption
<1>3. /\ d \in Node(Node(Trees[k])) /\ d.op = IF e.op = "and" THEN "or" ELSE "and"
      /\ Len(d.args) = Len(e.args)
  BY <1>1, DeMorganNode
<1>4. g \in Node(Trees[k + 1]) /\ g.op = d.op /\ g.args = args
  <2> HIDE DEF d
  <2> QED BY <1>1, <1>3, NodeRebuilt
<1> HIDE DEF d, g
<1>5. g \in Trees[k + 2]
  BY <1>2, <1>4, NodeTree
<1>6. g \in Formulas /\ e \in Formulas
  <2>1. e \in Trees[k + 1]
    BY NodeTree
  <2> QED BY <1>2, <1>5, <2>1, TreesAreFormulas
<1>7. ~IsLeaf(g) /\ ~IsLeaf(e) /\ ~IsLeaf(f)
  BY <1>1, <1>3, <1>4 DEF IsLeaf
<1>8. e.args \in Seq(Trees[k]) /\ DOMAIN e.args = DOMAIN args /\ DOMAIN g.args = DOMAIN args
  <2>1. e.args \in Seq(Trees[k])
    BY NodeParts
  <2> QED BY <1>1, <1>4, <2>1
<1>9. Len(f.args) = 1 /\ DOMAIN f.args = 1 .. 1 /\ f.args[1] = e
  <2>1. f \in Node(Formulas) /\ f.args \in Seq(Formulas)
    BY <1>7, Subtrees
  <2>2. Len(f.args) = 1
    BY <2>1, NodeParts
  <2> QED BY <1>1, <2>1, <2>2
<1>10. \A i \in DOMAIN args :
         /\ e.args[i] \in Formulas
         /\ Leaves[args[i]] = Leaves[e.args[i]]
         /\ \A I : Models(I)[args[i]] = Environments \ Models(I)[e.args[i]]
         /\ Without(e.args[i], Earlier) => Without(args[i], Earlier) /\ Negative(args[i])
  <2> TAKE i \in DOMAIN args
  <2>1. e.args[i] \in Trees[k]
    BY <1>8
  <2> DEFINE ei == e.args[i]
             ai == args[i]
  <2>2. Normalized(Not(ei), ai)
    BY <1>1
  <2> HIDE DEF ei, ai
  <2>3. /\ ei \in Formulas /\ Leaves[Not(ei)] = Leaves[ei]
        /\ \A I : Models(I)[Not(ei)] = Environments \ Models(I)[ei]
        /\ Without(ei, Earlier) => Without(Not(ei), Earlier)
    BY <1>2, <2>1, NotOf DEF Earlier, ei
  <2> QED BY <2>2, <2>3 DEF Normalized, Kept, ei, ai
<1>11. Leaves[f] = Leaves[g]
  <2>1. Leaves[f] = Leaves[e]
    BY <1>7, <1>9, LeavesOf
  <2>2. [i \in DOMAIN e.args |-> Leaves[e.args[i]]] = [i \in DOMAIN g.args |-> Leaves[g.args[i]]]
    BY <1>4, <1>8, <1>10
  <2>3. Leaves[e] = Leaves[g]
    BY <1>6, <1>7, <2>2, LeavesOf
  <2> QED BY <2>1, <2>3
<1>12. ASSUME NEW I PROVE Models(I)[f] = Models(I)[g]
  <2> DEFINE M == Models(I)
  <2>1. M[f] = Environments \ M[e]
    BY <1>9, ModelsOf
  <2>2. \A i \in DOMAIN args : M[args[i]] = Environments \ M[e.args[i]]
    BY <1>10
  <2>3. e.op = "and" => M[e] = {env \in Environments : \A i \in DOMAIN e.args : env \in M[e.args[i]]}
    BY <1>6, ModelsOf
  <2>4. e.op = "or" => M[e] = {env \in Environments : \E i \in DOMAIN e.args : env \in M[e.args[i]]}
    BY <1>6, ModelsOf
  <2>5. g.op = "and" => M[g] = {env \in Environments : \A i \in DOMAIN g.args : env \in M[g.args[i]]}
    BY <1>6, ModelsOf
  <2>6. g.op = "or" => M[g] = {env \in Environments : \E i \in DOMAIN g.args : env \in M[g.args[i]]}
    BY <1>6, ModelsOf
  <2> HIDE DEF M
  <2>7. CASE e.op = "and"
    <3>1. g.op = "or"
      BY <1>3, <1>4, <2>7
    <3> QED BY <1>4, <1>8, <2>1, <2>2, <2>3, <2>6, <2>7, <3>1 DEF M
  <2>8. CASE e.op = "or"
    <3>1. g.op = "and"
      BY <1>3, <1>4, <2>8
    <3> QED BY <1>4, <1>8, <2>1, <2>2, <2>4, <2>5, <2>8, <3>1 DEF M
  <2> QED BY <1>1, <2>7, <2>8
<1>13. ASSUME Without(f, Earlier) PROVE Without(g, Earlier) /\ Negative(g)
  <2>1. Without(e, Earlier)
    BY <1>7, <1>9, <1>13, WithoutOf
  <2>2. \A i \in DOMAIN g.args : Without(g.args[i], Earlier) /\ Negative(g.args[i])
    BY <1>4, <1>6, <1>7, <1>8, <1>10, <2>1, WithoutOf
  <2>3. g.op \in {"and", "or"}
    BY <1>3, <1>4
  <2> QED BY <1>6, <1>7, <2>2, <2>3, WithoutOf, NegativeOf DEF Earlier
<1> QED BY <1>1, <1>5, <1>11, <1>12, <1>13 DEF Normalized, Kept, g, d

\* The one argument of a "not".
LEMMA NegatedPart ==
  ASSUME NEW f \in Formulas, f.op = "not"
  PROVE  /\ ~IsLeaf(f) /\ Len(f.args) = 1 /\ DOMAIN f.args = 1 .. 1 /\ f.args[1] \in Formulas
         /\ Leaves[f] = Leaves[f.args[1]]
         /\ \A I : Models(I)[f] = Environments \ Models(I)[f.args[1]]
         /\ \A ops : Without(f, ops) => Without(f.args[1], ops)
<1>1. ~IsLeaf(f)
  BY DEF IsLeaf
<1>2. f \in Node(Formulas) /\ f.args \in Seq(Formulas)
  BY <1>1, Subtrees
<1>3. Len(f.args) = 1
  BY <1>2, NodeParts
<1>4. DOMAIN f.args = 1 .. 1 /\ f.args[1] \in Formulas
  BY <1>2, <1>3
<1>5. Leaves[f] = Leaves[f.args[1]]
  BY <1>1, <1>3, LeavesOf
<1>6. \A I : Models(I)[f] = Environments \ Models(I)[f.args[1]]
  BY ModelsOf
<1>7. \A ops : Without(f, ops) => Without(f.args[1], ops)
  BY <1>1, <1>4, WithoutOf
<1> QED BY <1>1, <1>3, <1>4, <1>5, <1>6, <1>7

\* A "not" that stays, over what the pass makes of its argument.
LEMMA NegationStays ==
  ASSUME NEW k \in Nat, k + 1 <= 6 * Depth, NEW f \in Formulas, f.op = "not",
         NEW e \in Trees[k], Kept(f.args[1], e),
         Without(f.args[1], Earlier) =>
           Without(e, Earlier) /\ Negative(e) /\ e.op \in {"atom", "exists"}
  PROVE  Not(e) \in Trees[k + 1] /\ Normalized(f, Not(e))
<1> DEFINE g == Not(e)
<1>1. /\ g \in Trees[k + 1] /\ Leaves[g] = Leaves[e]
      /\ \A I : Models(I)[g] = Environments \ Models(I)[e]
      /\ Without(e, Earlier) => Without(g, Earlier)
      /\ Negative(g) <=> e.op \in {"atom", "exists"} /\ Negative(e)
  BY NotOf DEF Earlier
<1> HIDE DEF g
<1>2. Kept(f, g)
  <2>1. Leaves[f] = Leaves[g]
    BY <1>1, NegatedPart DEF Kept
  <2>2. ASSUME NEW I PROVE Models(I)[f] = Models(I)[g]
    <3>1. Models(I)[f] = Environments \ Models(I)[f.args[1]]
      BY NegatedPart
    <3>2. Models(I)[f.args[1]] = Models(I)[e]
      BY DEF Kept
    <3> QED BY <1>1, <3>1, <3>2
  <2> QED BY <2>1, <2>2 DEF Kept
<1>3. Without(f, Earlier) => Without(g, Earlier) /\ Negative(g)
  BY <1>1, NegatedPart
<1> QED BY <1>1, <1>2, <1>3 DEF Normalized, g

\* Two "not"s cancel.
LEMMA NegationCancelled ==
  ASSUME NEW f \in Formulas, f.op = "not", f.args[1].op = "not",
         NEW e, Normalized(f.args[1].args[1], e)
  PROVE  Normalized(f, e)
<1> DEFINE g == f.args[1]
           h == g.args[1]
<1>1. /\ g \in Formulas /\ Leaves[f] = Leaves[g]
      /\ \A I : Models(I)[f] = Environments \ Models(I)[g]
      /\ \A ops : Without(f, ops) => Without(g, ops)
  BY NegatedPart
<1>2. /\ h \in Formulas /\ Leaves[g] = Leaves[h]
      /\ \A I : Models(I)[g] = Environments \ Models(I)[h]
      /\ \A ops : Without(g, ops) => Without(h, ops)
  <2> HIDE DEF g
  <2>1. g.op = "not"
    BY DEF g
  <2> QED BY <1>1, <2>1, NegatedPart
<1>3. Normalized(h, e)
  OBVIOUS
<1>4. \A I : Models(I)[h] \subseteq Environments
  <2> HIDE DEF h
  <2> QED BY <1>2, ModelsOf
<1> HIDE DEF g, h
<1>5. ASSUME NEW I PROVE Models(I)[f] = Models(I)[e]
  <2>1. Models(I)[f] = Environments \ (Environments \ Models(I)[h])
    BY <1>1, <1>2
  <2>2. Models(I)[h] = Models(I)[e]
    BY <1>3 DEF Normalized, Kept
  <2> QED BY <1>4, <2>1, <2>2
<1>6. Leaves[f] = Leaves[e]
  BY <1>1, <1>2, <1>3 DEF Normalized, Kept
<1>7. Without(f, Earlier) => Without(e, Earlier) /\ Negative(e)
  BY <1>1, <1>2, <1>3 DEF Normalized
<1> QED BY <1>5, <1>6, <1>7 DEF Normalized, Kept

\* The pass keeps what a formula says and its leaves, makes it no higher and, run on
\* what the other passes leave, leaves a "not" only where normalizeNested allows it.
LEMMA NegationPass ==
  \A n \in Nat : n <= 6 * Depth => \A f \in Trees[n] :
    negationNormalize[f] \in Trees[n] /\ Normalized(f, negationNormalize[f])
<1> DEFINE Good(f, n) == negationNormalize[f] \in Trees[n] /\ Normalized(f, negationNormalize[f])
           S == {n \in Nat : n <= 6 * Depth => \A f \in Trees[n] : Good(f, n)}
           rank == [n \in Nat |-> n]
<1>1. ASSUME NEW n \in Nat, \A k \in Nat : rank[k] < rank[n] => k \in S
      PROVE  n \in S
  <2> SUFFICES ASSUME n <= 6 * Depth, NEW f \in Trees[n] PROVE Good(f, n)
    OBVIOUS
  <2>1. f \in Formulas
    BY TreesAreFormulas
  <2>2. CASE f \in Leaf /\ IsLeaf(f)
    <3>1. negationNormalize[f] = f
      BY <2>1, <2>2, NegationAt DEF NegationDef, IsLeaf
    <3>2. Negative(f)
      BY <2>1, <2>2, NegativeOf
    <3> QED BY <3>1, <3>2 DEF Kept, Normalized
  <2>3. CASE n # 0 /\ n - 1 \in Nat /\ f \in Node(Trees[n - 1]) /\ ~IsLeaf(f)
    <3>1. PICK k \in Nat : k = n - 1
      BY <2>3
    <3>2. k < n /\ k <= 6 * Depth /\ k + 1 = n
      BY <2>3, <3>1, DepthAssumption
    <3>3. \A j \in Nat : j < n => \A e \in Trees[j] : Good(e, j)
      <4> TAKE j \in Nat
      <4> HAVE j < n
      <4>1. j <= 6 * Depth
        BY DepthAssumption
      <4> QED BY <1>1, <4>1
    <3>4. f \in Node(Trees[k]) /\ f.args \in Seq(Trees[k]) /\ \A i \in DOMAIN f.args : f.args[i] \in Trees[k]
      BY <2>3, <3>1, NodeParts
    <3> DEFINE Inside(g) == [g EXCEPT !.args = [i \in DOMAIN g.args |-> negationNormalize[g.args[i]]]]
    <3>5. CASE f.op # "not"
      <4> DEFINE args == [i \in DOMAIN f.args |-> negationNormalize[f.args[i]]]
      <4>1. /\ args \in Seq(Trees[k]) /\ Len(args) = Len(f.args)
            /\ \A i \in DOMAIN f.args : Normalized(f.args[i], args[i])
        BY <3>2, <3>3, <3>4
      <4>2. negationNormalize[f] = [f EXCEPT !.args = args]
        BY <2>1, <2>3, <3>5, NegationAt DEF NegationDef
      <4> HIDE DEF args, Good
      <4>3. [f EXCEPT !.args = args] \in Trees[k + 1] /\ Normalized(f, [f EXCEPT !.args = args])
        BY <3>2, <3>4, <3>5, <4>1, NegationInside
      <4> QED BY <3>2, <4>2, <4>3 DEF Good
    <3>6. CASE f.op = "not"
      <4>1. PICK g \in Trees[k] : g = f.args[1]
        BY <2>1, <3>4, <3>6, NegatedPart
      <4>2. g \in Formulas
        BY <3>2, TreesAreFormulas
      <4>3. k + 1 <= 6 * Depth
        BY <3>2
      <4>4. CASE g \in Leaf /\ IsLeaf(g)
        <5>1. negationNormalize[f] = Not(g)
          BY <2>1, <2>3, <3>6, <4>1, <4>4, NegationAt DEF NegationDef, IsLeaf, Quantified
        <5>2. Without(g, Earlier) => Negative(g) /\ g.op \in {"atom", "exists"}
          BY <4>2, <4>4, NegativeOf, WithoutOf DEF IsLeaf, Earlier
        <5> HIDE DEF Good
        <5>3. Not(g) \in Trees[k + 1] /\ Normalized(f, Not(g))
          BY <2>1, <3>6, <4>1, <4>3, <5>2, NegationStays DEF Kept
        <5> QED BY <3>2, <5>1, <5>3 DEF Good
      <4>5. CASE k # 0 /\ k - 1 \in Nat /\ g \in Node(Trees[k - 1]) /\ ~IsLeaf(g)
        <5>1. PICK j \in Nat : j = k - 1
          BY <4>5
        <5>2. /\ j < n /\ j + 1 = k /\ j + 2 = n /\ j <= 6 * Depth /\ j + 1 <= 6 * Depth
              /\ j + 2 <= 6 * Depth /\ j <= n /\ j + 1 \in Nat
          BY <3>2, <5>1, DepthAssumption
        <5>3. g \in Node(Trees[j]) /\ g.args \in Seq(Trees[j]) /\ \A i \in DOMAIN g.args : g.args[i] \in Trees[j]
          BY <4>5, <5>1, NodeParts
        <5>4. CASE g.op \in {"and", "or"}
          <6> DEFINE d == DeMorgan(g)
                     args == [i \in DOMAIN d.args |-> negationNormalize[d.args[i]]]
          <6>1. d.args = [i \in DOMAIN g.args |-> Not(g.args[i])]
            BY <5>3, <5>4, DeMorganNode
          <6>2. negationNormalize[f] = [d EXCEPT !.args = args]
            <7>1. negationNormalize[f] = NegationDef(0, negationNormalize, f)
              BY <2>1, NegationAt
            <7>2. NegationDef(0, negationNormalize, f) = [d EXCEPT !.args = args]
              BY <2>3, <3>6, <4>1, <5>4 DEF NegationDef, IsLeaf, Quantified
            <7> QED BY <7>1, <7>2
          <6> HIDE DEF d
          <6>3. \A i \in DOMAIN g.args : d.args[i] = Not(g.args[i]) /\ d.args[i] \in Trees[k]
            BY <5>2, <5>3, <6>1, NotOf
          <6>4. DOMAIN d.args = DOMAIN g.args
            BY <6>1
          <6>5. \A i \in DOMAIN g.args : args[i] \in Trees[k] /\ Normalized(Not(g.args[i]), args[i])
            BY <3>2, <3>3, <6>3, <6>4
          <6>6. args \in Seq(Trees[j + 1]) /\ Len(args) = Len(g.args) /\ DOMAIN args = DOMAIN g.args
            <7> DEFINE m == Len(g.args)
            <7>1. m \in Nat /\ DOMAIN g.args = 1 .. m
              BY <5>3
            <7>2. args \in [1 .. m -> Trees[j + 1]]
              BY <5>2, <6>4, <6>5, <7>1
            <7> HIDE DEF m, args
            <7>3. args \in Seq(Trees[j + 1]) /\ Len(args) = m /\ DOMAIN args = 1 .. m
              BY <7>1, <7>2
            <7> QED BY <7>1, <7>3 DEF m
          <6> HIDE DEF args, Good
          <6>7. /\ [DeMorgan(f.args[1]) EXCEPT !.args = args] \in Trees[j + 2]
                /\ Normalized(f, [DeMorgan(f.args[1]) EXCEPT !.args = args])
            BY <2>1, <3>6, <4>1, <5>2, <5>3, <5>4, <6>5, <6>6, NegationJunction
          <6> QED BY <4>1, <5>2, <6>2, <6>7 DEF Good, d
        <5>5. CASE g.op = "not"
          <6> DEFINE e == negationNormalize[g.args[1]]
          <6>1. g.args[1] \in Trees[j]
            BY <4>2, <5>3, <5>5, NegatedPart
          <6>2. e \in Trees[j] /\ Normalized(g.args[1], e)
            BY <3>3, <5>2, <6>1
          <6>3. negationNormalize[f] = e
            BY <2>1, <2>3, <3>6, <4>1, <5>5, NegationAt DEF NegationDef, Quantified
          <6> HIDE DEF e, Good
          <6>4. Normalized(f, e)
            BY <2>1, <3>6, <4>1, <5>5, <6>2, NegationCancelled
          <6>5. e \in Trees[n]
            BY <5>2, <6>2, TreesGrow
          <6> QED BY <6>3, <6>4, <6>5 DEF Good
        <5>6. CASE Quantified(g)
          <6> DEFINE args == [i \in DOMAIN g.args |-> negationNormalize[g.args[i]]]
                     e == [g EXCEPT !.args = args]
          <6>1. /\ args \in Seq(Trees[j]) /\ Len(args) = Len(g.args)
                /\ \A i \in DOMAIN g.args : Normalized(g.args[i], args[i])
            BY <3>3, <5>2, <5>3
          <6>2. g.op \notin {"and", "or", "not"}
            BY <5>6 DEF Quantified
          <6>3. negationNormalize[f] = Not(e)
            BY <2>1, <2>3, <3>6, <4>1, <5>6, <6>2, NegationAt DEF NegationDef
          <6> HIDE DEF args, Good
          <6>4. e \in Trees[k] /\ e.op = g.op /\ Normalized(g, e)
            <7>1. e \in Trees[j + 1] /\ e.op = g.op /\ Normalized(g, e)
              BY <5>2, <5>3, <6>1, <6>2, NegationInside
            <7> QED BY <5>2, <7>1
          <6> HIDE DEF e
          <6>5. Without(g, Earlier) => Without(e, Earlier) /\ Negative(e) /\ e.op \in {"atom", "exists"}
            <7>1. Without(g, Earlier) => g.op \notin Earlier
              BY <4>2, WithoutOf
            <7> QED BY <5>6, <6>4, <7>1 DEF Normalized, Quantified, Earlier
          <6>6. Not(e) \in Trees[k + 1] /\ Normalized(f, Not(e))
            BY <2>1, <3>6, <4>1, <4>3, <6>4, <6>5, NegationStays DEF Normalized
          <6> QED BY <3>2, <6>3, <6>6 DEF Good
        <5>7. CASE g.op = "imply"
          <6>1. negationNormalize[f] = Not(g)
            BY <2>1, <2>3, <3>6, <4>1, <5>7, NegationAt DEF NegationDef, Quantified
          <6>2. ~Without(g, Earlier)
            BY <4>2, <4>5, <5>7, WithoutOf DEF Earlier
          <6> HIDE DEF Good
          <6>3. Not(g) \in Trees[k + 1] /\ Normalized(f, Not(g))
            BY <2>1, <3>6, <4>1, <4>3, <6>2, NegationStays DEF Kept
          <6> QED BY <3>2, <6>1, <6>3 DEF Good
        <5> QED BY <5>3, <5>4, <5>5, <5>6, <5>7, NodeParts DEF Quantified
      <4> QED BY <4>4, <4>5, TreeCases
    <3> QED BY <3>5, <3>6
  <2> QED BY <2>2, <2>3, TreeCases
<1>2. Nat \subseteq S
  <2>1. rank \in [Nat -> Nat]
    OBVIOUS
  <2> HIDE DEF S, rank
  <2> QED BY <1>1, <2>1, RankInduction
<1> QED BY <1>2

-----------------------------------------------------------------------------
(***************************************************************************)
(* The three passes in a row.                                              *)
(***************************************************************************)
\* A precondition after the first, the first two and all passes.
NoImply(f)  == eliminateImply[f]
NoForAll(f) == eliminateForAll[NoImply(f)]
Reduced(f)  == negationNormalize[NoForAll(f)]

\* What they do to a precondition as the parser delivers it: without derived predicates.
LEMMA ReductionKept ==
  ASSUME NEW f \in Trees[Depth], Without(f, {"derived"})
  PROVE  /\ Reduced(f) \in Formulas
         /\ Kept(f, NoImply(f)) /\ Without(NoImply(f), {"derived", "imply"})
         /\ Kept(f, NoForAll(f)) /\ Without(NoForAll(f), Earlier)
         /\ Kept(f, Reduced(f)) /\ Without(Reduced(f), Earlier) /\ Negative(Reduced(f))
<1> DEFINE i == NoImply(f)
           a == NoForAll(f)
           r == Reduced(f)
<1>1. /\ Depth \in Nat /\ Depth <= 3 * Depth /\ 2 * Depth \in Nat /\ 6 * Depth \in Nat
      /\ 3 * (2 * Depth) = 6 * Depth
  BY DepthAssumption
<1>3. i \in Trees[2 * Depth] /\ Kept(f, i) /\ Without(i, {"derived", "imply"})
  BY <1>1, ImplyPass DEF NoImply
<1>4. a = eliminateForAll[i]
  BY DEF NoForAll
<1>5. r = negationNormalize[a]
  BY DEF Reduced
<1> HIDE DEF i, a, r
<1>6. a \in Trees[6 * Depth] /\ Kept(i, a) /\ Without(a, Earlier)
  BY <1>1, <1>3, <1>4, ForAllPass DEF Earlier
<1>7. r \in Formulas /\ Normalized(a, r)
  BY <1>1, <1>5, <1>6, NegationPass DEF Formulas
<1> QED BY <1>3, <1>6, <1>7 DEF Normalized, Kept, i, a, r
=============================================================================
