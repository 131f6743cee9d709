------------------------------ MODULE Formula ------------------------------
(***************************************************************************)
(* Preconditions as trees (pddl/AST.h) and, as the reference the passes    *)
(* are checked against, what such a tree means.                            *)
(*                                                                         *)
(* A variable stands for one VariableDeclaration: the code compares        *)
(* declarations by address, so two binders never share a variable unless   *)
(* neither is in the scope of the other, and one quantifier never binds a  *)
(* variable twice.  Every variable ranges over every object: types only    *)
(* select objects and no pass looks at them.                               *)
(***************************************************************************)
EXTENDS SequencesExt, Naturals

CONSTANTS Var, Object,
          Predicate,  \* the predicates that may be used, as <<name, number of parameters>>
          Depth       \* bound on the connectives nested in what the parser delivers

ASSUME DepthAssumption == Depth \in Nat

Atom(p, ts)    == [op |-> "atom", pred |-> p, terms |-> ts]
Not(f)         == [op |-> "not", args |-> <<f>>]
And(fs)        == [op |-> "and", args |-> fs]
Or(fs)         == [op |-> "or", args |-> fs]
Imply(f, g)    == [op |-> "imply", args |-> <<f, g>>]
Exists(xs, f)  == [op |-> "exists", vars |-> xs, args |-> <<f>>]
ForAll(xs, f)  == [op |-> "forall", vars |-> xs, args |-> <<f>>]
\* A use of the derived predicate declared under the number n.
Derived(n, ts) == [op |-> "derived", name |-> n, terms |-> ts]

IsLeaf(f)     == f.op \in {"atom", "derived"}
Quantified(f) == f.op \in {"exists", "forall"}
Apply(op(_), fs) == [i \in DOMAIN fs |-> op(fs[i])]

Terms == Seq(Var \cup Object)

\* The parser takes a predicate only with as many arguments as its declaration
\* has parameters (SignatureMatching.cpp, lines 122-134).
Atomic == {f \in [op : {"atom"}, pred : STRING, terms : Terms] : <<f.pred, Len(f.terms)>> \in Predicate}
Leaf   == Atomic \cup [op : {"derived"}, name : Nat, terms : Terms]

\* A connective or a quantifier over trees of S.
Connective(S) ==
  {f \in [op : {"and", "or", "imply", "not"}, args : Seq(S)] :
     (f.op = "imply" => Len(f.args) = 2) /\ (f.op = "not" => Len(f.args) = 1)}
Quantifier(S) ==
  {f \in [op : {"exists", "forall"}, vars : Seq(Var), args : Seq(S)] :
     IsInjective(f.vars) /\ Len(f.args) = 1}
Node(S) == Connective(S) \cup Quantifier(S)

\* The trees with at most n of them nested.
Trees[n \in Nat] == IF n = 0 THEN Leaf ELSE Leaf \cup Node(Trees[n - 1])

\* Every tree that the passes build: they put up to five nodes for one.
Formulas == Trees[6 * Depth]

(***************************************************************************)
(* Reference semantics: I is the set of true ground atoms, env the objects *)
(* of the variables.                                                       *)
(***************************************************************************)
Environments == [Var -> Object]

Ground(ts, env) == [i \in DOMAIN ts |-> IF ts[i] \in Var THEN env[ts[i]] ELSE ts[i]]

\* What a leaf asks for in I.
GroundLeaf(f, env) ==
  IF f.op = "atom" THEN <<f.pred, Ground(f.terms, env)>>
                   ELSE <<"derived", f.name, Ground(f.terms, env)>>

Bind(env, xs, os) ==
  [x \in Var |-> IF \E i \in DOMAIN xs : xs[i] = x
                 THEN os[CHOOSE i \in DOMAIN xs : xs[i] = x]
                 ELSE env[x]]

Tuples(xs) == [DOMAIN xs -> Object]

\* Variables a context leaves open; no closed formula depends on the choice.
NoBinding == [x \in Var |-> CHOOSE o \in Object : TRUE]

\* The environments in which f is true, where those of its arguments are in M.
Satisfying(M, f, I) ==
  {env \in Environments :
     CASE IsLeaf(f)       -> GroundLeaf(f, env) \in I
       [] f.op = "not"    -> env \notin M[f.args[1]]
       [] f.op = "and"    -> \A i \in DOMAIN f.args : env \in M[f.args[i]]
       [] f.op = "or"     -> \E i \in DOMAIN f.args : env \in M[f.args[i]]
       [] f.op = "imply"  -> env \in M[f.args[1]] => env \in M[f.args[2]]
       [] f.op = "exists" -> \E os \in Tuples(f.vars) : Bind(env, f.vars, os) \in M[f.args[1]]
       [] f.op = "forall" -> \A os \in Tuples(f.vars) : Bind(env, f.vars, os) \in M[f.args[1]]}

Models(I) == LET M[f \in Formulas] == Satisfying(M, f, I) IN M
True(f, env, I) == env \in Models(I)[f]

\* The leaves of a formula, from left to right.
Leaves[f \in Formulas] ==
  IF IsLeaf(f) THEN <<f>> ELSE FlattenSeq([i \in DOMAIN f.args |-> Leaves[f.args[i]]])

\* Subformulas, f included.
Subformulas[f \in Formulas] ==
  {f} \cup (IF IsLeaf(f) THEN {} ELSE UNION {Subformulas[f.args[i]] : i \in DOMAIN f.args})
=============================================================================
