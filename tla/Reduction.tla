----------------------------- MODULE Reduction -----------------------------
(***************************************************************************)
(* pddl/detail/normalization/Reduction.cpp: the three passes that rewrite  *)
(* a precondition in place, moving subtrees from the old nodes to the new, *)
(* before its nested parts become derived predicates.                      *)
(***************************************************************************)
EXTENDS Formula

(***************************************************************************)
(* The new node each rewriting builds over the subtrees it has moved.      *)
(***************************************************************************)
\* Faulty variant of Disjunction: the left side is moved without its negation.
DisjunctionUnnegated(f, g) == Or(<<f, g>>)

\* Lines 63-68 of handleImply.
Disjunction(f, g) == Or(<<Not(f), g>>)

\* Lines 242-244 of handleForAll.
NegatedExists(xs, f) == Not(Exists(xs, Not(f)))

\* Faulty variant of DeMorgan: the first argument is moved away twice.
DeMorganMovedTwice(f) ==
  LET args == [i \in DOMAIN f.args |-> Not(f.args[1])]
  IN  IF f.op = "and" THEN Or(args) ELSE And(args)

\* Lines 102-105 and 149-152: De Morgan, each argument under a "not" of its own.
DeMorgan(f) == IF f.op = "and" THEN Or(Apply(Not, f.args)) ELSE And(Apply(Not, f.args))

eliminateImply[f \in Formulas] ==
  LET args == [i \in DOMAIN f.args |-> eliminateImply[f.args[i]]]
  IN  IF IsLeaf(f) THEN f
      ELSE IF f.op = "imply" THEN Disjunction(args[1], args[2])
      ELSE [f EXCEPT !.args = args]

eliminateForAll[f \in Formulas] ==
  LET args == [i \in DOMAIN f.args |-> eliminateForAll[f.args[i]]]
  IN  IF IsLeaf(f) THEN f
      ELSE IF f.op = "forall" THEN NegatedExists(f.vars, args[1])
      ELSE [f EXCEPT !.args = args]

\* negationNormalize, with negationNormalizeNegated for what is under a "not".
\* Both throw std::logic_error at "imply" (PassesInOrder rules it out).
negationNormalize[f \in Formulas] ==
  LET Inside(g)  == [g EXCEPT !.args = [i \in DOMAIN g.args |-> negationNormalize[g.args[i]]]]
      Negated(g) == CASE g.op \in {"and", "or"} -> Inside(DeMorgan(g))
                      [] g.op = "not"           -> negationNormalize[g.args[1]]
                      [] Quantified(g)          -> Not(Inside(g))
                      [] OTHER                  -> Not(g)
  IN  CASE IsLeaf(f)     -> f
        [] f.op = "not"  -> Negated(f.args[1])
        [] OTHER         -> Inside(f)

\* Lines 272-282.
reduce(f) == negationNormalize[eliminateForAll[eliminateImply[f]]]
=============================================================================
