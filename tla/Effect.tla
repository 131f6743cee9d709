------------------------------- MODULE Effect -------------------------------
(***************************************************************************)
(* Effects as trees (pddl/AST.h).  A literal is an effect; so are an "and" *)
(* of effects, a "forall" over one effect, and a "when", whose right side  *)
(* is a list of literals.                                                  *)
(***************************************************************************)
EXTENDS Formula

\* Conditional effects.
When(f, ls) == [op |-> "when", condition |-> f, args |-> ls]

\* A condition as the parser delivers it: derived predicates come with
\* normalization.
Conditions == {f \in Trees[Depth] : \A g \in Subformulas[f] : g.op # "derived"}

\* Effects with conditions in C.
EffectLiteral == Atomic \cup {e \in [op : {"not"}, args : Seq(Atomic)] : Len(e.args) = 1}
EffectLeaf(C) == EffectLiteral \cup [op : {"when"}, condition : C, args : Seq(EffectLiteral)]
EffectNode(S) ==
  [op : {"and"}, args : Seq(S)] \cup
  {e \in [op : {"forall"}, vars : Seq(Var), args : Seq(S)] : IsInjective(e.vars) /\ Len(e.args) = 1}

\* Those with at most n of "and" and "forall" nested.
EffectTrees(C) ==
  LET T[n \in Nat] == IF n = 0 THEN EffectLeaf(C) ELSE EffectLeaf(C) \cup EffectNode(T[n - 1])
  IN  T

SourceEffects == EffectTrees(Conditions)[Depth]
Effects       == EffectTrees(Formulas)[Depth]

\* The conditions of an effect, from left to right.
EffectConditions[e \in Effects] ==
  CASE e.op \in {"and", "forall"} ->
         FlattenSeq([i \in DOMAIN e.args |-> EffectConditions[e.args[i]]])
    [] e.op = "when"              -> <<e.condition>>
    [] OTHER                      -> <<>>

\* The atomic formulas an effect sets.
EffectAtoms[e \in Effects] ==
  IF e.op = "atom" THEN {e} ELSE UNION {EffectAtoms[e.args[i]] : i \in DOMAIN e.args}

(***************************************************************************)
(* Reference semantics of effects.                                         *)
(***************************************************************************)
\* The ground atom a literal sets, and the value it sets it to.
AtomOf(f) == IF f.op = "not" THEN f.args[1] ELSE f
LiteralChange(f, env) == <<GroundLeaf(AtomOf(f), env), f.op # "not">>

\* What an effect sets in the state I, with the objects env for the variables.
ChangesWith(C, e, I) ==
  [env \in Environments |->
     CASE e.op = "and"    -> UNION {C[e.args[i]][env] : i \in DOMAIN e.args}
       [] e.op = "forall" -> UNION {C[e.args[1]][Bind(env, e.vars, os)] : os \in Tuples(e.vars)}
       [] e.op = "when"   -> {LiteralChange(e.args[i], env) : i \in {j \in DOMAIN e.args : True(e.condition, env, I)}}
       [] OTHER           -> {LiteralChange(e, env)}]
Changes(I) == LET C[e \in Effects] == ChangesWith(C, e, I) IN C

\* All conditions of an action: its precondition, then those of its effect.
ConditionsOf(action) ==
  action.precondition \o
    FlattenSeq([i \in DOMAIN action.effect |-> EffectConditions[action.effect[i]]])
=============================================================================
