-------------------------- MODULE ReductionPasses --------------------------
(***************************************************************************)
(* reduce as a state machine: one step per pass over the precondition.     *)
(***************************************************************************)
EXTENDS Reduction

CONSTANTS Parsed,                       \* the preconditions the parser may deliver
          Interpretation, Environment   \* what meanings are compared under

\* Derived predicates come with normalization: an ast::Precondition has none.
ASSUME ParsedAssumption ==
  /\ Parsed \subseteq Trees[Depth]
  /\ \A f \in Parsed : \A g \in Subformulas[f] : g.op # "derived"

VARIABLES source, precondition, pass
vars == <<source, precondition, pass>>
-----------------------------------------------------------------------------
Init == source \in Parsed /\ precondition = source /\ pass = "parsed"

\* Faulty variant of EliminateImply: the pass is not run.
SkipImply == pass = "parsed" /\ pass' = "no imply" /\ UNCHANGED <<source, precondition>>

EliminateImply ==
  /\ pass = "parsed"
  /\ precondition' = eliminateImply[precondition]
  /\ pass' = "no imply"
  /\ UNCHANGED source

EliminateForAll ==
  /\ pass = "no imply"
  /\ precondition' = eliminateForAll[precondition]
  /\ pass' = "no forall"
  /\ UNCHANGED source

NegationNormalize ==
  /\ pass = "no forall"
  /\ precondition' = negationNormalize[precondition]
  /\ pass' = "reduced"
  /\ UNCHANGED source

Next == EliminateImply \/ EliminateForAll \/ NegationNormalize
Spec == Init /\ [][Next]_vars
-----------------------------------------------------------------------------
\* No pass changes what a precondition says: in every state and for every
\* choice of the action's parameters it holds exactly if the source does.
MeaningKept ==
  \A I \in Interpretation, env \in Environment :
    True(precondition, env, I) <=> True(source, env, I)

\* Each pass meets only what the passes before it leave: "imply" is gone
\* before negations are pushed inwards, which throws on it, and at the end
\* "imply" and "forall" are gone and a "not" stands only over an atomic
\* formula or an "exists", which normalizeNested relies on and throws without.
PassesInOrder ==
  /\ pass \in {"parsed", "no imply", "no forall", "reduced"}
  /\ \A f \in Subformulas[precondition] :
       /\ pass # "parsed" => f.op # "imply"
       /\ pass \in {"no forall", "reduced"} => f.op # "forall"
       /\ pass = "reduced" /\ f.op = "not" => f.args[1].op \in {"atom", "exists"}

\* Moving subtrees between nodes neither drops nor duplicates nor reorders
\* an atomic formula: the reduced precondition has the source's, in its order,
\* so it is never longer than the source by more than its connectives.
AtomsKept == Leaves[precondition] = Leaves[source]
=============================================================================
