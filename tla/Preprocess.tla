----------------------------- MODULE Preprocess -----------------------------
(***************************************************************************)
(* encodings/strips/preprocess.lp: the static analysis that keeps only the *)
(* actions which may be relevant.  The grounder derives atoms from the     *)
(* rules until none is new; then two planners run side by side on the same *)
(* sequence of actions: one (full) takes every action of the task, the     *)
(* other (pruned) skips those the analysis left inactive.                  *)
(***************************************************************************)
EXTENDS PlanningTask, Naturals

CONSTANTS Closure,   \* the values the option _closure may be given
          Tasks,     \* the sets of ground actions a task may have
          Goals      \* the sets of goal facts a task may have

ASSUME PreprocessAssumption ==
  /\ Closure \subseteq Nat
  /\ Tasks \subseteq SUBSET Action
  /\ Goals \subseteq SUBSET Fact

VARIABLES _closure, action, goal,                  \* the input
          feasible, possible, produce, persist, active,  \* derived atoms
          phase, full, pruned

input == <<_closure, action, goal>>
atoms == <<feasible, possible, produce, persist, active>>
vars  == <<input, atoms, phase, full, pruned>>

Initially(x, v) == initialState[x] = v

\* Faulty variant of irredundant: one postcondition that is a precondition too
\* makes the action redundant.
irredundantAll(a) ==
  /\ AtMostOneValue(precondition[a]) /\ AtMostOneValue(postcondition[a])
  /\ postcondition[a] \cap precondition[a] = {}

\* Lines 24-28: an action that names a variable twice is dropped, and so is
\* one that only re-establishes its own preconditions.
consistent(a)  == AtMostOneValue(precondition[a]) /\ AtMostOneValue(postcondition[a])
irredundant(a) == consistent(a) /\ ~(postcondition[a] \subseteq precondition[a])

\* Lines 32-36: forward chaining.
FeasibleRule ==
  {f \in Fact : \/ Initially(f[1], f[2])
                \/ \E a \in possible : f \in postcondition[a]}

\* Faulty variant of PossibleRule: over the actions of any task.
PossibleRuleAnyTask ==
  {a \in Action : /\ irredundant(a)
                  /\ precondition[a] \subseteq feasible \/ _closure \notin {1, 3}}

PossibleRule ==
  {a \in action : /\ irredundant(a)
                  /\ precondition[a] \subseteq feasible \/ _closure \notin {1, 3}}

\* Faulty variant of Queried: what active actions ask about is forgotten.
QueriedByGoal(f) == f \in goal

\* Lines 42-50: backward regression.
Queried(f) == f \in goal \/ \E a \in active : f \in precondition[a]

\* Faulty variant of ProduceRule: without line 44.
ProduceRuleNoRestore == {f \in Fact : Queried(f) /\ ~Initially(f[1], f[2])}

ProduceRule ==
  {f \in Fact : \/ Queried(f) /\ ~Initially(f[1], f[2])
                \/ /\ f \in persist
                   /\ \E a \in active : Writes(a, f[1]) /\ f \notin postcondition[a]}

\* Faulty variant of PersistRule: without line 47.
PersistRuleGoalOnly == {f \in Fact : f \in goal /\ Initially(f[1], f[2])}

PersistRule == {f \in Fact : Queried(f) /\ Initially(f[1], f[2])}

ActiveRule ==
  {a \in possible : postcondition[a] \cap produce # {} \/ _closure \notin {2, 3}}

RulesApplied == <<FeasibleRule, PossibleRule, ProduceRule, PersistRule, ActiveRule>>

TypeOK ==
  /\ _closure \in Closure /\ action \in Tasks /\ goal \in Goals
  /\ feasible \subseteq Fact /\ produce \subseteq Fact /\ persist \subseteq Fact
  /\ possible \subseteq action /\ active \subseteq action
  /\ phase \in {"ground", "plan", "unsatisfiable"}
  /\ full \in State /\ pruned \in State

Init ==
  /\ _closure \in Closure /\ action \in Tasks /\ goal \in Goals
  /\ feasible = {} /\ possible = {} /\ produce = {} /\ persist = {} /\ active = {}
  /\ phase = "ground"
  /\ full = initialState /\ pruned = initialState

\* The rules' heads join the model, until nothing is new.
Ground ==
  /\ phase = "ground"
  /\ atoms # RulesApplied
  /\ feasible' = FeasibleRule /\ possible' = PossibleRule
  /\ produce' = ProduceRule /\ persist' = PersistRule /\ active' = ActiveRule
  /\ UNCHANGED <<input, phase, full, pruned>>

\* Line 38: a goal that is not feasible leaves no answer set.
Grounded ==
  /\ phase = "ground"
  /\ atoms = RulesApplied
  /\ phase' = IF goal \subseteq feasible THEN "plan" ELSE "unsatisfiable"
  /\ UNCHANGED <<input, atoms, full, pruned>>

\* Both planners perform an active action; the pruned one does not look again
\* at whether it may.
Perform(a) ==
  /\ phase # "ground"
  /\ a \in active
  /\ Applicable(full, a)
  /\ full' = Result(full, a)
  /\ pruned' = Result(pruned, a)
  /\ UNCHANGED <<input, atoms, phase>>

\* The pruned planner leaves an inactive action out.
Skip(a) ==
  /\ phase # "ground"
  /\ a \notin active
  /\ Applicable(full, a)
  /\ full' = Result(full, a)
  /\ UNCHANGED <<input, atoms, phase, pruned>>

Next == Ground \/ Grounded \/ \E a \in action : Perform(a) \/ Skip(a)

Spec == Init /\ [][Next]_vars

-----------------------------------------------------------------------------
\* Lines 56-60 of strips-incremental.lp: the facts the solver keeps track of.
fluent ==
  LET facts == produce \cup persist
  IN  {x \in Variable : \E v \in Value : <<x, v>> \in facts}

\* Whatever sequence of actions reaches the goal, what is left of it after
\* dropping the inactive actions reaches the goal too.
GoalPreserved ==
  phase # "ground" /\ Holds(full, goal) => Holds(pruned, goal)

\* When line 38 refuses the task, no sequence of its actions reaches the goal.
RefusalSound == phase = "unsatisfiable" => ~Holds(full, goal)

\* Every variable an active action or the goal asks about is a fluent, so the
\* solver never needs the value of a variable it does not keep.
QueriesAreFluents ==
  phase # "ground" =>
    \A x \in Variable, v \in Value : Queried(<<x, v>>) => x \in fluent

\* Every step of the pruned planner is a legal step of the sequential planner,
\* although Perform only looks at the other planner's state.
PrunedStepsLegal ==
  [][pruned' # pruned =>
       \E a \in active : Applicable(pruned, a) /\ pruned' = Result(pruned, a)]_vars
=============================================================================
