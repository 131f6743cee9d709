-------------------------- MODULE PreprocessProofs --------------------------
(***************************************************************************)
(* That the static analysis of preprocess.lp loses no plan, for every task *)
(* and every value of _closure.  The argument is a simulation: on every    *)
(* fact the analysis calls relevant, the planner that skips the inactive   *)
(* actions is at least as far as the one that performs them all.           *)
(***************************************************************************)
EXTENDS Preprocess, TLAPS

\* A fact that must persist from the initial state and that no active action
\* destroys holds in the pruned planner all the time.
Undisturbed ==
  \A x \in Variable, v \in Value :
    <<x, v>> \in persist /\ <<x, v>> \notin produce => pruned[x] = v

\* The pruned planner has every relevant fact the full planner has.
Simulated ==
  \A x \in Variable, v \in Value :
    <<x, v>> \in produce \cup persist /\ full[x] = v => pruned[x] = v

\* Every value the full planner reaches was found feasible.
Reached == \A x \in Variable : <<x, full[x]>> \in feasible

\* The inductive invariant.
IInv ==
  /\ TypeOK
  /\ phase = "ground" => full = initialState /\ pruned = initialState
  /\ phase # "ground" => atoms = RulesApplied /\ Undisturbed /\ Simulated /\ Reached
  /\ phase = "unsatisfiable" => ~(goal \subseteq feasible)

-----------------------------------------------------------------------------
\* The state after an action gives every variable a value.
LEMMA ResultType ==
  ASSUME NEW s \in State, NEW a \in Action
  PROVE  Result(s, a) \in State
<1> SUFFICES ASSUME NEW x \in Variable, Writes(a, x)
             PROVE  (CHOOSE v \in Value : <<x, v>> \in postcondition[a]) \in Value
  BY DEF Result, State
<1> QED BY DEF Writes

\* A postcondition of an action without conflicting postconditions holds
\* after it.
LEMMA ResultWritten ==
  ASSUME NEW s \in State, NEW a \in Action, AtMostOneValue(postcondition[a]),
         NEW x \in Variable, NEW v \in Value, <<x, v>> \in postcondition[a]
  PROVE  Result(s, a)[x] = v
<1> DEFINE w == CHOOSE u \in Value : <<x, u>> \in postcondition[a]
<1>1. Writes(a, x)
  BY DEF Writes
<1>2. w \in Value /\ <<x, w>> \in postcondition[a]
  BY <1>1 DEF Writes
<1>3. w = v
  BY <1>2 DEF AtMostOneValue
<1>4. Result(s, a)[x] = w
  BY <1>1 DEF Result
<1> QED BY <1>3, <1>4

\* A variable that no postcondition names keeps its value.
LEMMA ResultKept ==
  ASSUME NEW s \in State, NEW a \in Action, NEW x \in Variable, ~Writes(a, x)
  PROVE  Result(s, a)[x] = s[x]
BY DEF Result

\* A value a variable has afterwards is a postcondition or was kept.
LEMMA ResultOrigin ==
  ASSUME NEW s \in State, NEW a \in Action, NEW x \in Variable
  PROVE  \/ <<x, Result(s, a)[x]>> \in postcondition[a]
         \/ ~Writes(a, x) /\ Result(s, a)[x] = s[x]
<1>1. CASE Writes(a, x)
  <2> DEFINE w == CHOOSE u \in Value : <<x, u>> \in postcondition[a]
  <2>1. w \in Value /\ <<x, w>> \in postcondition[a]
    BY <1>1 DEF Writes
  <2>2. Result(s, a)[x] = w
    BY <1>1 DEF Result
  <2> QED BY <2>1, <2>2
<1>2. CASE ~Writes(a, x)
  BY <1>2, ResultKept
<1> QED BY <1>1, <1>2

-----------------------------------------------------------------------------
USE DEF Fact

\* What an action that was read asks about and sets are facts.
LEMMA TaskTypes ==
  ASSUME TypeOK, NEW a \in action
  PROVE  /\ a \in Action
         /\ precondition[a] \subseteq Fact
         /\ postcondition[a] \subseteq Fact
BY TaskAssumption, PreprocessAssumption DEF TypeOK

\* The rules derive atoms over the task's own facts and actions.
LEMMA RulesType ==
  ASSUME TypeOK
  PROVE  /\ FeasibleRule \subseteq Fact
         /\ ProduceRule \subseteq Fact
         /\ PersistRule \subseteq Fact
         /\ PossibleRule \subseteq action
         /\ ActiveRule \subseteq action
BY DEF TypeOK, FeasibleRule, ProduceRule, PersistRule, PossibleRule, ActiveRule

\* An action that occurs has consistent and feasible preconditions, so in a
\* model of the rules it is possible, unless it changes nothing.
LEMMA OccurringIsPossible ==
  ASSUME TypeOK, atoms = RulesApplied, Reached,
         NEW a \in action, Applicable(full, a)
  PROVE  a \in possible \/ postcondition[a] \subseteq precondition[a]
<1> SUFFICES ASSUME ~(postcondition[a] \subseteq precondition[a])
             PROVE  a \in possible
  OBVIOUS
<1>1. precondition[a] \subseteq Fact
  BY TaskTypes
<1>2. precondition[a] \subseteq feasible
  <2> SUFFICES ASSUME NEW y \in Variable, NEW w \in Value, <<y, w>> \in precondition[a]
               PROVE  <<y, w>> \in feasible
    BY <1>1
  <2>1. full[y] = w
    BY DEF Applicable, Holds
  <2> QED BY <2>1 DEF Reached
<1>3. AtMostOneValue(precondition[a])
  <2> SUFFICES ASSUME NEW y \in Variable, NEW u \in Value, NEW w \in Value,
                      <<y, u>> \in precondition[a], <<y, w>> \in precondition[a]
               PROVE  u = w
    BY DEF AtMostOneValue
  <2> full[y] = u /\ full[y] = w
    BY DEF Applicable, Holds
  <2> QED OBVIOUS
<1>4. irredundant(a)
  BY <1>3 DEF irredundant, consistent, Applicable
<1>5. possible = PossibleRule
  BY DEF atoms, RulesApplied
<1> QED BY <1>2, <1>4, <1>5 DEF PossibleRule

\* An inactive action that occurs establishes nothing the analysis wants
\* produced: what it sets of that held before.
LEMMA InactiveIrrelevant ==
  ASSUME TypeOK, atoms = RulesApplied, Reached,
         NEW a \in action, a \notin active, Applicable(full, a),
         NEW x \in Variable, NEW v \in Value,
         <<x, v>> \in postcondition[a], <<x, v>> \in produce
  PROVE  full[x] = v
<1>1. active = ActiveRule
  BY DEF atoms, RulesApplied
<1>2. a \notin possible
  BY <1>1 DEF ActiveRule
<1>3. <<x, v>> \in precondition[a]
  BY <1>2, OccurringIsPossible
<1> QED BY <1>3 DEF Applicable, Holds

\* Whatever occurs keeps the full planner within the feasible facts.
LEMMA ReachedPreserved ==
  ASSUME TypeOK, atoms = RulesApplied, Reached,
         NEW a \in action, Applicable(full, a), full' = Result(full, a),
         UNCHANGED feasible
  PROVE  Reached'
<1> SUFFICES ASSUME NEW x \in Variable
             PROVE  <<x, full'[x]>> \in feasible
  BY DEF Reached
<1>1. a \in Action /\ full \in State /\ full' \in State
  BY TaskTypes, ResultType DEF TypeOK
<1>2. CASE ~Writes(a, x)
  BY <1>1, <1>2, ResultKept DEF Reached
<1>3. CASE <<x, full'[x]>> \in postcondition[a]
  <2>1. CASE <<x, full'[x]>> \in precondition[a]
    <3>1. full'[x] \in Value
      BY <1>1 DEF State
    <3>2. full[x] = full'[x]
      BY <2>1, <3>1 DEF Applicable, Holds
    <3> QED BY <3>2 DEF Reached
  <2>2. CASE a \in possible
    <3>1. feasible = FeasibleRule
      BY DEF atoms, RulesApplied
    <3>2. <<x, full'[x]>> \in Fact
      BY <1>1 DEF State
    <3> QED BY <1>3, <2>2, <3>1, <3>2 DEF FeasibleRule
  <2> QED BY <1>3, <2>1, <2>2, OccurringIsPossible
<1> QED BY <1>1, <1>2, <1>3, ResultOrigin

\* Both planners begin in the initial state.
LEMMA InitInv == Init => IInv
BY PreprocessAssumption, TaskAssumption DEF Init, IInv, TypeOK

\* Deriving atoms moves neither planner.
LEMMA GroundInv == IInv /\ Ground => IInv'
<1> SUFFICES ASSUME IInv, Ground PROVE IInv'
  OBVIOUS
<1> USE DEF IInv
<1>1. TypeOK'
  <2>1. TypeOK
    OBVIOUS
  <2> QED BY <2>1, RulesType DEF TypeOK, Ground, input
<1> QED BY <1>1 DEF Ground

\* Once no rule derives anything new, the two planners start level.
LEMMA GroundedInv == IInv /\ Grounded => IInv'
<1> SUFFICES ASSUME IInv, Grounded PROVE IInv'
  OBVIOUS
<1> USE DEF IInv
<1>1. /\ atoms = RulesApplied /\ atoms' = atoms /\ input' = input
      /\ full = initialState /\ pruned = initialState
      /\ full' = full /\ pruned' = pruned
      /\ phase' = IF goal \subseteq feasible THEN "plan" ELSE "unsatisfiable"
  BY DEF Grounded
<1>2. TypeOK'
  BY <1>1 DEF TypeOK, input, atoms
<1>3. (atoms = RulesApplied)'
  BY <1>1 DEF RulesApplied, FeasibleRule, PossibleRule, ProduceRule, PersistRule,
              ActiveRule, Queried, atoms, input
<1>4. persist = PersistRule /\ feasible = FeasibleRule
  BY <1>1 DEF atoms, RulesApplied
<1>5. Undisturbed'
  BY <1>1, <1>4 DEF Undisturbed, PersistRule, Initially, atoms
<1>6. Simulated'
  BY <1>1 DEF Simulated
<1>7. Reached'
  <2>1. \A x \in Variable : initialState[x] \in Value
    BY TaskAssumption DEF State
  <2> QED BY <1>1, <1>4, <2>1 DEF Reached, FeasibleRule, Initially, atoms
<1>8. (phase = "unsatisfiable" => ~(goal \subseteq feasible))'
  BY <1>1 DEF atoms, input
<1>9. phase' # "ground"
  BY <1>1
<1> QED BY <1>2, <1>3, <1>5, <1>6, <1>7, <1>8, <1>9

\* An active action moves both planners alike.
LEMMA PerformInv == ASSUME IInv, NEW a \in action, Perform(a) PROVE IInv'
<1> USE DEF IInv
<1>1. /\ phase # "ground" /\ a \in active /\ Applicable(full, a)
      /\ full' = Result(full, a) /\ pruned' = Result(pruned, a)
      /\ atoms' = atoms /\ input' = input /\ phase' = phase
  BY DEF Perform
<1>2. /\ TypeOK /\ atoms = RulesApplied
      /\ Undisturbed /\ Simulated /\ Reached
  BY <1>1
<1>3. a \in Action /\ full \in State /\ pruned \in State
  BY <1>2, TaskTypes DEF TypeOK
<1>4. AtMostOneValue(postcondition[a])
  BY <1>1 DEF Applicable
<1>5. TypeOK'
  BY <1>1, <1>2, <1>3, ResultType DEF TypeOK, input, atoms
<1>6. (atoms = RulesApplied)'
  BY <1>1, <1>2 DEF RulesApplied, FeasibleRule, PossibleRule, ProduceRule, PersistRule,
                    ActiveRule, Queried, atoms, input
<1>7. Undisturbed'
  <2> SUFFICES ASSUME NEW x \in Variable, NEW v \in Value,
                      <<x, v>> \in persist, <<x, v>> \notin produce
               PROVE  pruned'[x] = v
    BY <1>1 DEF Undisturbed, atoms
  <2>1. CASE <<x, v>> \in postcondition[a]
    BY <1>1, <1>3, <1>4, <2>1, ResultWritten
  <2>2. CASE ~Writes(a, x)
    BY <1>1, <1>2, <1>3, <2>2, ResultKept DEF Undisturbed
  <2>3. CASE <<x, v>> \notin postcondition[a] /\ Writes(a, x)
    <3>1. produce = ProduceRule
      BY <1>2 DEF atoms, RulesApplied
    <3>2. <<x, v>> \in ProduceRule
      BY <1>1, <2>3 DEF ProduceRule
    <3> QED BY <3>1, <3>2
  <2> QED BY <2>1, <2>2, <2>3
<1>8. Simulated'
  <2> SUFFICES ASSUME NEW x \in Variable, NEW v \in Value,
                      <<x, v>> \in produce \cup persist, full'[x] = v
               PROVE  pruned'[x] = v
    BY <1>1 DEF Simulated, atoms
  <2>1. CASE <<x, v>> \in postcondition[a]
    BY <1>1, <1>3, <1>4, <2>1, ResultWritten
  <2>2. CASE ~Writes(a, x) /\ full'[x] = full[x]
    BY <1>1, <1>2, <1>3, <2>2, ResultKept DEF Simulated
  <2> QED BY <1>1, <1>3, <2>1, <2>2, ResultOrigin
<1>9. Reached'
  BY <1>1, <1>2, ReachedPreserved DEF atoms
<1> QED BY <1>1, <1>2, <1>5, <1>6, <1>7, <1>8, <1>9 DEF atoms, input

\* Leaving an inactive action out keeps the pruned planner level on what
\* matters.
LEMMA SkipInv == ASSUME IInv, NEW a \in action, Skip(a) PROVE IInv'
<1> USE DEF IInv
<1>1. /\ phase # "ground" /\ a \notin active /\ Applicable(full, a)
      /\ full' = Result(full, a) /\ pruned' = pruned
      /\ atoms' = atoms /\ input' = input /\ phase' = phase
  BY DEF Skip
<1>2. /\ TypeOK /\ atoms = RulesApplied
      /\ Undisturbed /\ Simulated /\ Reached
  BY <1>1
<1>3. a \in Action /\ full \in State
  BY <1>2, TaskTypes DEF TypeOK
<1>4. TypeOK'
  BY <1>1, <1>2, <1>3, ResultType DEF TypeOK, input, atoms
<1>5. (atoms = RulesApplied)'
  BY <1>1, <1>2 DEF RulesApplied, FeasibleRule, PossibleRule, ProduceRule, PersistRule,
                    ActiveRule, Queried, atoms, input
<1>6. Undisturbed'
  BY <1>1, <1>2 DEF Undisturbed, atoms
<1>7. Simulated'
  <2> SUFFICES ASSUME NEW x \in Variable, NEW v \in Value,
                      <<x, v>> \in produce \cup persist, full'[x] = v
               PROVE  pruned[x] = v
    BY <1>1 DEF Simulated, atoms
  <2>1. CASE ~Writes(a, x) /\ full'[x] = full[x]
    BY <1>2, <2>1 DEF Simulated
  <2>2. CASE <<x, v>> \in postcondition[a] /\ <<x, v>> \in produce
    <3>1. full[x] = v
      BY <1>1, <1>2, <2>2, InactiveIrrelevant
    <3> QED BY <1>2, <3>1 DEF Simulated
  <2>3. CASE <<x, v>> \notin produce
    BY <1>2, <2>3 DEF Undisturbed
  <2> QED BY <1>1, <1>3, <2>1, <2>2, <2>3, ResultOrigin
<1>8. Reached'
  BY <1>1, <1>2, ReachedPreserved DEF atoms
<1> QED BY <1>1, <1>2, <1>4, <1>5, <1>6, <1>7, <1>8 DEF atoms, input

\* Nothing happens to the invariant when nothing happens.
LEMMA StutterInv == IInv /\ UNCHANGED vars => IInv'
BY DEF IInv, vars, input, atoms, TypeOK, Undisturbed, Simulated, Reached, RulesApplied,
       FeasibleRule, PossibleRule, ProduceRule, PersistRule, ActiveRule, Queried

\* Whatever actions are performed, for every task: the atoms stay those the static
\* analysis derives, the pruned planner follows the full one, and the values reached
\* are feasible.
THEOREM InductiveInvariant == Spec => []IInv
<1>1. Init => IInv
  BY InitInv
<1>2. IInv /\ [Next]_vars => IInv'
  BY GroundInv, GroundedInv, PerformInv, SkipInv, StutterInv DEF Next
<1> QED BY <1>1, <1>2, PTL DEF Spec

\* The variables keep their types: TypeOK for every task.
THEOREM TypeCorrect == Spec => []TypeOK
<1>1. IInv => TypeOK
  BY DEF IInv
<1> QED BY <1>1, InductiveInvariant, PTL

\* Dropping the inactive actions (preprocess.lp 30-50) loses no plan: whenever
\* the task's actions reach the goal, the active ones among them do.
THEOREM PruningComplete == Spec => []GoalPreserved
<1>1. IInv => GoalPreserved
  <2> SUFFICES ASSUME IInv, phase # "ground", Holds(full, goal),
                      NEW x \in Variable, NEW v \in Value, <<x, v>> \in goal
               PROVE  pruned[x] = v
    BY DEF GoalPreserved, Holds
  <2>1. full[x] = v
    BY DEF Holds
  <2>2. produce = ProduceRule /\ persist = PersistRule
    BY DEF IInv, atoms, RulesApplied
  <2>3. <<x, v>> \in produce \cup persist
    BY <2>2 DEF ProduceRule, PersistRule, Queried
  <2> QED BY <2>1, <2>3 DEF IInv, Simulated
<1> QED BY <1>1, InductiveInvariant, PTL

\* A task refused for an infeasible goal (preprocess.lp:38) has no plan.
THEOREM RefusalCorrect == Spec => []RefusalSound
<1>1. IInv => RefusalSound
  <2> SUFFICES ASSUME IInv, phase = "unsatisfiable", Holds(full, goal)
               PROVE  FALSE
    BY DEF RefusalSound
  <2>1. goal \subseteq Fact /\ ~(goal \subseteq feasible) /\ Reached
    BY PreprocessAssumption DEF IInv, TypeOK
  <2>2. PICK x \in Variable, v \in Value : <<x, v>> \in goal /\ <<x, v>> \notin feasible
    BY <2>1
  <2> QED BY <2>1, <2>2 DEF Holds, Reached
<1> QED BY <1>1, InductiveInvariant, PTL

\* The solver keeps every variable it is asked about
\* (strips-incremental.lp 56-60).
THEOREM FluentsSuffice == Spec => []QueriesAreFluents
<1>1. IInv => QueriesAreFluents
  <2> SUFFICES ASSUME IInv, phase # "ground",
                      NEW x \in Variable, NEW v \in Value, Queried(<<x, v>>)
               PROVE  x \in fluent
    BY DEF QueriesAreFluents
  <2>1. produce = ProduceRule /\ persist = PersistRule
    BY DEF IInv, atoms, RulesApplied
  <2>2. <<x, v>> \in produce \cup persist
    BY <2>1 DEF ProduceRule, PersistRule
  <2> QED BY <2>2 DEF fluent
<1> QED BY <1>1, InductiveInvariant, PTL

\* What is left after pruning is a plan of its own: each remaining action
\* occurs where its preconditions hold.
THEOREM PrunedPlanLegal == Spec => PrunedStepsLegal
<1> DEFINE Legal == pruned' # pruned =>
                      \E a \in active : Applicable(pruned, a) /\ pruned' = Result(pruned, a)
<1>1. IInv /\ [Next]_vars => [Legal]_vars
  <2> SUFFICES ASSUME IInv, Next, pruned' # pruned
               PROVE  \E a \in active : Applicable(pruned, a) /\ pruned' = Result(pruned, a)
    OBVIOUS
  <2>1. PICK a \in action : Perform(a)
    BY DEF Next, Ground, Grounded, Skip
  <2>2. phase # "ground" /\ a \in active /\ Applicable(full, a) /\ pruned' = Result(pruned, a)
    BY <2>1 DEF Perform
  <2>3. Holds(pruned, precondition[a])
    <3> SUFFICES ASSUME NEW x \in Variable, NEW v \in Value, <<x, v>> \in precondition[a]
                 PROVE  pruned[x] = v
      BY DEF Holds
    <3>1. full[x] = v
      BY <2>2 DEF Applicable, Holds
    <3>2. produce = ProduceRule /\ persist = PersistRule
      BY <2>2 DEF IInv, atoms, RulesApplied
    <3>3. <<x, v>> \in produce \cup persist
      BY <2>2, <3>2 DEF ProduceRule, PersistRule, Queried
    <3> QED BY <2>2, <3>1, <3>3 DEF IInv, Simulated
  <2> QED BY <2>2, <2>3 DEF Applicable
<1> QED BY <1>1, InductiveInvariant, PTL DEF Spec, PrunedStepsLegal
=============================================================================
