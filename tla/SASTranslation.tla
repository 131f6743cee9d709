--------------------------- MODULE SASTranslation ---------------------------
(***************************************************************************)
(* From a SAS task to the steps of a plan: the facts that                  *)
(* sas/TranslatorASP.cpp prints for a description, and the rules of        *)
(* encodings/sequential-horizon.lp applied to them.                        *)
(*                                                                         *)
(* In the facts everything goes by name: a fact is <<variable, value>>, a  *)
(* value <<name, sign>> or, for value(none), <<>>.  An effect is its       *)
(* number, effect(unconditional) is -1.                                    *)
(***************************************************************************)
EXTENDS SASDescription, FiniteSetsExt

CONSTANTS NoState, Horizon

ASSUME PlansAssumption ==
  Horizon \in Nat /\ \A w \in Descriptions : NoState \notin [DOMAIN w.variables -> Int]

VARIABLES facts,   \* the translator's output
          holds,   \* holds/3 at this time step
          time,
          solved   \* the goal has been met
svars == <<dvars, facts, holds, time, solved>>

-----------------------------------------------------------------------------
printValue(v) == IF v = None THEN <<>> ELSE <<v.name, v.positive>>
printFact(d, f)   == <<d.variables[f[1] + 1].name, printValue(f[2])>>
printFacts(d, fs) == {printFact(d, f) : f \in fs}

usesAxiomRules(d) == d.axiomRules # <<>> \/ \E i \in DOMAIN d.variables : d.variables[i].axiomLayer # -1
usesConditionalEffects(d) ==
  \E i \in DOMAIN d.operators : \E j \in DOMAIN d.operators[i].effects :
    d.operators[i].effects[j].conditions # <<>>

Requirements(d) == {f \in {"actionCosts", "axiomRules", "conditionalEffects"} :
                      CASE f = "actionCosts" -> d.usesActionCosts
                        [] f = "axiomRules"  -> usesAxiomRules(d)
                        [] OTHER             -> usesConditionalEffects(d)}

\* Effects by the positions of operator and effect.
effectsOf(d) == UNION {{k} \X DOMAIN d.operators[k].effects : k \in DOMAIN d.operators}
conditionsOf(d, e) == d.operators[e[1]].effects[e[2]].conditions

\* The number when an effect is printed: it has been increased by the conditional
\* effects before, of all operators.
currentEffectID(d, e) ==
  Cardinality({f \in effectsOf(d) : /\ conditionsOf(d, f) # <<>>
                                    /\ f[1] < e[1] \/ (f[1] = e[1] /\ f[2] < e[2])})

translatePostcondition(d, e) ==
  <<d.operators[e[1]].predicate, IF conditionsOf(d, e) = <<>> THEN -1 ELSE currentEffectID(d, e),
    printFact(d, d.operators[e[1]].effects[e[2]].postcondition)>>

\* Faulty variant of translateConditions: the number is increased between the two
\* kinds of facts.
translateConditionsIncreased(d, e) ==
  {<<currentEffectID(d, e) + 1, x>> : x \in printFacts(d, Range(conditionsOf(d, e)))}

translateConditions(d, e) ==
  {<<currentEffectID(d, e), x>> : x \in printFacts(d, Range(conditionsOf(d, e)))}

translateActions(d) ==
  [action        |-> {o.predicate : o \in Range(d.operators)},
   precondition  |-> UNION {{<<o.predicate, x>> : x \in printFacts(d, o.preconditions)} : o \in Range(d.operators)},
   postcondition |-> {translatePostcondition(d, e) : e \in effectsOf(d)},
   condition     |-> UNION {translateConditions(d, e) : e \in effectsOf(d)},
   costs         |-> {<<o.predicate, o.costs>> : o \in Range(d.operators)}]
NoActions == [action |-> {}, precondition |-> {}, postcondition |-> {}, condition |-> {}, costs |-> {}]

translateMutexes(d) == {<<i, printFacts(d, Range(d.mutexGroups[i]))>> : i \in DOMAIN d.mutexGroups}

\* A rule has no condition to be applied under but is printed like an action.
translateAxiomRules(d) ==
  {[conditions    |-> printFacts(d, d.axiomRules[i].conditions),
    postcondition |-> printFact(d, d.axiomRules[i].postcondition)] : i \in DOMAIN d.axiomRules}

translate(d) ==
  [requires     |-> Requirements(d),
   variable     |-> {d.variables[i].name : i \in DOMAIN d.variables},
   contains     |-> UNION {{<<d.variables[i].name, printValue(v)>> : v \in Range(d.variables[i].values)} :
                             i \in DOMAIN d.variables},
   actions      |-> translateActions(d),
   mutexGroups  |-> translateMutexes(d),
   axiomRules   |-> IF usesAxiomRules(d) THEN translateAxiomRules(d) ELSE {},
   initialState |-> printFacts(d, Range(d.initialState)),
   goal         |-> printFacts(d, Range(d.goal))]

NoFacts == [requires |-> {}, variable |-> {}, contains |-> {}, actions |-> NoActions,
            mutexGroups |-> {}, axiomRules |-> {}, initialState |-> {}, goal |-> {}]

-----------------------------------------------------------------------------
(***************************************************************************)
(* The encoding, from one time step to the next.                           *)
(***************************************************************************)
Possible(a) == \A p \in facts.actions.precondition : p[1] = a => p[2] \in holds

\* Lines 39-42.
caused(a) ==
  {p[3] : p \in {q \in facts.actions.postcondition :
     q[1] = a /\ \A c \in facts.actions.condition : c[1] = q[2] => c[2] \in holds}}

\* Lines 46-51.
modified(a) == {x[1] : x \in caused(a)}
Inertia(a)  == caused(a) \cup {x \in holds : x[1] \notin modified(a)}

\* Line 58.
UniqueValues(B) == \A v \in facts.variable : Cardinality({x \in B \cap facts.contains : x[1] = v}) = 1

\* Faulty variant of MutexGroups: exactly one fact of a group must hold.
MutexGroupsExactlyOne(B) == \A m \in facts.mutexGroups : Cardinality(m[2] \cap B) = 1

\* Line 61: at most one fact of a group holds, at time 0 already.
MutexGroups(B) == \A m \in facts.mutexGroups : Cardinality(m[2] \cap B) <= 1

-----------------------------------------------------------------------------
SInit == Init /\ facts = NoFacts /\ holds = {} /\ time = 0 /\ solved = FALSE

SParse == Parse /\ UNCHANGED <<facts, holds, time, solved>>

Translate ==
  /\ stage = "read" /\ stage' = "translated" /\ facts' = translate(s.description)
  /\ UNCHANGED <<written, s, holds, time, solved>>

Start ==
  /\ stage = "translated" /\ stage' = "planning"
  /\ UniqueValues(facts.initialState) /\ MutexGroups(facts.initialState)
  /\ holds' = facts.initialState
  /\ UNCHANGED <<written, s, facts, time, solved>>

Occurs(a) ==
  /\ stage = "planning" /\ ~solved /\ time < Horizon /\ time' = time + 1
  /\ Possible(a) /\ UniqueValues(Inertia(a)) /\ MutexGroups(Inertia(a))
  /\ holds' = Inertia(a)
  /\ UNCHANGED <<dvars, facts, solved>>

\* Line 67, at the last time step.
Solve ==
  /\ stage = "planning" /\ ~solved /\ solved' = TRUE /\ facts.goal \subseteq holds
  /\ UNCHANGED <<dvars, facts, holds, time>>

SNext == SParse \/ Translate \/ Start \/ Solve \/ \E a \in facts.actions.action : Occurs(a)
SSpec == SInit /\ [][SNext]_svars

-----------------------------------------------------------------------------
\* The state by indices, as written; a value that is not true does not count.
StateWritten ==
  [i \in DOMAIN written.variables |->
     CHOOSE j \in 0 .. Len(written.variables[i].values) - 1 :
       <<written.variables[i].name, printValue(written.variables[i].values[j + 1])>> \in holds]

Planning == stage = "planning" /\ "axiomRules" \notin facts.requires

\* What the solver does with the printed facts is a plan of the task that was
\* written, unless the facts announce axioms, which the encoding leaves out.
SAS == INSTANCE SASPlanner WITH state  <- IF Planning THEN StateWritten ELSE NoState,
                                time   <- IF Planning THEN time ELSE 0,
                                solved <- Planning /\ solved
ImplementsSAS == SAS!Spec

MutexGroupsHold(st) ==
  \A g \in Range(written.mutexGroups) :
    Cardinality({f \in Range(g) : st[f[1] + 1] = f[2]}) <= 1

\* Nothing of a task without axioms is lost: it can be started, an operator that
\* is applicable may occur and the goal is seen to be met, as long as effects do
\* not contradict each other or assign "any value" and what the mutex groups say
\* is true of the states reached.
PlansNotLost ==
  "axiomRules" \notin facts.requires =>
    /\ stage = "translated" /\ -1 \notin Range(written.initialState)
         /\ MutexGroupsHold(written.initialState)
         => UniqueValues(facts.initialState) /\ MutexGroups(facts.initialState)
    /\ stage = "planning" =>
         /\ SAS!AllHold(StateWritten, written.goal) => facts.goal \subseteq holds
         /\ \A k \in DOMAIN written.operators :
              LET o       == written.operators[k]
                  a       == s.description.operators[k].predicate
                  changes == SAS!Changes(StateWritten, o)
              IN  /\ SAS!Applicable(StateWritten, o) /\ SAS!Consistent(changes)
                  /\ \A c \in changes : c[2] # -1
                  /\ MutexGroupsHold(SAS!Result(StateWritten, changes))
                  => Possible(a) /\ UniqueValues(Inertia(a)) /\ MutexGroups(Inertia(a))
=============================================================================
