------------------------- MODULE ActionTranslation -------------------------
(***************************************************************************)
(* From a PDDL description to the steps of a plan: the facts TranslatorASP *)
(* prints for actions, effects and the initial state, and the rules of     *)
(* encodings/sequential-horizon.lp that move from one state to the next.   *)
(*                                                                         *)
(* A ground action is <<i, objects>>, i its place among the domain's       *)
(* actions.  An effect is identified by its number, effect(unconditional)  *)
(* by 0.                                                                   *)
(***************************************************************************)
EXTENDS ConditionTranslation

CONSTANTS InitialStates,   \* the sets of ground literals a problem may list
          NoState, Horizon

\* Without an object there would be no environment to evaluate a formula in.
ASSUME ObjectAssumption == Object # {}
ASSUME InitialAssumption ==
  \A literals \in InitialStates : \A f \in literals :
    f \in EffectLiteral /\ Range(AtomOf(f).terms) \cap Var = {}
ASSUME NoStateAssumption == \A S \in SUBSET GroundAtom : S # NoState

VARIABLES output,  \* the translator's facts for actions
          time     \* holds is holds/3 at this time step
avars == <<tvars, output, time>>

(***************************************************************************)
(* Effect.h and ConditionalEffect.h walk through an effect from left to    *)
(* right.  A placed effect is a part that is no "and" or "forall", with    *)
(* its scope: which objects the variables of the "forall" effects around   *)
(* it (layers) may have, given those of the action's parameters.           *)
(***************************************************************************)
Within(p, xs) ==
  [p EXCEPT !.scope = [env \in Environments |-> UNION {p.scope[Bind(env, xs, os)] : os \in Tuples(xs)}]]

Placed[e \in Effects] ==
  CASE e.op = "and"    -> FlattenSeq([i \in DOMAIN e.args |-> Placed[e.args[i]]])
    [] e.op = "forall" -> LET inner == Placed[e.args[1]] IN [i \in DOMAIN inner |-> Within(inner[i], e.vars)]
    [] OTHER           -> <<[effect |-> e, scope |-> [env \in Environments |-> {env}]]>>

PlacedEffects(action) == FlattenSeq([i \in DOMAIN action.effect |-> Placed[action.effect[i]]])

\* The literals a placed effect sets.
Postconditions(p) == IF p.effect.op = "when" THEN Range(p.effect.args) ELSE {p.effect}

\* Faulty variant of NumberBefore: numbering starts anew in each action.
NumberBeforeZero(out) == 0

\* TranslatorASP.cpp, line 310: declared outside the loop over the actions.
NumberBefore(out) == out.number

\* Effect.h, lines 115-149: each "when" gets one more number, for both its sides.
WhensUpTo(placed, k) == Cardinality({j \in 1 .. k : placed[j].effect.op = "when"})
EffectNumber(placed, k, out) ==
  IF placed[k].effect.op = "when" THEN NumberBefore(out) + WhensUpTo(placed, k) ELSE 0

ParameterBinding(action, os) == Bind(NoBinding, action.parameters, os)

PreconditionFacts(action, i) ==
  UNION {{<<<<i, os>>, x>> : x \in ConditionFacts(f, ParameterBinding(action, os))} :
           f \in Range(action.precondition), os \in Tuples(action.parameters)}

PostconditionFacts(action, i, out) ==
  LET placed == PlacedEffects(action)
      At(k, os) == placed[k].scope[ParameterBinding(action, os)]
  IN  UNION {{<<<<i, os>>, EffectNumber(placed, k, out), LiteralFact(f, env)>> :
                f \in Postconditions(placed[k]), env \in At(k, os)} :
               k \in DOMAIN placed, os \in Tuples(action.parameters)}

\* The facts for the condition of an effect, precondition(effect(N), ...), do not
\* name the action.
EffectConditionFacts(action, out) ==
  LET placed == PlacedEffects(action)
      At(k, os) == placed[k].scope[ParameterBinding(action, os)]
  IN  UNION {{<<EffectNumber(placed, k, out), x>> :
                x \in UNION {ConditionFacts(placed[k].effect.condition, env) : env \in At(k, os)}} :
               k \in {j \in DOMAIN placed : placed[j].effect.op = "when"},
               os \in Tuples(action.parameters)}

\* TranslatorASP.cpp, lines 312-360.
translateAction(action, i, out) ==
  LET placed == PlacedEffects(action)
  IN  [number        |-> NumberBefore(out) + WhensUpTo(placed, Len(placed)),
       action        |-> out.action \cup {<<i, os>> : os \in Tuples(action.parameters)},
       precondition  |-> out.precondition \cup PreconditionFacts(action, i),
       postcondition |-> out.postcondition \cup PostconditionFacts(action, i, out),
       condition     |-> out.condition \cup EffectConditionFacts(action, out)]

NoFacts == [number |-> 0, action |-> {}, precondition |-> {}, postcondition |-> {}, condition |-> {}]
translateActions(acts) ==
  LET out[i \in 0 .. Len(acts)] == IF i = 0 THEN NoFacts ELSE translateAction(acts[i], i, out[i - 1])
  IN  out[Len(acts)]

\* translateFact for what the problem lists; what is not stated to be true is
\* false (TranslatorASP.cpp, lines 451-464).
InitialFacts(literals) ==
  LET stated == {LiteralFact(f, NoBinding) : f \in literals}
  IN  stated \cup {<<x[1], FALSE>> : x \in {y \in VariableFacts({}) : <<y[1], TRUE>> \notin stated}}

(***************************************************************************)
(* The encoding, from one time step to the next.                           *)
(***************************************************************************)
Possible(a) == \A p \in output.precondition : p[1] = a => p[2] \in holds

\* Lines 39-42: an effect is applied if all conditions under its number hold.
caused(a) ==
  {p[3] : p \in {q \in output.postcondition :
                   q[1] = a /\ \A c \in output.condition : c[1] = q[2] => c[2] \in holds}}

\* Faulty variant of Inertia: modified/2 is not asked for.
InertiaAlways(a) == caused(a) \cup {x \in holds : x[1][1] = "variable"}

\* Lines 48-51: what is not caused anew stays, derived variables excepted.
Inertia(a) ==
  caused(a) \cup {x \in holds : x[1][1] = "variable" /\ \A b \in BOOLEAN : <<x[1], b>> \notin caused(a)}

\* Line 58: every variable has exactly one of its two values.
UniqueValues(B) ==
  \A x \in VariableFacts({}) : <<x[1], TRUE>> \in B <=> <<x[1], FALSE>> \notin B
-----------------------------------------------------------------------------
AInit == TInit /\ output = NoFacts /\ time = 0

ANormalize == Normalize /\ UNCHANGED <<output, time>>

TranslateAll == Translate /\ output' = translateActions(domain.actions) /\ UNCHANGED time

\* Lines 13 and 58 for time 0.
Start(literals) ==
  /\ stage = "translated" /\ stage' = "planning"
  /\ UniqueValues(InitialFacts(literals))
  /\ holds' = WithDerived(InitialFacts(literals))
  /\ UNCHANGED <<actions, goal, domain, problem, facts, state, output, time>>

Occurs(a) ==
  /\ stage = "planning" /\ time < Horizon /\ time' = time + 1
  /\ Possible(a)
  /\ UniqueValues(Inertia(a))
  /\ holds' = WithDerived(Inertia(a))
  /\ UNCHANGED <<vars, facts, state, output>>

ANext == \/ ANormalize
         \/ TranslateAll
         \/ \E literals \in InitialStates : Start(literals)
         \/ \E a \in output.action : Occurs(a)
ASpec == AInit /\ [][ANext]_avars
-----------------------------------------------------------------------------
AtomsTrue == {g \in GroundAtom : <<<<"variable", g[1], g[2]>>, TRUE>> \in holds}

\* The solver's sequence of actions is a plan of the description: each occurs
\* where its PDDL precondition is true and does to the state what its PDDL
\* effect says.
PDDL == INSTANCE PDDLPlanner
          WITH state <- IF stage = "planning" THEN AtomsTrue ELSE NoState
ImplementsPDDL == PDDL!Spec

\* The environments an effect is applied under, for one choice of the action's
\* objects or another.
Placements(action, p) == UNION {p.scope[ParameterBinding(action, os)] : os \in Tuples(action.parameters)}

\* The descriptions whose conditional effects the facts can express: the conditions of
\* a "when" that are printed under one number (EffectNumber) are the same wherever it
\* is placed, and plain.
ConditionalEffectsPlain ==
  \A i \in DOMAIN domain.actions : \A p \in Range(PlacedEffects(domain.actions[i])) :
    p.effect.op = "when" =>
      /\ Plain(p.effect.condition)
      /\ \A env, inner \in Placements(domain.actions[i], p) :
           ConditionFacts(p.effect.condition, env) = ConditionFacts(p.effect.condition, inner)

\* A ground action whose PDDL precondition is true may occur, unless its effects
\* contradict each other, or a precondition meets one of the cases in which a
\* derived variable stays without its value.
PlainActionsPossible ==
  stage = "planning" =>
    \A i \in DOMAIN actions : \A os \in Tuples(actions[i].parameters) :
      LET changes == PDDL!ActionChanges(actions[i], os)
      IN  /\ PDDL!PreconditionTrue(actions[i], os)
          /\ \A c \in changes : <<c[1], ~c[2]>> \notin changes
          /\ \A f \in Range(domain.actions[i].precondition) : Plain(f)
          => Possible(<<i, os>>) /\ UniqueValues(Inertia(<<i, os>>))

\* "certain postconditions are only applied if additional conditions are
\* satisfied" (doc/output-format.md, 175): where the condition of a "when" is
\* satisfied for an action and objects, its postconditions are applied.
ConditionalEffectsApplied ==
  stage = "planning" =>
    \A i \in DOMAIN actions : \A os \in Tuples(actions[i].parameters) :
      \A p \in Range(PlacedEffects(domain.actions[i])) :
        \A env \in p.scope[ParameterBinding(actions[i], os)] :
          p.effect.op = "when" /\ ConditionFacts(p.effect.condition, env) \subseteq holds
            => {LiteralFact(f, env) : f \in Postconditions(p)} \subseteq caused(<<i, os>>)
=============================================================================
