------------------------ MODULE ConditionTranslation ------------------------
(***************************************************************************)
(* From normalized conditions to what the solver makes of them: the facts  *)
(* that TranslatorASP prints for derived predicates and conditions, and    *)
(* lines 16-27 of encodings/sequential-horizon.lp, which compute derived   *)
(* variables anew in every state.                                          *)
(*                                                                         *)
(* Rules are taken ground: a variable ranges over every object.  A fact    *)
(* keeps its arity, since predicates of different arity never match.       *)
(***************************************************************************)
EXTENDS Normalization

\* A description with "=" does not get this far.
ASSUME SupportedAssumption == \A p \in Predicate : p[1] # "="

VARIABLES facts,       \* the translator's output
          state,       \* the ground atoms true in the state the solver looks at
          holds        \* the solver's holds/3 in it
tvars == <<vars, facts, state, holds>>

\* Terms: a variable with its value and how conditions use it.
VariableOf(f, env) ==
  IF f.op = "atom" THEN <<"variable", f.pred, Ground(f.terms, env)>>
                   ELSE <<"derivedVariable", f.name, Ground(f.terms, env)>>

\* translatePrecondition, translateGoal, translateDerivedPredicatePrecondition:
\* one fact for each literal, its value false if the literal is negated.
LiteralFact(f, env) ==
  IF f.op = "not" THEN <<VariableOf(f.args[1], env), FALSE>> ELSE <<VariableOf(f, env), TRUE>>

LiteralsOf(f) == IF f.op \in {"and", "or"} THEN Range(f.args) ELSE {f}
ConditionFacts(f, env) == {LiteralFact(g, env) : g \in LiteralsOf(f)}

\* Faulty variant of DerivedPredicateName: types "and" and "or" are confused.
DerivedPredicateNameSwapped(d, env) ==
  LET name == <<d.name, Ground(d.parameters \o d.existentialParameters, env)>>
  IN  IF d.parameters = <<>> /\ d.existentialParameters = <<>> THEN <<name>>
      ELSE IF d.precondition.op = "or" THEN <<name, "and">> ELSE <<name, "or">>

\* TranslatorASP.cpp, 238-262: the name comes with its type, except that the
\* early return for a declaration without any variables omits the type.
DerivedPredicateName(d, env) ==
  LET name == <<d.name, Ground(d.parameters \o d.existentialParameters, env)>>
  IN  IF d.parameters = <<>> /\ d.existentialParameters = <<>> THEN <<name>>
      ELSE IF d.precondition.op = "or" THEN <<name, "or">> ELSE <<name, "and">>

Bindings(d) == {Bind(NoBinding, d.parameters \o d.existentialParameters, os) :
                  os \in Tuples(d.parameters \o d.existentialParameters)}
DerivedVariable(d, env) == VariableOf(Derived(d.name, d.parameters), env)

\* Lines 203-300: one record of facts for each declaration, in order.
translateDerivedPredicate(d) ==
  [derivedVariable  |-> {DerivedVariable(d, env) : env \in Bindings(d)},
   derivedPredicate |-> {DerivedPredicateName(d, env) : env \in Bindings(d)},
   precondition     |-> UNION {{<<DerivedPredicateName(d, env), x>> :
                                   x \in ConditionFacts(d.precondition, env)} : env \in Bindings(d)},
   postcondition    |-> {<<DerivedPredicateName(d, env), DerivedVariable(d, env)>> :
                           env \in Bindings(d)}]

(***************************************************************************)
(* The encoding.  Since a body refers only to later declarations           *)
(* (ReferencesAscend), its unique stable model comes from applying the     *)
(* rules to one declaration after the other, the last one first.           *)
(***************************************************************************)
\* Faulty variant of satisfied: one condition of a conjunction is enough.
satisfiedByOne(name, F, H) ==
  LET conditions == {c[2] : c \in {d \in F.precondition : d[1] = name}}
  IN  /\ Len(name) = 2 /\ conditions \cap H # {}

\* Lines 19-23.
satisfied(name, F, H) ==
  LET conditions == {c[2] : c \in {d \in F.precondition : d[1] = name}}
  IN  /\ Len(name) = 2
      /\ CASE name[2] = "and" -> conditions \subseteq H
           [] name[2] = "or"  -> conditions \cap H # {}

\* Lines 25 and 27.  derivedVariable/1 holds the term derivedVariable(name), and
\* line 27 wraps that term once more.
Derive(F, H) ==
  LET wrap(x) == <<"derivedVariable", x>>
      new     == {<<p[2], TRUE>> : p \in {r \in F.postcondition : satisfied(r[1], F, H)}}
  IN  H \cup new \cup {<<wrap(x), FALSE>> :
                         x \in {y \in F.derivedVariable : <<wrap(y), TRUE>> \notin H \cup new}}

\* B is what holds of the variables that are not derived.
WithDerived(B) ==
  LET n == Len(facts)
      from[i \in 1 .. n + 1] == IF i = n + 1 THEN B ELSE Derive(facts[i], from[i + 1])
  IN  from[1]

\* Lines 163-199: a variable for each predicate and its possible arguments.
GroundAtom == UNION {{<<p[1], os>> : os \in [1 .. p[2] -> Object]} : p \in Predicate}

VariableFacts(S) == {<<<<"variable", a[1], a[2]>>, a \in S>> : a \in GroundAtom}
-----------------------------------------------------------------------------
TInit == Init /\ facts = <<>> /\ state = {} /\ holds = {}

Normalize == Next /\ UNCHANGED <<facts, state, holds>>

\* translateDomain and translateProblem, which print the problem's derived
\* predicates after the domain's.
Translate ==
  /\ stage = "done" /\ stage' = "translated"
  /\ facts' = [i \in DOMAIN Declared |-> translateDerivedPredicate(Declared[i])]
  /\ UNCHANGED <<actions, goal, domain, problem, state, holds>>

\* The solver considers a state at some time step.
Consider(S) ==
  /\ stage = "translated" /\ stage' = "considered"
  /\ state' = S
  /\ holds' = WithDerived(VariableFacts(S))
  /\ UNCHANGED <<actions, goal, domain, problem, facts>>

TNext == Normalize \/ Translate \/ \E S \in Interpretation : Consider(S)
TSpec == TInit /\ [][TNext]_tvars
-----------------------------------------------------------------------------
Accepted(f, env) == ConditionFacts(f, env) \subseteq holds

\* Every normalized condition f with the source g it came from, as P(f, g, env).
EveryCondition(P(_, _, _)) ==
  \A env \in Environment :
    /\ \A i \in DOMAIN domain.actions : \A j \in DOMAIN ConditionsOf(actions[i]) :
         P(ConditionsOf(domain.actions[i])[j], ConditionsOf(actions[i])[j], env)
    /\ \A j \in DOMAIN problem.goal : P(problem.goal[j], goal[j], env)

\* The solver never takes a precondition, a conditional effect's condition or
\* the goal for satisfied in a state where the PDDL formula is false: no plan
\* is wrong because of nested conditions.
AcceptedIsTrue ==
  LET Sound(f, g, env) == Accepted(f, env) => True(g, env, state)
  IN  stage = "considered" => EveryCondition(Sound)

\* Only atoms are negated in g.
Positive(g) == \A h \in LiteralsOf(g) : h.op = "not" => h.args[1].op = "atom"

\* No derived predicate that f depends on is negated or lacks variables.
Plain(f) ==
  /\ Positive(f)
  /\ \E needed \in SUBSET Names(Declared) :
       /\ References(f) \subseteq needed
       /\ \A n \in needed :
            /\ Positive(Declaration[n].precondition)
            /\ Declaration[n].parameters \o Declaration[n].existentialParameters # <<>>
            /\ References(Declaration[n].precondition) \subseteq needed

\* Where no derived predicate is negated and each has a variable, the solver
\* also accepts every condition that is true, so no plan is lost.
PlainTrueIsAccepted ==
  LET Complete(f, g, env) == Plain(f) /\ True(g, env, state) => Accepted(f, env)
  IN  stage = "considered" => EveryCondition(Complete)

\* "derived predicates specify whether their preconditions are to be interpreted
\* as a conjunction (type(and)) or as a disjunction (type(or))"
\* (doc/output-format.md, 212): every printed derived predicate has a type.
DerivedPredicatesTyped ==
  \A i \in DOMAIN facts : \A name \in facts[i].derivedPredicate : Len(name) = 2

\* "The effect of all derived predicates is to set the corresponding derived
\* variables to true or false" (doc/output-format.md, 210): in every state the
\* solver considers, a derived variable has a value if all are typed.
DerivedVariablesDecided ==
  stage = "considered" /\ DerivedPredicatesTyped =>
    \A i \in DOMAIN facts : \A x \in facts[i].derivedVariable :
      \E b \in BOOLEAN : <<x, b>> \in holds
=============================================================================
