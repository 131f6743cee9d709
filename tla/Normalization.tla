--------------------------- MODULE Normalization ---------------------------
(***************************************************************************)
(* pddl/detail/normalization: a description is normalized action by        *)
(* action, then the goal.  Each condition is reduced (module Reduction),   *)
(* and what is still nested in it moves into derived predicates declared   *)
(* in a context: one for the whole domain, a second one, numbered on from  *)
(* it, for the problem.                                                    *)
(*                                                                         *)
(* An action may lack a precondition or an effect: both are sequences of   *)
(* at most one.  An effect is a literal, an "and" or a "forall" of         *)
(* effects, or a "when" of a condition and literals.                       *)
(***************************************************************************)
EXTENDS Effect, Reduction

CONSTANTS Actions,      \* the actions the parser may deliver
          Goals,        \* the goals it may deliver, as sequences of at most one
          MaxActions,   \* bound on the actions of a domain
          Interpretation, Environment   \* what meanings are compared under

ASSUME InputAssumption ==
  /\ Actions \subseteq [parameters : Seq(Var), precondition : Seq(Conditions),
                         effect : Seq(SourceEffects)]
  /\ Goals \subseteq Seq(Conditions)
\* A state consists of atoms <<p, objects>>; that of a derived predicate has a
\* third part.
ASSUME InterpretationAssumption == \A I \in Interpretation : \A a \in I : Len(a) = 2
ASSUME EnvironmentAssumption == Environment \subseteq Environments

VARIABLES stage, actions, goal, domain, problem
vars == <<stage, actions, goal, domain, problem>>

NoPrecondition == And(<<>>)

(***************************************************************************)
(* Variables of f that are neither bound in it nor in the stack, in the    *)
(* order of their first use (CollectFreeVariables.h).                      *)
(***************************************************************************)
\* Faulty variant of CollectVariable: only the first free variable is kept.
CollectFirstVariable(free, t, stack) ==
  IF t \notin Var \/ t \in stack \/ free # <<>> THEN free ELSE Append(free, t)

\* Lines 36-47.
CollectVariable(free, t, stack) ==
  IF t \notin Var \/ t \in stack \/ t \in Range(free) THEN free ELSE Append(free, t)

\* What becomes of s after the steps, each a function, one after the other.
Run(steps, s) ==
  LET after[i \in 0 .. Len(steps)] == IF i = 0 THEN s ELSE steps[i][after[i - 1]]
  IN  after[Len(steps)]

collectFreeVariables[f \in Formulas] ==
  [stack \in SUBSET Var |-> [free \in Seq(Var) |->
     IF IsLeaf(f)
     THEN Run([i \in DOMAIN f.terms |->
                 [fv \in Seq(Var) |-> CollectVariable(fv, f.terms[i], stack)]], free)
     ELSE LET inner == IF Quantified(f) THEN stack \cup Range(f.vars) ELSE stack
          IN  Run([i \in DOMAIN f.args |-> collectFreeVariables[f.args[i]][inner]], free)]]

(***************************************************************************)
(* Precondition.cpp.  Each function returns what the code returns and the  *)
(* context it leaves behind.                                               *)
(***************************************************************************)
DerivedPredicates == [name : Nat, parameters : Seq(Var), existentialParameters : Seq(Var),
                      precondition : Formulas]
Contexts == [start : Nat, derivedPredicates : Seq(DerivedPredicates)]
Context(start, declared) == [start |-> start, derivedPredicates |-> declared]

\* Faulty variant of addDerivedPredicate: the new declaration goes first, so
\* the index its body is stored under later is another one's.
addDerivedPredicateFront(ps, context) ==
  [context EXCEPT !.derivedPredicates =
     <<[name |-> context.start + Len(@), parameters |-> ps,
        existentialParameters |-> <<>>, precondition |-> NoPrecondition]>> \o @]

\* Lines 42-61: the name is the number after the last; the body comes later.
addDerivedPredicate(ps, context) ==
  [context EXCEPT !.derivedPredicates =
     Append(@, [name |-> context.start + Len(@), parameters |-> ps,
                existentialParameters |-> <<>>, precondition |-> NoPrecondition])]

\* Faulty variant of Define: the variables of "exists" stay behind.
DefineUnquantified(context, i, xs, body) ==
  [context EXCEPT !.derivedPredicates[i] = [@ EXCEPT !.precondition = body]]

\* Lines 84, 108-113, 175: the body and the variables it quantifies over.
Define(context, i, xs, body) ==
  [context EXCEPT !.derivedPredicates[i] =
     [@ EXCEPT !.existentialParameters = xs, !.precondition = body]]

\* The context goes from one step to the next.
NormalizeEach(steps, context) ==
  LET after[i \in 0 .. Len(steps)] ==
        IF i = 0 THEN [result |-> <<>>, context |-> context]
        ELSE LET last == after[i - 1]
                 r    == steps[i][last.context]
             IN  [result |-> Append(last.result, r.result), context |-> r.context]
  IN  after[Len(steps)]

\* An "and" or "or" keeps its place and gets literals for arguments.
TopLevel(nested, f, context) ==
  IF f.op \in {"and", "or"}
  THEN LET r == NormalizeEach([i \in DOMAIN f.args |-> nested[f.args[i]]], context)
       IN  [result |-> [f EXCEPT !.args = r.result], context |-> r.context]
  ELSE nested[f][context]

\* What an "exists" leaves to the body, and the variables it gives up to it.
Scope(f) == IF f.op = "exists" THEN f.args[1] ELSE f
Bound(f) == IF f.op = "exists" THEN f.vars ELSE <<>>

\* Faulty variant of Replaced: declared after the ones its body needs.
ReplacedLate(nested, f, context) ==
  LET params == collectFreeVariables[f][{}][<<>>]
      body   == TopLevel(nested, Scope(f), context)
      added  == addDerivedPredicate(params, body.context)
      i      == Len(added.derivedPredicates)
  IN  [result  |-> Derived(added.derivedPredicates[i].name, params),
       context |-> Define(added, i, Bound(f), body.result)]

\* "and", "or" and "exists" become a derived predicate of their free variables,
\* declared before the ones its body needs.
Replaced(nested, f, context) ==
  LET params == collectFreeVariables[f][{}][<<>>]
      added  == addDerivedPredicate(params, context)
      i      == Len(added.derivedPredicates)
      body   == TopLevel(nested, Scope(f), added)
  IN  [result  |-> Derived(added.derivedPredicates[i].name, params),
       context |-> Define(body.context, i, Bound(f), body.result)]

\* What reduction leaves: the code throws std::logic_error at "imply", at "forall"
\* and at a "not" of a "not".
NormalForm ==
  {f \in Formulas : \A g \in Subformulas[f] : /\ g.op \notin {"imply", "forall"}
                                              /\ g.op = "not" => g.args[1].op # "not"}

\* A literal stays.
normalizeNested[f \in NormalForm] ==
  [context \in Contexts |->
     CASE IsLeaf(f)    -> [result |-> f, context |-> context]
       [] f.op = "not" -> LET r == normalizeNested[f.args[1]][context]
                          IN  [r EXCEPT !.result = Not(@)]
       [] OTHER        -> Replaced(normalizeNested, f, context)]

normalizeTopLevel(f) == [context \in Contexts |-> TopLevel(normalizeNested, f, context)]

\* Faulty variant of normalize: an outermost "or" is kept, as inside "exists".
normalizeKeepOr(f) == normalizeTopLevel(reduce(f))

\* Lines 309-357, as a function of the context.
normalize(f) ==
  LET g == reduce(f)
  IN  IF g.op = "or" THEN normalizeNested[g] ELSE normalizeTopLevel(g)

\* Effect.cpp: only the condition of a "when" changes.
normalizeEffect[e \in SourceEffects] ==
  [context \in Contexts |->
     CASE e.op \in {"and", "forall"} ->
            LET r == NormalizeEach([i \in DOMAIN e.args |-> normalizeEffect[e.args[i]]], context)
            IN  [result |-> [e EXCEPT !.args = r.result], context |-> r.context]
       [] e.op = "when" -> LET r == normalize(e.condition)[context]
                           IN  [result |-> [e EXCEPT !.condition = r.result], context |-> r.context]
       [] OTHER -> [result |-> e, context |-> context]]

\* Action.cpp: the precondition comes first.
normalizeAction(action, context) ==
  LET p == NormalizeEach(Apply(normalize, action.precondition), context)
      e == NormalizeEach([i \in DOMAIN action.effect |-> normalizeEffect[action.effect[i]]], p.context)
  IN  [result  |-> [action EXCEPT !.precondition = p.result, !.effect = e.result],
       context |-> e.context]

\* "=" is not supported: AtomicFormula.cpp throws.
Unsupported(conditions, effects) ==
  \/ \E g \in Range(conditions) : \E f \in Range(Leaves[g]) : f.pred = "="
  \/ \E e \in Range(effects) : \E f \in EffectAtoms[e] : f.pred = "="
-----------------------------------------------------------------------------
Init ==
  /\ stage = "domain" /\ actions = <<>> /\ goal = <<>>
  /\ domain = [actions |-> <<>>, derivedPredicates |-> <<>>]
  /\ problem = [goal |-> <<>>, derivedPredicates |-> <<>>]

Throw == stage' = "failed" /\ UNCHANGED <<domain, problem>>

\* Domain.cpp, lines 29-32.
NormalizeAction(action) ==
  /\ stage = "domain" /\ Len(actions) < MaxActions
  /\ actions' = Append(actions, action)
  /\ UNCHANGED goal
  /\ IF Unsupported(ConditionsOf(action), action.effect) THEN Throw
     ELSE LET r == normalizeAction(action, Context(1, domain.derivedPredicates))
          IN  /\ domain' = [actions |-> Append(domain.actions, r.result),
                            derivedPredicates |-> r.context.derivedPredicates]
              /\ UNCHANGED <<stage, problem>>

\* Faulty variant of FirstProblemNumber: the problem starts afresh.
FirstProblemNumberOne == 1

\* Problem.cpp, line 30.
FirstProblemNumber == Len(domain.derivedPredicates) + 1

\* Problem.cpp, lines 27-33.
NormalizeProblem(g) ==
  /\ stage = "domain"
  /\ goal' = g
  /\ UNCHANGED actions
  /\ IF Unsupported(g, <<>>) THEN Throw
     ELSE LET r == NormalizeEach(Apply(normalize, g), Context(FirstProblemNumber, <<>>))
          IN  /\ problem' = [goal |-> r.result,
                             derivedPredicates |-> r.context.derivedPredicates]
              /\ stage' = "done"
              /\ UNCHANGED domain

Next == \/ \E action \in Actions : NormalizeAction(action)
        \/ \E g \in Goals : NormalizeProblem(g)
Spec == Init /\ [][Next]_vars
-----------------------------------------------------------------------------
\* Both lists of declarations, as the translator prints them one after the other.
Declared == domain.derivedPredicates \o problem.derivedPredicates
Names(declared) == {declared[i].name : i \in DOMAIN declared}
Declaration == [n \in Names(Declared) |->
                  Declared[CHOOSE i \in DOMAIN Declared : Declared[i].name = n]]

\* What a derived predicate is true of, and I with all that are declared.  A body
\* refers only to later declarations, so the last one comes first.
Extent(d, I) ==
  {<<"derived", d.name, ps>> : ps \in
     {qs \in Tuples(d.parameters) : \E os \in Tuples(d.existentialParameters) :
        True(d.precondition, Bind(Bind(NoBinding, d.parameters, qs), d.existentialParameters, os), I)}}
Unfolded(I, declared) ==
  LET n == Len(declared)
      from[i \in 1 .. n + 1] ==
        IF i = n + 1 THEN I
        ELSE LET later == from[i + 1] IN later \cup Extent(declared[i], later)
  IN  from[1]

IsLiteral(f) == IF f.op = "not" THEN IsLeaf(f.args[1]) ELSE IsLeaf(f)
IsFlat(f, ops) ==
  IF f.op \in ops THEN \A i \in DOMAIN f.args : IsLiteral(f.args[i]) ELSE IsLiteral(f)

\* What the translator can print: an action's condition or a goal is a literal
\* or an "and" of literals, a derived predicate's body may also be an "or", and
\* the variables of a derived predicate are pairwise distinct.
TypeOK ==
  /\ stage \in {"domain", "done", "failed"}
  /\ \A i \in DOMAIN domain.actions : \A f \in Range(ConditionsOf(domain.actions[i])) :
       IsFlat(f, {"and"})
  /\ \A j \in DOMAIN problem.goal : IsFlat(problem.goal[j], {"and"})
  /\ \A i \in DOMAIN Declared :
       /\ IsFlat(Declared[i].precondition, {"and", "or"})
       /\ IsInjective(Declared[i].parameters \o Declared[i].existentialParameters)

\* Derived predicates are numbered 1, 2, ... through domain and problem without
\* a number used twice, although each has a context of its own.
NamesConsecutive == \A i \in DOMAIN Declared : Declared[i].name = i

LeafSet(f) == {g \in Subformulas[f] : IsLeaf(g)}
References(f) == {g.name : g \in {h \in LeafSet(f) : h.op = "derived"}}

\* A derived predicate's body refers only to ones declared after it in the same
\* list, so no chain of references leads back (the encoding computes them with
\* default negation); a domain uses its own declarations alone, whatever
\* problem it is given, and so does a goal.
ReferencesAscend ==
  LET Ascends(declared) == \A i \in DOMAIN declared :
        References(declared[i].precondition) \subseteq
          {declared[j].name : j \in (i + 1) .. Len(declared)}
  IN  /\ Ascends(domain.derivedPredicates) /\ Ascends(problem.derivedPredicates)
      /\ \A i \in DOMAIN domain.actions : \A f \in Range(ConditionsOf(domain.actions[i])) :
           References(f) \subseteq Names(domain.derivedPredicates)
      /\ \A j \in DOMAIN problem.goal :
           References(problem.goal[j]) \subseteq Names(problem.derivedPredicates)

\* A body mentions no variable but its parameters and existential parameters:
\* one more would be an unsafe variable in the printed rule.
BodiesClosed ==
  \A i \in DOMAIN Declared : \A f \in LeafSet(Declared[i].precondition) :
    Range(f.terms) \cap Var \subseteq
      Range(Declared[i].parameters) \cup Range(Declared[i].existentialParameters)

\* A condition means after normalization, its derived predicates unfolded, what
\* it meant before, for every state and every choice of the action's parameters,
\* however many conditions came before and after it.
NormalizedMeaningKept ==
  LET Pairs(fs, gs) == {<<fs[j], gs[j]>> : j \in DOMAIN fs}
      normalized == (UNION {Pairs(ConditionsOf(actions[i]), ConditionsOf(domain.actions[i])) :
                              i \in DOMAIN domain.actions})
                      \cup (IF problem.goal = <<>> THEN {} ELSE Pairs(goal, problem.goal))
  IN  \A I \in Interpretation :
        LET J == Unfolded(I, Declared)
        IN  \A pair \in normalized : \A env \in Environment :
              True(pair[1], env, I) <=> True(pair[2], env, J)

\* Normalizing a further condition appends declarations and leaves the earlier
\* ones, which already normalized conditions refer to, as they are; the goal
\* leaves the domain alone.
DeclarationsStable ==
  [][/\ IsPrefix(domain.derivedPredicates, domain'.derivedPredicates)
     /\ stage' # stage => domain' = domain]_vars
=============================================================================
