-------------------------- MODULE StripsIncremental --------------------------
(***************************************************************************)
(* encodings/strips/strips-incremental.lp: which sets of actions may occur *)
(* together in one time step, in each of the modes of the option           *)
(* _parallel, and which states the step may lead to.  An answer set's      *)
(* holds(X,V,t-1) and holds(X,V,t) are the functions b and h on the        *)
(* fluents, its occurs(A,t) is the set S.                                  *)
(***************************************************************************)
EXTENDS PlanningTask, Integers

CONSTANTS Active,      \* active(A), as preprocess.lp leaves them
          Relevant,    \* the variables of produce/2 and persist/2
          MutexGroup   \* each group is a set of facts

\* Active actions are consistent (preprocess.lp:27), and what they ask about
\* is relevant (theorem FluentsSuffice of PreprocessProofs).
ASSUME StripsAssumption ==
  /\ Active \subseteq Action
  /\ Relevant \subseteq Variable
  /\ MutexGroup \subseteq SUBSET Fact
  /\ \A a \in Active :
       /\ AtMostOneValue(precondition[a]) /\ AtMostOneValue(postcondition[a])
       /\ \A x \in Variable : Reads(a, x) => x \in Relevant

\* Lines 33-39: a cannot keep its own precondition; two actions disagree.
selfdefeat(a, x) ==
  /\ Writes(a, x)
  /\ \E v \in Value : <<x, v>> \in precondition[a] /\ <<x, v>> \notin postcondition[a]

divergeOn(m, sh, a1, a2, x) ==
  /\ m \in 0..4 /\ sh = 0
  /\ Writes(a2, x)
  /\ \E v \in Value : <<x, v>> \in postcondition[a1] /\ <<x, v>> \notin postcondition[a2]

diverge(m, sh, a1, a2) == \E x \in Variable : divergeOn(m, sh, a1, a2, x)

\* Lines 41-43: their preconditions disagree, so they cannot start together.
exclude(m, sh, a1, a2) ==
  /\ m \in {0, 1, 3, 4} /\ sh = 0
  /\ \E x \in Variable, v \in Value :
       /\ <<x, v>> \in precondition[a1]
       /\ Reads(a2, x) /\ <<x, v>> \notin precondition[a2]

\* Faulty variant of disable: an action counts as disabling itself.
disableSelf(m, sh, a1, a2) ==
  /\ m \in 2..4
  /\ \E x \in Variable, v \in Value :
       /\ <<x, v>> \in postcondition[a1]
       /\ Reads(a2, x) /\ <<x, v>> \notin precondition[a2]
  /\ ~diverge(m, sh, a1, a2) /\ ~exclude(m, sh, a1, a2)

\* Lines 45-48: a1 destroys a precondition of a2.
disable(m, sh, a1, a2) ==
  /\ m \in 2..4 /\ a1 # a2
  /\ \E x \in Variable, v \in Value :
       /\ <<x, v>> \in postcondition[a1]
       /\ Reads(a2, x) /\ <<x, v>> \notin precondition[a2]
  /\ ~diverge(m, sh, a1, a2) /\ ~exclude(m, sh, a1, a2)

\* Lines 56-62: the variables the solver keeps.
fluent(m, sh) ==
  {x \in Variable :
     \/ x \in Relevant
     \/ \E a1, a2 \in Active : divergeOn(m, sh, a1, a2, x) /\ ~exclude(m, sh, a1, a2)
     \/ m \in 0..4 /\ sh # 0 /\ \E a \in Active : Writes(a, x)}

-----------------------------------------------------------------------------
Sets(a, x, v) == <<x, v>> \in postcondition[a] /\ <<x, v>> \notin precondition[a]

\* Faulty variant of EffectsHold: a fluent takes the value of one of the actions
\* that set it.
EffectsHoldForOne(F, S, h) ==
  \A x \in F : (\E a \in S : Writes(a, x)) => \E a \in S : <<x, h[x]>> \in postcondition[a]

\* Lines 82 and 94: every fluent has one value, the postconditions among them.
EffectsHold(F, S, h) ==
  \A a \in S, x \in F, v \in Value : <<x, v>> \in postcondition[a] => h[x] = v

\* Lines 101-102 (_inertia = 0): a new value has an action that sets it.
InertiaFlat(F, S, b, h) ==
  \A x \in F : h[x] # b[x] => \E a \in S : Sets(a, x, h[x])

\* Lines 86 and 96-99 (_inertia # 0): a changed variable has an action that
\* sets it to something.
InertiaTiered(F, S, b, h) ==
  \A x \in F : h[x] # b[x] => \E a \in S, v \in Value : Sets(a, x, v)

\* Lines 66-67, 74 and 84.
MutexesHold(F, h) ==
  \A g \in MutexGroup : \A x, y \in F :
    <<x, h[x]>> \in g /\ <<y, h[y]>> \in g => x = y

PreconditionsHold(b, a) ==
  \A x \in Variable, v \in Value : <<x, v>> \in precondition[a] => b[x] = v

\* Faulty variants of ForallStep: without line 111, and with line 111 asked of
\* the preconditions an action itself changes, too.
ForallStepUnpinned(S, h) ==
  \A a \in S, x \in Variable : selfdefeat(a, x) =>
    \A a1, a2 \in S : (\E v \in Value : Sets(a1, x, v)) /\ (\E v \in Value : Sets(a2, x, v))
                        => a1 = a2

ForallStepStrict(S, h) ==
  /\ \A a \in S, x \in Variable, v \in Value : <<x, v>> \in precondition[a] => h[x] = v
  /\ ForallStepUnpinned(S, h)

\* Lines 111-115, _parallel = 1.
ForallStep(S, h) ==
  /\ \A a \in S, x \in Variable, v \in Value :
       <<x, v>> \in precondition[a] /\ ~Writes(a, x) => h[x] = v
  /\ \A a \in S, x \in Variable : selfdefeat(a, x) =>
       \A a1, a2 \in S : (\E v \in Value : Sets(a1, x, v)) /\ (\E v \in Value : Sets(a2, x, v))
                            => a1 = a2

\* Lines 117-118, _parallel = 2: P is the set of actions known to be performed.
Proceeds(b, P, x, v) == b[x] = v \/ \E a \in P : Sets(a, x, v)

\* Faulty variant of PerformClosed: without line 123.
PerformClosedBlind(m, sh, b, S, P) ==
  \A a \in S :
    (m = 2 => \A x \in Variable, v \in Value :
                <<x, v>> \in precondition[a] => Proceeds(b, P, x, v))
    => a \in P

\* Lines 121-126: P is closed under the rule that derives perform(A,t).
PerformClosed(m, sh, b, S, P) ==
  \A a \in S :
    /\ m = 2 => \A x \in Variable, v \in Value :
                  <<x, v>> \in precondition[a] => Proceeds(b, P, x, v)
    /\ \A a1 \in S : disable(m, sh, a, a1) => a1 \in P
    => a \in P

\* Line 128: the least such set is all of S.
ExistsStep(m, sh, b, S) ==
  \A P \in SUBSET S : PerformClosed(m, sh, b, S, P) => P = S

\* Faulty variant of AcyclicStep: only two actions that disable each other are
\* noticed.
AcyclicStepPairs(sh, S) ==
  \A a, a1 \in S : ~(disable(4, sh, a, a1) /\ disable(4, sh, a1, a))

\* Lines 130-131, _parallel = 4: the finite graph of #edge atoms has no cycle.
AcyclicStep(sh, S) ==
  \A T \in SUBSET S : T # {} => \E a \in T : \A a1 \in T : ~disable(4, sh, a, a1)

\* The integrity constraints of one time step on the actions ...
ActionsAllowed(m, sh, on, b, S) ==
  /\ on = 0 => S # {}
  /\ m \notin 0..4 => \A a1, a2 \in S : a1 = a2
  /\ m # 2 => \A a \in S : PreconditionsHold(b, a)
  /\ m \in {2, 3} => ExistsStep(m, sh, b, S)
  /\ m = 4 => AcyclicStep(sh, S)

\* ... and on the state they lead to.
StateAllowed(m, sh, inertia, b, S, h) ==
  LET F == fluent(m, sh) IN
  /\ EffectsHold(F, S, h)
  /\ IF inertia = 0 THEN InertiaFlat(F, S, b, h) ELSE InertiaTiered(F, S, b, h)
  /\ MutexesHold(F, h)
  /\ m = 1 => ForallStep(S, h)
=============================================================================
