------------------------------ MODULE Redundancy ------------------------------
(***************************************************************************)
(* encodings/strips/redundancy.lp: optional rules that force actions into  *)
(* a step whenever they are compatible with its states and its actions.    *)
(* An action is defeated if something speaks against adding it; lines 29,  *)
(* 31 and 32 look at the states, lines 15-23 and 36-48 at the order the    *)
(* action would have to have among those that occur.                       *)
(***************************************************************************)
EXTENDS Postprocess

Modes == 1..3  \* lines 9, 12 and 50

\* Line 7: a asks for, or sets, what a1 asks for and destroys.
disjoin(a, a1) ==
  /\ ~\E x \in Variable : selfdefeat(a, x)
  /\ \E x \in Variable : selfdefeat(a1, x) /\ (Reads(a, x) \/ Writes(a, x))

\* Lines 9 and 12: the pairs of actions that some order suits.
Compatible(m, sh) ==
  {p \in Active \X Active :
     LET a == p[1] a1 == p[2] IN
     /\ a # a1
     /\ ~diverge(m, sh, a, a1) /\ ~exclude(m, sh, a, a1)
     /\ IF m = 1 THEN ~(\E x \in Variable : selfdefeat(a, x)) /\ ~disjoin(a, a1)
                 ELSE ~(disable(m, sh, a1, a) /\ disable(m, sh, a, a1))}

\* What a step does not change is the same for each of its states.
compatiblePairs == [m \in Modes |-> [sh \in Shallow |-> Compatible(m, sh)]]
disablePairs    == [m \in Modes |-> [sh \in Shallow |->
                      {p \in Active \X Active : disable(m, sh, p[1], p[2])}]]

\* Lines 11-13.
compatible(m, sh, a) == \E a1 \in Active : <<a, a1>> \in compatiblePairs[m][sh]

\* Lines 15-16: with a in the step, a1 has to come after a2 all the same.
disableBeside(m, sh, a, a1, a2) ==
  /\ <<a1, a2>> \in disablePairs[m][sh] /\ <<a1, a>> \notin disablePairs[m][sh]
  /\ {<<a, a1>>, <<a, a2>>, <<a1, a2>>} \subseteq compatiblePairs[m][sh]

\* Line 52 of strips-incremental.lp: the facts that mode 2 follows.
scopes == [m \in Modes |-> IF m = 2 THEN UNION {precondition[a] : a \in Active} ELSE {}]

\* Lines 21-23: actions that are worth running before a, if those of D have to
\* come before it.
SimulatedFor(m, sh, a, D) ==
  {a1 \in Active :
     /\ <<a, a1>> \in compatiblePairs[m][sh] /\ <<a1, a>> \notin disablePairs[m][sh]
     /\ a1 \in D \/ scopes[m] \cap (postcondition[a1] \ precondition[a1]) # {}}

\* Lines 18-19: the least set with what a disables that is closed under the two rules.
disabledBy ==
  [m \in Modes |-> [sh \in Shallow |-> [a \in Active |->
     LET direct  == {a1 \in Active : compatible(m, sh, a) /\ <<a, a1>> \in disablePairs[m][sh]}
         targets == {p[2] : p \in disablePairs[m][sh]}
         Closed  == {D \in {direct \cup E : E \in SUBSET (targets \ direct)} :
                       \A a1 \in SimulatedFor(m, sh, a, D), a2 \in targets \ D :
                         ~disableBeside(m, sh, a, a1, a2)}
     IN  {a2 \in targets : \A D \in Closed : a2 \in D}]]]

simulate == [m \in Modes |-> [sh \in Shallow |-> [a \in Active |->
               SimulatedFor(m, sh, a, disabledBy[m][sh][a])]]]

-----------------------------------------------------------------------------
\* Lines 36-38: a fact that a may find when the actions of P have run before it.
proceed(m, sh, a, P, x, v) ==
  /\ <<x, v>> \in scopes[m]
  /\ \/ x \in DOMAIN before /\ before[x] = v
     \/ \E a1 \in P \cap simulate[m][sh][a] : Sets(a1, x, v)

\* Lines 44-45.
alright(m, sh, a, P, a1) ==
  a1 \in disabledBy[m][sh][a] /\ (a1 \in occurs => a1 \in P)

\* Faulty variant of performClosed: line 42 is missing.
performClosedBlind(m, sh, a, P) ==
  \A a1 \in occurs \cap simulate[m][sh][a] :
    (m = 2 => \A x \in Variable, v \in Value :
                <<x, v>> \in precondition[a1] => proceed(m, sh, a, P, x, v))
    => a1 \in P

\* Lines 40-42: P is closed under the rule that derives perform(A,A1,t) for a.
performClosed(m, sh, a, P) ==
  \A a1 \in occurs \cap simulate[m][sh][a] :
    /\ m = 2 => \A x \in Variable, v \in Value :
                  <<x, v>> \in precondition[a1] => proceed(m, sh, a, P, x, v)
    /\ \A a2 \in Active : disableBeside(m, sh, a, a1, a2) => alright(m, sh, a, P, a2)
    => a1 \in P

\* The least such set: the actions of the step that can be run before a.
perform(m, sh, a) ==
  {a1 \in occurs : \A P \in SUBSET occurs : performClosed(m, sh, a, P) => a1 \in P}

\* Lines 29-34, 47 and 48.
defeated(m, sh, a) ==
  \/ \E x \in DOMAIN after, v \in Value : <<x, v>> \in postcondition[a] /\ after[x] # v
  \/ m # 2 /\ ~PreconditionsHold(before, a)
  \/ /\ m = 1
     /\ \/ \E x \in Variable, v \in Value :
             <<x, v>> \in precondition[a] /\ ~Writes(a, x) /\ after[x] # v
        \/ \E x \in Variable : /\ Writes(a, x) /\ ~Reads(a, x)
                               /\ \E a1 \in occurs : selfdefeat(a1, x)
  \/ LET P == perform(m, sh, a) IN
     \/ m = 2 /\ \E x \in Variable, v \in Value :
          <<x, v>> \in precondition[a] /\ ~proceed(m, sh, a, P, x, v)
     \/ \E a1 \in Active : /\ <<a, a1>> \in disablePairs[m][sh]
                           /\ ~alright(m, sh, a, P, a1)

-----------------------------------------------------------------------------
\* Adding a to the step under way leads to a step that is accepted, too, from and
\* to the same states.
CanBeAdded(a) ==
  /\ EffectsHold(DOMAIN after, {a}, after)
  /\ StateAllowed(_parallel, _shallow, _inertia, before, occurs \cup {a}, after)
  /\ ActionsAllowed(_parallel, _shallow, planner_on, before, occurs \cup {a})

\* "whenever such 'redundant' actions are compatible with states and other
\* actions" (redundancy.lp:1-2): line 50 refuses a step for the lack of an action
\* only if the step with the action is accepted.  So whatever step the solver
\* finds can be filled up until line 50 has nothing against it, and no plan is
\* lost.  Nor does it leave out an action it could have asked for.
RedundancyExact ==
  _parallel \in Modes /\ occurs # {} /\ done = {} =>
    \A a \in Active \ occurs :
      compatible(_parallel, _shallow, a) =>
        (defeated(_parallel, _shallow, a) <=> ~CanBeAdded(a))
=============================================================================
