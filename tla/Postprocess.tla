----------------------------- MODULE Postprocess -----------------------------
(***************************************************************************)
(* A plan found by strips-incremental.lp, turned into a sequence by        *)
(* encodings/strips/postprocess.lp one time step after the other.  The     *)
(* solver knows the fluents only; postprocess.lp starts from the whole     *)
(* initial state and follows every variable.                               *)
(***************************************************************************)
EXTENDS StripsIncremental

CONSTANTS Parallel, Shallow, Inertia, PlannerOn, \* values the options may have
          Steps,                                 \* sets of actions to consider
          rank                                   \* gringo's order on action terms

ASSUME PostprocessAssumption ==
  /\ Parallel \subseteq Int /\ Shallow \subseteq Int
  /\ Inertia \subseteq Int /\ PlannerOn \subseteq Int
  /\ Steps \subseteq SUBSET Active
  /\ rank \in [Action -> Nat]
  /\ \A a, b \in Action : rank[a] = rank[b] => a = b

VARIABLES _parallel, _shallow, _inertia, planner_on,  \* the options
          before, after,  \* holds(X,V,t-1) and holds(X,V,t)
          occurs,         \* occurs(A,t)
          done,           \* done(A,T,N)
          hold            \* hold(X,V,N)

options == <<_parallel, _shallow, _inertia, planner_on>>
vars    == <<options, before, after, occurs, done, hold>>

Fluents == fluent(_parallel, _shallow)
undone  == occurs \ done

TypeOK ==
  /\ _parallel \in Parallel /\ _shallow \in Shallow
  /\ _inertia \in Inertia /\ planner_on \in PlannerOn
  /\ before \in [Fluents -> Value] /\ after \in [Fluents -> Value]
  /\ occurs \subseteq Active /\ done \subseteq occurs
  /\ hold \in State

Init ==
  /\ _parallel \in Parallel /\ _shallow \in Shallow
  /\ _inertia \in Inertia /\ planner_on \in PlannerOn
  /\ before = [x \in Fluents |-> initialState[x]] /\ after = before
  /\ MutexesHold(Fluents, after)
  /\ occurs = {} /\ done = {}
  /\ hold = initialState

\* #program step(t): the solver chooses the actions and the next state.
Solve(S) ==
  /\ occurs = {}
  /\ ActionsAllowed(_parallel, _shallow, planner_on, before, S)
  /\ after' \in {h \in [Fluents -> Value] :
                  StateAllowed(_parallel, _shallow, _inertia, before, S, h)}
  /\ occurs' = S
  /\ UNCHANGED <<options, before, done, hold>>

\* Lines 18-19: a1 has to come before a2, which destroys its precondition.
comesBefore(a1, a2) ==
  /\ a1 # a2
  /\ \E x \in Variable, v \in Value :
       /\ <<x, v>> \in precondition[a1]
       /\ Writes(a2, x) /\ <<x, v>> \notin postcondition[a2]

\* Faulty variant of applicable: without the check of line 42.
applicableUnchecked(a) ==
  /\ a \in undone
  /\ \A a1 \in occurs : comesBefore(a1, a) => a1 \in done

\* Lines 42-43.
applicable(a) ==
  /\ a \in undone
  /\ Holds(hold, precondition[a])
  /\ \A a1 \in occurs : comesBefore(a1, a) => a1 \in done

\* Lines 21-34 and 45-53: the first applicable action in the order of terms
\* is selected and changes the state.
Select(a) ==
  /\ applicable(a)
  /\ \A a1 \in undone : applicable(a1) => rank[a] <= rank[a1]
  /\ done' = done \cup {a}
  /\ hold' = Result(hold, a)
  /\ UNCHANGED <<options, before, after, occurs>>

\* Faulty variant of NextStep: done/3 of the finished step survives.
NextStepKeepsDone ==
  /\ occurs # {} /\ undone = {}
  /\ before' = after
  /\ occurs' = {}
  /\ UNCHANGED <<options, after, done, hold>>

\* Line 30 is satisfied for this time step; the next one begins.
NextStep ==
  /\ occurs # {} /\ undone = {}
  /\ before' = after
  /\ occurs' = {} /\ done' = {}
  /\ UNCHANGED <<options, after, hold>>

Next == (\E S \in Steps : Solve(S)) \/ (\E a \in Active : Select(a)) \/ NextStep

Spec == Init /\ [][Next]_vars

-----------------------------------------------------------------------------
\* In every mode but the unchecked one, a step the solver accepts can always be
\* put in sequence: the greedy choice of lines 45-53 never runs into a dead end.
NeverStuck == _parallel # 0 /\ undone # {} => \E a \in undone : applicable(a)

\* However the step was put in sequence, it ends in the solver's state.
EndsInSolverState ==
  undone = {} => \A x \in Fluents : hold[x] = after[x]

\* What postprocess.lp prints is a plan of the sequential planner.
Sequential == INSTANCE SequentialPlanner WITH state <- hold
ImplementsSequential == Sequential!Spec

\* The mode m accepts the actions of the step under way.
Accepts(m) ==
  /\ ActionsAllowed(m, _shallow, planner_on, before, occurs)
  /\ m = 1 => ForallStep(occurs, after)

\* A step accepted in a stricter mode is accepted in the more liberal ones:
\* 1 implies 3, 3 and 4 are the same, both imply 2.
ModesNested ==
  occurs # {} =>
    /\ _parallel = 1 => Accepts(3)
    /\ _parallel = 3 => Accepts(4) /\ Accepts(2)
    /\ _parallel = 4 => Accepts(3)

\* The state when the actions of D have occurred and no other.
HoldAfter(D) ==
  [x \in Variable |-> IF x \in Fluents /\ \E a \in D : Writes(a, x)
                      THEN after[x] ELSE hold[x]]

EverySequenceRuns ==
  \A D \in SUBSET occurs : \A a \in occurs \ D : Holds(HoldAfter(D), precondition[a])

\* _parallel = 1: the actions of a step can be run in any sequence, not only in
\* the one postprocess.lp picks.
AnySequence == _parallel = 1 /\ done = {} => EverySequenceRuns

\* _parallel = 1 refuses nothing it need not: a step of any mode whose actions
\* can be arranged in any sequence is accepted.
ForallComplete ==
  occurs # {} /\ done = {} /\ EverySequenceRuns => Accepts(1)

\* Neither does _parallel = 3: an unchecked step (_parallel = 0) that could be
\* put in sequence after all would have been accepted.
ExistsComplete ==
  _parallel = 0 /\ occurs # {} /\ undone = {} => Accepts(3)
=============================================================================
