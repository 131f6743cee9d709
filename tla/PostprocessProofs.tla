-------------------------- MODULE PostprocessProofs --------------------------
(***************************************************************************)
(* That a step of strips-incremental.lp can be put in sequence, in every   *)
(* mode that checks for mutual disablement.  No induction over the plan is *)
(* needed: the actions done so far form a set that the rules for           *)
(* perform(A,t) would have to leave if the greedy choice were stuck.       *)
(***************************************************************************)
EXTENDS Redundancy, TLAPS

\* The solver accepted the step under way.
StepAccepted ==
  /\ ActionsAllowed(_parallel, _shallow, planner_on, before, occurs)
  /\ StateAllowed(_parallel, _shallow, _inertia, before, occurs, after)

\* A fluent has its new value as soon as an action that writes it is done.
Progress ==
  \A x \in Fluents :
    hold[x] = IF \E a \in done : Writes(a, x) THEN after[x] ELSE before[x]

\* Nothing is done before what has to come before it.
Ordered == \A a \in done, a1 \in occurs : comesBefore(a1, a) => a1 \in done

\* The inductive invariant.
IInv ==
  /\ TypeOK
  /\ Progress
  /\ Ordered
  /\ occurs # {} => StepAccepted
  /\ occurs = {} => before = after

USE DEF Fact

\* What an active action asks about and sets are facts.
LEMMA ActiveTypes ==
  ASSUME NEW a \in Active
  PROVE  /\ a \in Action
         /\ precondition[a] \subseteq Fact
         /\ postcondition[a] \subseteq Fact
         /\ AtMostOneValue(precondition[a])
         /\ AtMostOneValue(postcondition[a])
BY TaskAssumption, StripsAssumption

\* The state after an action: its postconditions hold, all else is kept.
LEMMA Performed ==
  ASSUME NEW s \in State, NEW a \in Active
  PROVE  /\ Result(s, a) \in State
         /\ \A x \in Variable : /\ \A v \in Value : <<x, v>> \in postcondition[a] => Result(s, a)[x] = v
                                /\ ~Writes(a, x) => Result(s, a)[x] = s[x]
<1> DEFINE w(x) == CHOOSE v \in Value : <<x, v>> \in postcondition[a]
<1>1. \A x \in Variable : Writes(a, x) => w(x) \in Value /\ <<x, w(x)>> \in postcondition[a]
  BY DEF Writes
<1>2. \A x \in Variable : Result(s, a)[x] = IF Writes(a, x) THEN w(x) ELSE s[x]
  BY DEF Result
<1>3. Result(s, a) \in State
  <2>1. \A x \in Variable : (IF Writes(a, x) THEN w(x) ELSE s[x]) \in Value
    BY <1>1 DEF State
  <2> QED BY <2>1 DEF Result, State
<1>4. ASSUME NEW x \in Variable, NEW v \in Value, <<x, v>> \in postcondition[a]
      PROVE  Result(s, a)[x] = v
  <2>1. Writes(a, x)
    BY <1>4 DEF Writes
  <2>2. w(x) = v
    BY <1>1, <1>4, <2>1, ActiveTypes DEF AtMostOneValue
  <2> QED BY <1>2, <2>1, <2>2
<1> QED BY <1>2, <1>3, <1>4

\* What an active action asks about is a fluent.
LEMMA PreconditionIsFluent ==
  ASSUME NEW a \in Active, NEW m, NEW sh, NEW x \in Variable, NEW v \in Value,
         <<x, v>> \in precondition[a]
  PROVE  x \in fluent(m, sh)
BY StripsAssumption DEF fluent, Reads

\* Actions that start in one state and lead to one state neither exclude each
\* other nor diverge.
LEMMA StepAgrees ==
  ASSUME NEW m, NEW sh, NEW b, NEW h, NEW S \in SUBSET Active,
         m # 2 => \A a \in S : PreconditionsHold(b, a),
         EffectsHold(fluent(m, sh), S, h),
         NEW a1 \in S, NEW a2 \in S
  PROVE  ~exclude(m, sh, a1, a2) /\ ~diverge(m, sh, a1, a2)
<1>0. /\ a1 \in Active /\ a2 \in Active
      /\ precondition[a1] \subseteq Fact /\ precondition[a2] \subseteq Fact
      /\ postcondition[a1] \subseteq Fact /\ postcondition[a2] \subseteq Fact
  BY ActiveTypes
<1>1. ~exclude(m, sh, a1, a2)
  <2> SUFFICES ASSUME exclude(m, sh, a1, a2) PROVE FALSE
    OBVIOUS
  <2>1. PreconditionsHold(b, a1) /\ PreconditionsHold(b, a2)
    BY DEF exclude
  <2>2. PICK x \in Variable, v \in Value, w \in Value :
          /\ <<x, v>> \in precondition[a1]
          /\ <<x, w>> \in precondition[a2] /\ <<x, v>> \notin precondition[a2]
    BY DEF exclude, Reads
  <2>3. b[x] = v /\ b[x] = w
    BY <2>1, <2>2 DEF PreconditionsHold
  <2> QED BY <2>2, <2>3
<1>2. ~diverge(m, sh, a1, a2)
  <2> SUFFICES ASSUME NEW x \in Variable, divergeOn(m, sh, a1, a2, x) PROVE FALSE
    BY DEF diverge
  <2>1. x \in fluent(m, sh)
    BY <1>0, <1>1 DEF fluent
  <2>2. PICK v \in Value, w \in Value :
          /\ <<x, v>> \in postcondition[a1] /\ <<x, v>> \notin postcondition[a2]
          /\ <<x, w>> \in postcondition[a2]
    BY DEF divergeOn, Writes
  <2>3. h[x] = v /\ h[x] = w
    BY <2>1, <2>2 DEF EffectsHold
  <2> QED BY <2>2, <2>3
<1> QED BY <1>1, <1>2

\* So it is in an accepted step.
LEMMA AcceptedAgree ==
  ASSUME TypeOK, StepAccepted, NEW a1 \in occurs, NEW a2 \in occurs
  PROVE  /\ ~exclude(_parallel, _shallow, a1, a2)
         /\ ~diverge(_parallel, _shallow, a1, a2)
<1>1. /\ occurs \in SUBSET Active
      /\ _parallel # 2 => \A a \in occurs : PreconditionsHold(before, a)
      /\ EffectsHold(fluent(_parallel, _shallow), occurs, after)
  BY DEF TypeOK, StepAccepted, ActionsAllowed, StateAllowed
<1> QED BY <1>1, StepAgrees

\* What has to come before an action is disabled by it, in the modes that
\* look for disablement.
LEMMA ComesBeforeIsDisabled ==
  ASSUME TypeOK, StepAccepted, _parallel \in 2..4,
         NEW a1 \in occurs, NEW a2 \in occurs, comesBefore(a1, a2)
  PROVE  disable(_parallel, _shallow, a2, a1)
<1>1. /\ a1 \in Active /\ a2 \in Active
      /\ postcondition[a2] \subseteq Fact /\ AtMostOneValue(precondition[a1])
  BY ActiveTypes DEF TypeOK
<1>2. PICK x \in Variable, v \in Value, w \in Value :
        /\ <<x, v>> \in precondition[a1]
        /\ <<x, w>> \in postcondition[a2] /\ <<x, v>> \notin postcondition[a2]
  BY DEF comesBefore, Writes
<1>3. <<x, w>> \notin precondition[a1]
  BY <1>1, <1>2 DEF AtMostOneValue
<1>4. Reads(a1, x)
  BY <1>2 DEF Reads
<1>5. a1 # a2
  BY DEF comesBefore
<1> QED BY <1>2, <1>3, <1>4, <1>5, AcceptedAgree DEF disable

\* A value an action still to be done writes is not there to be destroyed: a
\* precondition that held when the step began holds until its action is done.
LEMMA PreconditionKept ==
  ASSUME IInv, occurs # {}, NEW a \in undone, NEW x \in Variable, NEW v \in Value,
         <<x, v>> \in precondition[a], before[x] = v
  PROVE  hold[x] = v
<1>1. a \in occurs /\ a \in Active /\ a \notin done /\ done \subseteq occurs
  BY DEF undone, IInv, TypeOK
<1>2. x \in Fluents
  BY <1>1, PreconditionIsFluent DEF Fluents
<1>3. CASE \A b \in done : ~Writes(b, x)
  BY <1>2, <1>3 DEF IInv, Progress
<1>4. CASE \E b \in done : Writes(b, x)
  <2>1. PICK b \in done, w \in Value : <<x, w>> \in postcondition[b]
    BY <1>4 DEF Writes
  <2>2. b \in occurs /\ Writes(b, x)
    BY <1>1, <2>1 DEF Writes
  <2>3. <<x, v>> \in postcondition[b]
    <3> SUFFICES ASSUME <<x, v>> \notin postcondition[b] PROVE FALSE
      OBVIOUS
    <3>1. comesBefore(a, b)
      BY <1>1, <2>1, <2>2 DEF comesBefore
    <3> QED BY <1>1, <3>1 DEF IInv, Ordered
  <2>4. after[x] = v
    BY <1>2, <2>2, <2>3 DEF IInv, StepAccepted, StateAllowed, EffectsHold, Fluents
  <2> QED BY <1>2, <1>4, <2>4 DEF IInv, Progress
<1> QED BY <1>3, <1>4

\* Outside _parallel = 2 the preconditions of what is left to do always hold.
LEMMA PreconditionsKept ==
  ASSUME IInv, NEW a \in undone, _parallel # 2
  PROVE  Holds(hold, precondition[a])
<1> SUFFICES ASSUME NEW x \in Variable, NEW v \in Value, <<x, v>> \in precondition[a]
             PROVE  hold[x] = v
  BY DEF Holds
<1>1. a \in occurs /\ occurs # {}
  BY DEF undone
<1>2. before[x] = v
  BY <1>1 DEF IInv, StepAccepted, ActionsAllowed, PreconditionsHold
<1> QED BY <1>1, <1>2, PreconditionKept

-----------------------------------------------------------------------------
\* No step is under way in the initial state.
LEMMA InitInv == Init => IInv
<1> SUFFICES ASSUME Init PROVE IInv
  OBVIOUS
<1>1. Fluents \subseteq Variable
  BY DEF Fluents, fluent
<1>2. TypeOK
  BY <1>1, TaskAssumption DEF Init, TypeOK, State
<1> QED BY <1>1, <1>2 DEF Init, IInv, Progress, Ordered

\* A step the solver finds has a state before and after it that its actions fit.
LEMMA SolveInv == ASSUME IInv, NEW S \in Steps, Solve(S) PROVE IInv'
<1>1. /\ occurs = {} /\ done = {} /\ before = after
      /\ occurs' = S /\ done' = done /\ before' = before /\ hold' = hold
      /\ options' = options /\ Fluents' = Fluents
      /\ ActionsAllowed(_parallel, _shallow, planner_on, before, S)
      /\ StateAllowed(_parallel, _shallow, _inertia, before, S, after')
      /\ after' \in [Fluents -> Value]
  BY DEF Solve, IInv, TypeOK, options, Fluents
<1>2. S \subseteq Active
  BY PostprocessAssumption
<1>3. TypeOK'
  BY <1>1, <1>2 DEF IInv, TypeOK, options
<1>4. Progress'
  BY <1>1 DEF IInv, Progress
<1>5. Ordered'
  BY <1>1 DEF Ordered
<1>6. StepAccepted'
  BY <1>1 DEF StepAccepted, options
<1>7. S = {} => before' = after'
  <2> SUFFICES ASSUME S = {} PROVE before = after'
    BY <1>1
  <2>1. \A x \in Fluents : after'[x] = before[x]
    BY <1>1 DEF StateAllowed, InertiaFlat, InertiaTiered, Fluents
  <2>2. before \in [Fluents -> Value]
    BY DEF IInv, TypeOK
  <2> QED BY <1>1, <2>1, <2>2
<1> QED BY <1>1, <1>3, <1>4, <1>5, <1>6, <1>7 DEF IInv

\* Sequencing an action whose predecessors are done keeps to the order.
LEMMA SelectInv == ASSUME IInv, NEW a \in Active, Select(a) PROVE IInv'
<1>1. /\ a \in occurs /\ a \notin done /\ done \subseteq occurs
      /\ done' = done \cup {a} /\ hold' = Result(hold, a)
      /\ before' = before /\ after' = after /\ occurs' = occurs
      /\ options' = options /\ Fluents' = Fluents
      /\ \A a1 \in occurs : comesBefore(a1, a) => a1 \in done
  BY DEF Select, applicable, undone, IInv, TypeOK, options, Fluents
<1>2. /\ a \in Action /\ postcondition[a] \subseteq Fact
      /\ AtMostOneValue(postcondition[a]) /\ hold \in State
  BY ActiveTypes DEF IInv, TypeOK
<1>3. TypeOK'
  BY <1>1, <1>2, Performed DEF IInv, TypeOK, options
<1>4. Progress'
  <2> SUFFICES ASSUME NEW x \in Fluents
               PROVE  hold'[x] = IF \E b \in done' : Writes(b, x)
                                 THEN after[x] ELSE before[x]
    BY <1>1 DEF Progress
  <2>0. x \in Variable
    BY DEF Fluents, fluent
  <2>1. CASE Writes(a, x)
    <3>1. PICK v \in Value : <<x, v>> \in postcondition[a]
      BY <2>1 DEF Writes
    <3>2. hold'[x] = v
      BY <1>1, <1>2, <2>0, <3>1, Performed
    <3>3. after[x] = v
      BY <1>1, <3>1 DEF IInv, StepAccepted, StateAllowed, EffectsHold, Fluents
    <3> QED BY <1>1, <2>1, <3>2, <3>3
  <2>2. CASE ~Writes(a, x)
    <3>1. hold'[x] = hold[x]
      BY <1>1, <1>2, <2>0, <2>2, Performed
    <3> QED BY <1>1, <2>2, <3>1 DEF IInv, Progress
  <2> QED BY <2>1, <2>2
<1>5. Ordered'
  BY <1>1 DEF IInv, Ordered, comesBefore
<1>6. StepAccepted'
  BY <1>1 DEF IInv, StepAccepted, options
<1> QED BY <1>1, <1>3, <1>4, <1>5, <1>6 DEF IInv

\* When all is done, the sequence has arrived in the solver's state.
LEMMA Arrived ==
  ASSUME IInv, undone = {}, NEW x \in Fluents
  PROVE  hold[x] = after[x]
<1>1. done = occurs
  BY DEF undone, IInv, TypeOK
<1>2. CASE occurs = {}
  BY <1>1, <1>2 DEF IInv, Progress
<1>3. CASE \E a \in done : Writes(a, x)
  BY <1>3 DEF IInv, Progress
<1>4. CASE occurs # {} /\ \A a \in done : ~Writes(a, x)
  <2>1. after[x] = before[x]
    <3> SUFFICES ASSUME after[x] # before[x] PROVE FALSE
      OBVIOUS
    <3>1. \E a \in occurs, v \in Value : Sets(a, x, v)
      <4>1. after[x] \in Value
        BY DEF IInv, TypeOK
      <4> QED BY <1>4, <4>1
              DEF IInv, StepAccepted, StateAllowed, InertiaFlat, InertiaTiered, Fluents
    <3> QED BY <1>1, <1>4, <3>1 DEF Sets, Writes
  <2> QED BY <1>4, <2>1 DEF IInv, Progress
<1> QED BY <1>2, <1>3, <1>4

\* When all actions of a step are done, the state after it has been reached.
LEMMA NextStepInv == IInv /\ NextStep => IInv'
<1> SUFFICES ASSUME IInv, NextStep PROVE IInv'
  OBVIOUS
<1>1. /\ undone = {} /\ before' = after /\ after' = after
      /\ occurs' = {} /\ done' = {} /\ hold' = hold
      /\ options' = options /\ Fluents' = Fluents
  BY DEF NextStep, options, Fluents
<1>2. TypeOK'
  BY <1>1 DEF IInv, TypeOK, options
<1>3. Progress'
  BY <1>1, Arrived DEF Progress
<1> QED BY <1>1, <1>2, <1>3 DEF IInv, Ordered

\* Nothing happens to the invariant when nothing happens.
LEMMA StutterInv == IInv /\ UNCHANGED vars => IInv'
<1> SUFFICES ASSUME IInv, UNCHANGED vars PROVE IInv'
  OBVIOUS
<1>1. /\ options' = options /\ before' = before /\ after' = after
      /\ occurs' = occurs /\ done' = done /\ hold' = hold
  BY DEF vars
<1>2. Fluents' = Fluents
  BY <1>1 DEF Fluents, options
<1> QED BY <1>1, <1>2 DEF IInv, options, TypeOK, Progress, Ordered, StepAccepted

\* The sequence built so far is always consistent with the order of the step's actions,
\* and has changed exactly the variables of the actions already done, for every task,
\* mode and step.
THEOREM InductiveInvariant == Spec => []IInv
<1>1. Init => IInv
  BY InitInv
<1>2. IInv /\ [Next]_vars => IInv'
  BY SolveInv, SelectInv, NextStepInv, StutterInv DEF Next
<1> QED BY <1>1, <1>2, PTL DEF Spec

\* Every variable of the sequencing of plans keeps its type, for every task: what is
\* done is part of the step, and states give each fluent one value.
THEOREM TypeCorrect == Spec => []TypeOK
<1>1. IInv => TypeOK
  BY DEF IInv
<1> QED BY <1>1, InductiveInvariant, PTL

\* postprocess.lp arrives where the solver says (strips-incremental.lp 82-102
\* against postprocess.lp 32-34), so a goal the solver sees is reached.
THEOREM SequenceEndsInSolverState == Spec => []EndsInSolverState
<1>1. IInv => EndsInSolverState
  BY Arrived DEF EndsInSolverState
<1> QED BY <1>1, InductiveInvariant, PTL

-----------------------------------------------------------------------------
\* In the modes that derive disable/2, an action left to do whose preconditions
\* hold is applicable when all it disables is done.
LEMMA ApplicableWhenDisabledDone ==
  ASSUME IInv, _parallel \in 2..4, NEW a \in undone,
         Holds(hold, precondition[a]),
         \A a1 \in undone : ~disable(_parallel, _shallow, a, a1)
  PROVE  applicable(a)
<1>1. a \in occurs /\ occurs # {} /\ TypeOK /\ StepAccepted
  BY DEF undone, IInv
<1>2. ASSUME NEW a1 \in occurs, comesBefore(a1, a) PROVE a1 \in done
  BY <1>1, <1>2, ComesBeforeIsDisabled DEF undone
<1> QED BY <1>2 DEF applicable

\* _parallel = 1: nothing has to come before anything else.
LEMMA ForallUnordered ==
  ASSUME IInv, _parallel = 1, NEW a1 \in occurs, NEW a2 \in occurs
  PROVE  ~comesBefore(a1, a2)
<1> SUFFICES ASSUME comesBefore(a1, a2) PROVE FALSE
  OBVIOUS
<1>1. /\ a1 \in Active /\ a2 \in Active
      /\ precondition[a2] \subseteq Fact
      /\ AtMostOneValue(precondition[a1])
  BY ActiveTypes DEF IInv, TypeOK
<1>2. /\ EffectsHold(Fluents, occurs, after) /\ ForallStep(occurs, after)
      /\ PreconditionsHold(before, a1) /\ PreconditionsHold(before, a2)
  BY DEF IInv, StepAccepted, StateAllowed, ActionsAllowed, Fluents
<1>3. PICK x \in Variable, v \in Value, w \in Value :
        /\ <<x, v>> \in precondition[a1]
        /\ <<x, w>> \in postcondition[a2] /\ <<x, v>> \notin postcondition[a2]
  BY DEF comesBefore, Writes
<1>4. x \in Fluents /\ w # v
  BY <1>1, <1>3, PreconditionIsFluent DEF Fluents
<1>5. after[x] = w /\ before[x] = v
  BY <1>2, <1>3, <1>4 DEF EffectsHold, PreconditionsHold
<1>6. PICK u \in Value : <<x, u>> \in postcondition[a1]
  BY <1>2, <1>3, <1>4, <1>5 DEF ForallStep, Writes
<1>7. u = w
  BY <1>2, <1>4, <1>5, <1>6 DEF EffectsHold
<1>8. <<x, v>> \notin postcondition[a1]
  BY <1>2, <1>3, <1>4, <1>5 DEF EffectsHold
<1>9. selfdefeat(a1, x)
  BY <1>3, <1>6, <1>8 DEF selfdefeat, Writes
<1>10. Sets(a1, x, w)
  BY <1>1, <1>3, <1>4, <1>6, <1>7 DEF Sets, AtMostOneValue
<1>11. Sets(a2, x, w)
  BY <1>2, <1>3, <1>4, <1>5 DEF Sets, PreconditionsHold
<1>12. a1 = a2
  BY <1>2, <1>9, <1>10, <1>11 DEF ForallStep
<1> QED BY <1>12 DEF comesBefore

\* "forall" parallel actions can be arranged in any sequence
\* (strips-incremental.lp:3).
THEOREM ForallAnySequence == Spec => []AnySequence
<1>1. ASSUME IInv, _parallel = 1, done = {},
             NEW D \in SUBSET occurs, NEW a \in occurs \ D,
             NEW x \in Variable, NEW v \in Value, <<x, v>> \in precondition[a]
      PROVE  HoldAfter(D)[x] = v
  <2>1. occurs # {} /\ a \in Active
    BY <1>1 DEF IInv, TypeOK
  <2>2. x \in Fluents
    BY <1>1, <2>1, PreconditionIsFluent DEF Fluents
  <2>3. hold[x] = v
    BY <1>1, <2>1, PreconditionsKept DEF undone, Holds
  <2>4. CASE \E c \in D : Writes(c, x)
    <3>1. PICK c \in D, w \in Value : <<x, w>> \in postcondition[c]
      BY <2>4 DEF Writes
    <3>2. c \in occurs /\ c # a /\ Writes(c, x) /\ ~comesBefore(a, c)
      BY <1>1, <3>1, ForallUnordered DEF Writes
    <3>3. <<x, v>> \in postcondition[c]
      BY <1>1, <3>2 DEF comesBefore
    <3>4. after[x] = v
      BY <1>1, <2>1, <2>2, <3>2, <3>3
         DEF IInv, StepAccepted, StateAllowed, EffectsHold, Fluents
    <3> QED BY <2>2, <2>4, <3>4 DEF HoldAfter
  <2>5. CASE ~(\E c \in D : Writes(c, x))
    BY <2>3, <2>5 DEF HoldAfter
  <2> QED BY <2>4, <2>5
<1>2. IInv => AnySequence
  BY <1>1 DEF AnySequence, EverySequenceRuns, Holds
<1> QED BY <1>2, InductiveInvariant, PTL

\* _parallel = 2 or 3: if the greedy choice were stuck, the actions done would
\* be closed under the rule for perform(A,t) and leave an action out.
LEMMA ExistsNotStuck ==
  ASSUME IInv, _parallel \in {2, 3}, undone # {}
  PROVE  \E a \in undone : applicable(a)
<1> SUFFICES ASSUME \A a \in undone : ~applicable(a) PROVE FALSE
  OBVIOUS
<1>1. occurs # {} /\ done \in SUBSET occurs /\ done # occurs
  BY DEF undone, IInv, TypeOK
<1>2. ExistsStep(_parallel, _shallow, before, occurs)
  BY <1>1 DEF IInv, StepAccepted, ActionsAllowed
<1>3. PerformClosed(_parallel, _shallow, before, occurs, done)
  <2> SUFFICES ASSUME NEW a \in occurs,
                      _parallel = 2 => \A x \in Variable, v \in Value :
                        <<x, v>> \in precondition[a] => Proceeds(before, done, x, v),
                      \A a1 \in occurs : disable(_parallel, _shallow, a, a1) => a1 \in done,
                      a \notin done
               PROVE  FALSE
    BY DEF PerformClosed
  <2>1. a \in undone /\ a \in Active
    BY DEF undone, IInv, TypeOK
  <2>2. Holds(hold, precondition[a])
    <3>1. CASE _parallel # 2
      BY <2>1, <3>1, PreconditionsKept
    <3>2. CASE _parallel = 2
      <4> SUFFICES ASSUME NEW x \in Variable, NEW v \in Value, <<x, v>> \in precondition[a]
                   PROVE  hold[x] = v
        BY DEF Holds
      <4>1. CASE before[x] = v
        BY <1>1, <2>1, <4>1, PreconditionKept
      <4>2. CASE \E b \in done : Sets(b, x, v)
        <5>1. PICK b \in done : <<x, v>> \in postcondition[b]
          BY <4>2 DEF Sets
        <5>2. x \in Fluents /\ b \in occurs /\ Writes(b, x)
          BY <1>1, <2>1, <5>1, PreconditionIsFluent DEF Fluents, Writes
        <5>3. after[x] = v
          BY <1>1, <5>1, <5>2 DEF IInv, StepAccepted, StateAllowed, EffectsHold, Fluents
        <5> QED BY <5>2, <5>3 DEF IInv, Progress
      <4> QED BY <3>2, <4>1, <4>2 DEF Proceeds
    <3> QED BY <3>1, <3>2
  <2>3. applicable(a)
    BY <2>1, <2>2, ApplicableWhenDisabledDone DEF undone
  <2> QED BY <2>1, <2>3
<1> QED BY <1>1, <1>2, <1>3 DEF ExistsStep

\* _parallel = 4: among the actions left to do, one disables none of them.
LEMMA AcyclicNotStuck ==
  ASSUME IInv, _parallel = 4, undone # {}
  PROVE  \E a \in undone : applicable(a)
<1>1. occurs # {} /\ undone \in SUBSET occurs
  BY DEF undone
<1>2. AcyclicStep(_shallow, occurs)
  BY <1>1 DEF IInv, StepAccepted, ActionsAllowed
<1>3. PICK a \in undone : \A a1 \in undone : ~disable(4, _shallow, a, a1)
  BY <1>1, <1>2 DEF AcyclicStep
<1>4. Holds(hold, precondition[a])
  BY PreconditionsKept
<1> QED BY <1>3, <1>4, ApplicableWhenDisabledDone

\* _parallel = 1, and the sequential default: whatever is left can be next.
LEMMA UnorderedNotStuck ==
  ASSUME IInv, _parallel \notin {0, 2, 3, 4}, undone # {}
  PROVE  \E a \in undone : applicable(a)
<1>1. PICK a \in undone : a \in occurs
  BY DEF undone
<1>2. Holds(hold, precondition[a])
  BY PreconditionsKept
<1>3. \A a1 \in occurs : ~comesBefore(a1, a)
  <2>1. CASE _parallel = 1
    BY <1>1, <2>1, ForallUnordered
  <2>2. CASE _parallel # 1
    <3>1. _parallel \in Int
      BY PostprocessAssumption DEF IInv, TypeOK
    <3>2. _parallel \notin 0..4
      BY <2>2, <3>1
    <3>3. \A a1 \in occurs : a1 = a
      BY <1>1, <3>2 DEF IInv, StepAccepted, ActionsAllowed
    <3> QED BY <3>3 DEF comesBefore
  <2> QED BY <2>1, <2>2
<1> QED BY <1>2, <1>3 DEF applicable

\* A step accepted in a checking mode can always be put in sequence by the
\* greedy choice of postprocess.lp 45-53: "exists" parallel actions can be
\* arranged in some sequence (strips-incremental.lp 4-6).
THEOREM GreedyNeverStuck == Spec => []NeverStuck
<1>1. IInv => NeverStuck
  BY ExistsNotStuck, AcyclicNotStuck, UnorderedNotStuck DEF NeverStuck
<1> QED BY <1>1, InductiveInvariant, PTL

\* The printed sequence is a plan of the sequential planner, in every mode.
THEOREM Refinement == Spec => ImplementsSequential
<1>1. Init => Sequential!Init
  BY DEF Init, Sequential!Init
<1>2. IInv /\ [Next]_vars => [Sequential!Next]_hold
  <2> SUFFICES ASSUME IInv, [Next]_vars, hold' # hold PROVE Sequential!Next
    OBVIOUS
  <2>1. PICK a \in Active : Select(a)
    BY DEF Next, Solve, NextStep, vars
  <2>2. a \in Action /\ AtMostOneValue(postcondition[a])
    BY ActiveTypes
  <2>3. Sequential!Occurs(a)
    BY <2>1, <2>2 DEF Select, applicable, Result, Writes, Holds, AtMostOneValue,
           Sequential!Occurs, Sequential!Applicable, Sequential!Result,
           Sequential!Writes, Sequential!Holds, Sequential!AtMostOneValue
  <2> QED BY <2>2, <2>3 DEF Sequential!Next
<1> QED BY <1>1, <1>2, InductiveInvariant, PTL DEF Spec, ImplementsSequential, Sequential!Spec

-----------------------------------------------------------------------------
\* What an action disables has to come before it.
LEMMA DisabledComesBefore ==
  ASSUME NEW m, NEW sh, NEW a \in Active, NEW a1 \in Active, disable(m, sh, a, a1)
  PROVE  comesBefore(a1, a)
<1>1. PICK x \in Variable, v \in Value, w \in Value :
        /\ <<x, v>> \in postcondition[a]
        /\ <<x, w>> \in precondition[a1] /\ <<x, v>> \notin precondition[a1]
  BY DEF disable, Reads
<1>2. <<x, w>> \notin postcondition[a]
  BY <1>1, ActiveTypes DEF AtMostOneValue
<1>3. a # a1
  BY DEF disable
<1> QED BY <1>1, <1>2, <1>3 DEF comesBefore, Writes

\* Modes 3 and 4 disable alike.
LEMMA SameDisable ==
  ASSUME NEW sh, NEW a, NEW a1
  PROVE  disable(3, sh, a, a1) <=> disable(4, sh, a, a1)
BY DEF disable, diverge, divergeOn, exclude

\* A step of mode 1 is one of mode 3: its actions disable each other not at all.
LEMMA ForallIsExists ==
  ASSUME IInv, occurs # {}, _parallel = 1
  PROVE  Accepts(3)
<1>1. ASSUME NEW P \in SUBSET occurs, PerformClosed(3, _shallow, before, occurs, P)
      PROVE  P = occurs
  <2>1. ASSUME NEW a \in occurs PROVE a \in P
    <3>1. \A a1 \in occurs : ~disable(3, _shallow, a, a1)
      BY DisabledComesBefore, ForallUnordered DEF IInv, TypeOK
    <3> QED BY <1>1, <3>1 DEF PerformClosed
  <2> QED BY <2>1
<1> QED BY <1>1 DEF IInv, StepAccepted, ActionsAllowed, Accepts, ExistsStep

\* A step of mode 3 has no circle of disablement: the complement of a circle
\* would be closed.
LEMMA ExistsIsAcyclic ==
  ASSUME IInv, occurs # {}, _parallel = 3
  PROVE  Accepts(4)
<1>1. ExistsStep(3, _shallow, before, occurs)
  BY DEF IInv, StepAccepted, ActionsAllowed
<1>2. ASSUME NEW T \in SUBSET occurs, T # {},
             \A a \in T : \E a1 \in T : disable(4, _shallow, a, a1)
      PROVE  FALSE
  <2>1. PerformClosed(3, _shallow, before, occurs, occurs \ T)
    BY <1>2, SameDisable DEF PerformClosed
  <2> QED BY <1>1, <1>2, <2>1 DEF ExistsStep
<1> QED BY <1>2 DEF IInv, StepAccepted, ActionsAllowed, Accepts, AcyclicStep

\* The other way round: what a closed set leaves out has an action that
\* disables nothing of it, which the set would have to contain.
LEMMA AcyclicIsExists ==
  ASSUME IInv, occurs # {}, _parallel = 4
  PROVE  Accepts(3)
<1>1. AcyclicStep(_shallow, occurs)
  BY DEF IInv, StepAccepted, ActionsAllowed
<1>2. ASSUME NEW P \in SUBSET occurs, PerformClosed(3, _shallow, before, occurs, P),
             occurs \ P # {}
      PROVE  FALSE
  <2>1. PICK a \in occurs \ P : \A a1 \in occurs \ P : ~disable(4, _shallow, a, a1)
    BY <1>1, <1>2 DEF AcyclicStep
  <2>2. \A a1 \in occurs : disable(3, _shallow, a, a1) => a1 \in P
    BY <2>1, SameDisable
  <2> QED BY <1>2, <2>1, <2>2 DEF PerformClosed
<1> QED BY <1>2 DEF IInv, StepAccepted, ActionsAllowed, Accepts, ExistsStep

\* Mode 2 asks for less than mode 3: preconditions that hold need not be
\* achieved.
LEMMA ExistsIsRelaxed ==
  ASSUME IInv, occurs # {}, _parallel = 3
  PROVE  Accepts(2)
<1>1. /\ ExistsStep(3, _shallow, before, occurs)
      /\ \A a \in occurs : PreconditionsHold(before, a)
  BY DEF IInv, StepAccepted, ActionsAllowed
<1>2. ASSUME NEW a \in occurs, NEW a1 \in occurs, disable(2, _shallow, a, a1)
      PROVE  disable(3, _shallow, a, a1)
  <2>1. ~exclude(3, _shallow, a, a1) /\ ~diverge(3, _shallow, a, a1)
    BY AcceptedAgree DEF IInv
  <2> QED BY <1>2, <2>1 DEF disable
<1>3. ASSUME NEW P \in SUBSET occurs, PerformClosed(2, _shallow, before, occurs, P)
      PROVE  PerformClosed(3, _shallow, before, occurs, P)
  BY <1>1, <1>2, <1>3 DEF PerformClosed, PreconditionsHold, Proceeds
<1> QED BY <1>1, <1>3 DEF IInv, StepAccepted, ActionsAllowed, Accepts, ExistsStep

\* The modes of strips-incremental.lp 3-6 are ordered as their comments say:
\* 1 within 3, 3 "implemented by acyclicity" in 4, both within 2.
THEOREM ModesOrdered == Spec => []ModesNested
<1>1. IInv => ModesNested
  BY ForallIsExists, ExistsIsAcyclic, AcyclicIsExists, ExistsIsRelaxed DEF ModesNested
<1> QED BY <1>1, InductiveInvariant, PTL

\* Every set of actions that can be arranged in any sequence is a step of
\* mode 1 (strips-incremental.lp 111-115 refuse no more than they must).
THEOREM ForallExact == Spec => []ForallComplete
<1>1. ASSUME IInv, occurs # {}, done = {}, EverySequenceRuns PROVE Accepts(1)
  <2>1. \A x \in Fluents : x \in Variable /\ hold[x] = before[x]
    BY <1>1 DEF IInv, Progress, Fluents, fluent
  <2>2. ASSUME NEW a \in occurs, NEW D \in SUBSET occurs, a \notin D,
               NEW x \in Variable, NEW v \in Value, <<x, v>> \in precondition[a]
        PROVE  /\ x \in Fluents
               /\ (\E c \in D : Writes(c, x)) => after[x] = v
               /\ ~(\E c \in D : Writes(c, x)) => before[x] = v
    <3>1. x \in Fluents
      BY <1>1, <2>2, PreconditionIsFluent DEF Fluents, IInv, TypeOK
    <3>2. HoldAfter(D)[x] = v
      BY <1>1, <2>2 DEF EverySequenceRuns, Holds
    <3> QED BY <2>1, <3>1, <3>2 DEF HoldAfter
  <2>3. ASSUME NEW a \in occurs, NEW x \in Variable, NEW v \in Value,
               <<x, v>> \in precondition[a]
        PROVE  x \in Fluents /\ before[x] = v
    <3>1. ASSUME NEW D \in SUBSET occurs, D = {}
          PROVE  x \in Fluents /\ before[x] = v
      <4>1. a \notin D /\ ~(\E c \in D : Writes(c, x))
        BY <3>1
      <4> QED BY <2>2, <2>3, <4>1
    <3>2. {} \in SUBSET occurs
      OBVIOUS
    <3> QED BY <3>1, <3>2, Zenon
  <2>4. ASSUME NEW a \in occurs, NEW x \in Variable, NEW v \in Value,
               <<x, v>> \in precondition[a], ~Writes(a, x)
        PROVE  after[x] = v
    <3>1. x \in Fluents /\ before[x] = v
      BY <2>3, <2>4
    <3>2. CASE \E c \in occurs \ {a} : Writes(c, x)
      <4>1. ASSUME NEW D \in SUBSET occurs, D = occurs \ {a}
            PROVE  after[x] = v
        <5>1. a \notin D /\ \E c \in D : Writes(c, x)
          BY <3>2, <4>1
        <5> QED BY <2>2, <2>4, <5>1
      <4>2. occurs \ {a} \in SUBSET occurs
        OBVIOUS
      <4> QED BY <4>1, <4>2, Zenon
    <3>3. CASE ~(\E c \in occurs \ {a} : Writes(c, x))
      <4>1. ~(\E c \in occurs : Writes(c, x))
        BY <2>4, <3>3
      <4>2. after[x] \in Value
        BY <1>1, <3>1 DEF IInv, TypeOK
      <4>3. after[x] = before[x]
        BY <1>1, <3>1, <4>1, <4>2
           DEF IInv, StepAccepted, StateAllowed, InertiaFlat, InertiaTiered, Fluents,
               Sets, Writes
      <4> QED BY <3>1, <4>3
    <3> QED BY <3>2, <3>3
  <2>5. ASSUME NEW a \in occurs, NEW x \in Variable, selfdefeat(a, x),
               NEW c \in occurs, NEW u \in Value, Sets(c, x, u)
        PROVE  c = a
    <3>1. PICK v \in Value, w \in Value :
            /\ <<x, v>> \in precondition[a] /\ <<x, v>> \notin postcondition[a]
            /\ <<x, w>> \in postcondition[a]
      BY <2>5 DEF selfdefeat, Writes
    <3>2. x \in Fluents
      BY <2>3, <3>1
    <3>3. after[x] = w
      BY <1>1, <3>1, <3>2 DEF IInv, StepAccepted, StateAllowed, EffectsHold, Fluents
    <3>4. Writes(c, x)
      BY <2>5 DEF Sets, Writes
    <3>5. CASE c # a
      <4>1. after[x] = v
        <5>1. {c} \in SUBSET occurs /\ a \notin {c}
          BY <3>5
        <5> QED BY <2>2, <3>1, <3>4, <5>1
      <4> QED BY <3>1, <3>3, <4>1
    <3> QED BY <3>5
  <2>6. ForallStep(occurs, after)
    BY <2>4, <2>5 DEF ForallStep
  <2> QED BY <1>1, <2>3, <2>6
         DEF Accepts, ActionsAllowed, PreconditionsHold, IInv, StepAccepted
<1>2. IInv => ForallComplete
  BY <1>1 DEF ForallComplete
<1> QED BY <1>2, InductiveInvariant, PTL

\* Every set that leaves nothing derivable for perform(A,t) has the actions
\* done so far.
Leading ==
  \A P \in SUBSET occurs : PerformClosed(3, _shallow, before, occurs, P) => done \subseteq P

\* Selecting the next action keeps it so.
LEMMA LeadingPreserved == IInv /\ Leading /\ [Next]_vars => Leading'
<1> SUFFICES ASSUME IInv, Leading, [Next]_vars PROVE Leading'
  OBVIOUS
<1>1. CASE \E S \in Steps : Solve(S)
  BY <1>1 DEF Solve, IInv, TypeOK, Leading
<1>2. CASE NextStep
  BY <1>2 DEF NextStep, Leading
<1>3. CASE UNCHANGED vars
  BY <1>3 DEF vars, options, Leading
<1>4. ASSUME NEW a \in Active, Select(a) PROVE Leading'
  <2>1. /\ a \in occurs /\ done' = done \cup {a} /\ occurs' = occurs
        /\ before' = before /\ _shallow' = _shallow
        /\ \A a1 \in occurs : comesBefore(a1, a) => a1 \in done
    BY <1>4 DEF Select, applicable, undone, options
  <2> SUFFICES ASSUME NEW P \in SUBSET occurs,
                      PerformClosed(3, _shallow, before, occurs, P)
               PROVE  a \in P /\ done \subseteq P
    BY <2>1 DEF Leading
  <2>2. done \subseteq P
    BY DEF Leading
  <2>3. \A a1 \in occurs : disable(3, _shallow, a, a1) => a1 \in P
    BY <2>1, <2>2, DisabledComesBefore DEF IInv, TypeOK
  <2> QED BY <2>1, <2>2, <2>3 DEF PerformClosed
<1> QED BY <1>1, <1>2, <1>3, <1>4 DEF Next

\* An unchecked step that postprocess.lp puts in sequence is a step of mode 3.
THEOREM ExistsExact == Spec => []ExistsComplete
<1>1. Init => Leading
  BY DEF Init, Leading
<1>2. Spec => []Leading
  BY <1>1, LeadingPreserved, InductiveInvariant, PTL DEF Spec
<1>3. IInv /\ Leading => ExistsComplete
  <2> SUFFICES ASSUME IInv, Leading, _parallel = 0, occurs # {}, undone = {}
               PROVE  Accepts(3)
    BY DEF ExistsComplete
  <2>1. done = occurs
    BY DEF undone, IInv, TypeOK
  <2>2. ExistsStep(3, _shallow, before, occurs)
    BY <2>1 DEF Leading, ExistsStep
  <2> QED BY <2>2 DEF IInv, StepAccepted, ActionsAllowed, Accepts
<1> QED BY <1>2, <1>3, InductiveInvariant, PTL

-----------------------------------------------------------------------------
(***************************************************************************)
(* That redundancy.lp asks for exactly the actions that can be added to a  *)
(* step.  The circular rules are least sets: one way round, what they      *)
(* derive is in every set that strips-incremental.lp considers; the other  *)
(* way round, what they fail to derive can be left out together with the   *)
(* new action, and the rest is closed under the rule for perform(A,t).     *)
(***************************************************************************)
\* The table of the pairs that disable each other, read back.
LEMMA DisablePair ==
  ASSUME NEW m \in Modes, NEW sh \in Shallow, NEW a \in Active, NEW a1 \in Active
  PROVE  <<a, a1>> \in disablePairs[m][sh] <=> disable(m, sh, a, a1)
<1>1. disablePairs[m][sh] = {p \in Active \X Active : disable(m, sh, p[1], p[2])}
  BY DEF disablePairs
<1> QED BY <1>1

\* In the modes 2 and 3, a suitable pair neither diverges, excludes nor disables
\* each other.
LEMMA CompatiblePair ==
  ASSUME NEW m \in {2, 3}, NEW sh \in Shallow, NEW a \in Active, NEW a1 \in Active
  PROVE  <<a, a1>> \in compatiblePairs[m][sh] <=>
           /\ a # a1
           /\ ~diverge(m, sh, a, a1) /\ ~exclude(m, sh, a, a1)
           /\ ~(disable(m, sh, a1, a) /\ disable(m, sh, a, a1))
<1>1. m \in Modes
  BY DEF Modes
<1>2. compatiblePairs[m][sh] = Compatible(m, sh)
  BY <1>1, Zenon DEF compatiblePairs
<1>3. <<a, a1>> \in Active \X Active
  OBVIOUS
<1> QED BY <1>2, <1>3 DEF Compatible

-----------------------------------------------------------------------------
\* Lines 18-19: the least set is closed under the rules it is the least for.
LEMMA DisabledByClosed ==
  ASSUME NEW m \in Modes, NEW sh \in Shallow, NEW a \in Active
  PROVE  /\ compatible(m, sh, a) =>
              \A a1 \in Active : disable(m, sh, a, a1) => a1 \in disabledBy[m][sh][a]
         /\ \A a1 \in simulate[m][sh][a], a2 \in Active :
              disableBeside(m, sh, a, a1, a2) => a2 \in disabledBy[m][sh][a]
<1> DEFINE direct == {a1 \in Active : compatible(m, sh, a) /\ <<a, a1>> \in disablePairs[m][sh]}
           targets == {p[2] : p \in disablePairs[m][sh]}
           Closed == {D \in {direct \cup E : E \in SUBSET (targets \ direct)} :
                        \A a1 \in SimulatedFor(m, sh, a, D), a2 \in targets \ D :
                          ~disableBeside(m, sh, a, a1, a2)}
           D0 == {a2 \in targets : \A D \in Closed : a2 \in D}
<1>1. disabledBy[m][sh][a] = D0
  BY Zenon DEF disabledBy
<1>2. simulate[m][sh][a] = SimulatedFor(m, sh, a, D0)
  BY <1>1, Zenon DEF simulate
<1>3. ASSUME NEW a1 \in Active, compatible(m, sh, a), disable(m, sh, a, a1)
      PROVE  a1 \in D0
  <2>1. a1 \in direct /\ <<a, a1>> \in disablePairs[m][sh]
    BY <1>3, DisablePair
  <2>2. a1 \in targets
    BY <2>1
  <2> QED BY <2>1, <2>2
<1>4. ASSUME NEW a1 \in SimulatedFor(m, sh, a, D0), NEW a2 \in Active,
             disableBeside(m, sh, a, a1, a2)
      PROVE  a2 \in D0
  <2>1. a2 \in targets
    BY <1>4 DEF disableBeside
  <2>2. ASSUME NEW D \in Closed PROVE a2 \in D
    <3>1. D0 \subseteq D
      OBVIOUS
    <3>2. a1 \in SimulatedFor(m, sh, a, D)
      BY <3>1 DEF SimulatedFor
    <3> QED BY <1>4, <2>1, <3>2
  <2> QED BY <2>1, <2>2
<1> QED BY <1>1, <1>2, <1>3, <1>4

\* The table of the actions simulated with an action, read back.
LEMMA SimulateDef ==
  ASSUME NEW m \in Modes, NEW sh \in Shallow, NEW a \in Active
  PROVE  simulate[m][sh][a] = SimulatedFor(m, sh, a, disabledBy[m][sh][a])
BY Zenon DEF simulate

\* An action is only simulated if it is compatible with the one that is tried, and
\* does not disable it.
LEMMA SimulatedPair ==
  ASSUME NEW m \in Modes, NEW sh \in Shallow, NEW a \in Active, NEW a1 \in simulate[m][sh][a]
  PROVE  a1 \in Active /\ <<a, a1>> \in compatiblePairs[m][sh] /\ ~disable(m, sh, a1, a)
<1>1. a1 \in SimulatedFor(m, sh, a, disabledBy[m][sh][a])
  BY SimulateDef, Zenon
<1>2. a1 \in Active /\ <<a, a1>> \in compatiblePairs[m][sh] /\ <<a1, a>> \notin disablePairs[m][sh]
  BY <1>1 DEF SimulatedFor
<1> QED BY <1>2, DisablePair, Zenon

\* Lines 40-42: so it is with the actions that can be run before a.
LEMMA PerformLeast ==
  ASSUME NEW m \in Modes, NEW sh \in Shallow, NEW a \in Active
  PROVE  /\ perform(m, sh, a) \subseteq occurs \cap simulate[m][sh][a]
         /\ performClosed(m, sh, a, perform(m, sh, a))
         /\ \A P \in SUBSET occurs : performClosed(m, sh, a, P) => perform(m, sh, a) \subseteq P
<1> DEFINE P0 == perform(m, sh, a)
<1>1. \A P \in SUBSET occurs : performClosed(m, sh, a, P) => P0 \subseteq P
  BY DEF perform
<1>2. P0 \subseteq occurs \cap simulate[m][sh][a]
  <2>1. performClosed(m, sh, a, occurs \cap simulate[m][sh][a])
    BY DEF performClosed
  <2> QED BY <1>1, <2>1
<1>3. performClosed(m, sh, a, P0)
  <2> SUFFICES ASSUME NEW a1 \in occurs \cap simulate[m][sh][a],
                      m = 2 => \A x \in Variable, v \in Value :
                        <<x, v>> \in precondition[a1] => proceed(m, sh, a, P0, x, v),
                      \A a2 \in Active :
                        disableBeside(m, sh, a, a1, a2) => alright(m, sh, a, P0, a2),
                      NEW P \in SUBSET occurs, performClosed(m, sh, a, P)
               PROVE  a1 \in P
    BY DEF performClosed, perform
  <2>1. P0 \subseteq P
    BY <1>1
  <2>2. \A x \in Variable, v \in Value : proceed(m, sh, a, P0, x, v) => proceed(m, sh, a, P, x, v)
    BY <2>1 DEF proceed
  <2>3. \A a2 \in Active : alright(m, sh, a, P0, a2) => alright(m, sh, a, P, a2)
    BY <2>1 DEF alright
  <2> QED BY <2>2, <2>3 DEF performClosed
<1> QED BY <1>1, <1>2, <1>3

\* Line 52 of strips-incremental.lp: mode 2 follows what any action asks for.
LEMMA PreconditionInScope ==
  ASSUME NEW a \in Active, NEW f \in precondition[a]
  PROVE  f \in scopes[2]
BY DEF scopes, Modes

-----------------------------------------------------------------------------
\* The step with a would lead from and to the same states.
Addable(a) ==
  /\ EffectsHold(Fluents, {a}, after)
  /\ _parallel # 2 => PreconditionsHold(before, a)

\* The situation in which line 50 speaks.
LEMMA StepUnderWay ==
  ASSUME IInv, occurs # {}
  PROVE  /\ occurs \in SUBSET Active /\ _shallow \in Shallow
         /\ before \in [Fluents -> Value] /\ after \in [Fluents -> Value]
         /\ EffectsHold(Fluents, occurs, after)
         /\ _parallel # 2 => \A b \in occurs : PreconditionsHold(before, b)
         /\ _parallel \in {2, 3} => ExistsStep(_parallel, _shallow, before, occurs)
BY DEF IInv, TypeOK, StepAccepted, ActionsAllowed, StateAllowed, Fluents

\* Once a could lead to the same state, it contradicts none of the step's actions.
LEMMA AddedAgree ==
  ASSUME IInv, occurs # {}, NEW a \in Active, Addable(a),
         NEW a1 \in occurs \cup {a}, NEW a2 \in occurs \cup {a}
  PROVE  ~exclude(_parallel, _shallow, a1, a2) /\ ~diverge(_parallel, _shallow, a1, a2)
<1>1. occurs \cup {a} \in SUBSET Active
  BY StepUnderWay
<1>2. _parallel # 2 => \A b \in occurs \cup {a} : PreconditionsHold(before, b)
  BY StepUnderWay DEF Addable
<1>3. EffectsHold(Fluents, occurs \cup {a}, after)
  BY StepUnderWay DEF Addable, EffectsHold
<1>4. EffectsHold(fluent(_parallel, _shallow), occurs \cup {a}, after)
  BY <1>3 DEF Fluents
<1> QED BY <1>1, <1>2, <1>4, StepAgrees

\* Two actions of a step of mode 2 or 3 do not disable each other: without them
\* the step would be closed.
LEMMA NoPairOfDisabling ==
  ASSUME IInv, occurs # {}, _parallel \in {2, 3}, NEW a1 \in occurs, NEW a2 \in occurs,
         disable(_parallel, _shallow, a1, a2)
  PROVE  ~disable(_parallel, _shallow, a2, a1)
<1> SUFFICES ASSUME disable(_parallel, _shallow, a2, a1) PROVE FALSE
  OBVIOUS
<1>1. PerformClosed(_parallel, _shallow, before, occurs, occurs \ {a1, a2})
  BY DEF PerformClosed
<1> QED BY <1>1, StepUnderWay DEF ExistsStep

\* Line 34 and the rules of 36 to 48, which the modes 2 and 3 share: a finds its
\* preconditions, and what it disables can be run before it.
Fits(a) ==
  LET P == perform(_parallel, _shallow, a) IN
  /\ _parallel = 2 => \A x \in Variable, v \in Value :
       <<x, v>> \in precondition[a] => proceed(_parallel, _shallow, a, P, x, v)
  /\ \A a1 \in occurs : disable(_parallel, _shallow, a, a1) => a1 \in P

\* A set closed under the rule for perform(A,t) has every action of the step
\* that redundancy.lp lets run before a, then a itself, then all the others.
LEMMA FittingIsExists ==
  ASSUME IInv, occurs # {}, _parallel \in {2, 3}, NEW a \in Active, Addable(a), Fits(a)
  PROVE  ExistsStep(_parallel, _shallow, before, occurs \cup {a})
<1> DEFINE m == _parallel
           sh == _shallow
           P0 == perform(m, sh, a)
<1>0. /\ m \in Modes /\ sh \in Shallow /\ occurs \in SUBSET Active
      /\ before \in [Fluents -> Value]
  BY StepUnderWay DEF Modes
<1> SUFFICES ASSUME NEW Q \in SUBSET (occurs \cup {a}),
                    PerformClosed(m, sh, before, occurs \cup {a}, Q)
             PROVE  Q = occurs \cup {a}
  BY DEF ExistsStep
<1>1. performClosed(m, sh, a, Q \cap occurs)
  <2> SUFFICES ASSUME NEW a1 \in occurs, a1 \in simulate[m][sh][a],
                      m = 2 => \A x \in Variable, v \in Value :
                        <<x, v>> \in precondition[a1] => proceed(m, sh, a, Q \cap occurs, x, v),
                      \A a2 \in Active :
                        disableBeside(m, sh, a, a1, a2) => alright(m, sh, a, Q \cap occurs, a2)
               PROVE  a1 \in Q
    BY DEF performClosed
  <2>1. m = 2 => \A x \in Variable, v \in Value :
          <<x, v>> \in precondition[a1] => Proceeds(before, Q, x, v)
    BY DEF proceed, Proceeds
  <2>2. <<a, a1>> \in compatiblePairs[m][sh] /\ ~disable(m, sh, a1, a)
    BY <1>0, SimulatedPair
  <2>3. ASSUME NEW a2 \in occurs, disable(m, sh, a1, a2) PROVE a2 \in Q
    <3>1. ~disable(m, sh, a2, a1)
      BY <2>3, NoPairOfDisabling
    <3>2. a1 # a2
      BY <2>3, <3>1
    <3>3. a # a2
      BY <2>2, <2>3
    <3>4. <<a1, a2>> \in compatiblePairs[m][sh]
      BY <1>0, <3>1, <3>2, AddedAgree, CompatiblePair
    <3>5. ~(disable(m, sh, a, a2) /\ disable(m, sh, a2, a))
      <4> SUFFICES ASSUME disable(m, sh, a, a2), disable(m, sh, a2, a) PROVE FALSE
        OBVIOUS
      <4>1. a2 \in simulate[m][sh][a]
        BY <1>0, PerformLeast DEF Fits
      <4> QED BY <1>0, <4>1, SimulatedPair
    <3>6. <<a, a2>> \in compatiblePairs[m][sh]
      BY <1>0, <3>3, <3>5, AddedAgree, CompatiblePair
    <3>7. disableBeside(m, sh, a, a1, a2)
      BY <1>0, <2>2, <2>3, <3>4, <3>6, DisablePair DEF disableBeside
    <3> QED BY <1>0, <3>7 DEF alright
  <2> QED BY <2>1, <2>2, <2>3 DEF PerformClosed
<1>2. P0 \subseteq Q
  BY <1>0, <1>1, PerformLeast
<1>3. a \in Q
  <2>1. m = 2 => \A x \in Variable, v \in Value :
          <<x, v>> \in precondition[a] => Proceeds(before, Q, x, v)
    BY <1>2 DEF Fits, proceed, Proceeds
  <2>2. \A a1 \in occurs \cup {a} : disable(m, sh, a, a1) => a1 \in Q
    BY <1>2 DEF Fits, disable
  <2> QED BY <2>1, <2>2 DEF PerformClosed
<1>4. PerformClosed(m, sh, before, occurs, Q \cap occurs)
  BY <1>3 DEF PerformClosed, Proceeds
<1>5. Q \cap occurs = occurs
  BY <1>4, StepUnderWay DEF ExistsStep
<1> QED BY <1>3, <1>5

\* The other way round: what is not run before a, but could be if a did not come
\* first, waits for a.  Without a and all that waits for it, the step would be
\* closed under the rule for perform(A,t).
LEMMA ExistsIsFitting ==
  ASSUME IInv, occurs # {}, _parallel \in {2, 3}, NEW a \in Active \ occurs, Addable(a),
         compatible(_parallel, _shallow, a),
         ExistsStep(_parallel, _shallow, before, occurs \cup {a})
  PROVE  Fits(a)
<1> DEFINE m == _parallel
           sh == _shallow
           P0 == perform(m, sh, a)
           Helps(b) == b \in disabledBy[m][sh][a]
                         \/ scopes[m] \cap (postcondition[b] \ precondition[b]) # {}
           Waiting == {b \in occurs : Helps(b)} \ P0
           Q == occurs \ Waiting
<1>0. /\ m \in Modes /\ sh \in Shallow /\ occurs \in SUBSET Active
      /\ before \in [Fluents -> Value]
  BY StepUnderWay DEF Modes
<1>1. P0 \subseteq occurs \cap simulate[m][sh][a] /\ performClosed(m, sh, a, P0)
  BY <1>0, PerformLeast
<1> SUFFICES ASSUME ~Fits(a) PROVE FALSE
  OBVIOUS
<1>2. ASSUME m = 2, NEW b \in Active, NEW x \in Variable, NEW v \in Value,
             <<x, v>> \in precondition[b], ~proceed(m, sh, a, P0, x, v)
      PROVE  ~Proceeds(before, Q, x, v)
  <2>1. <<x, v>> \in scopes[2]
    BY <1>2, PreconditionInScope
  <2>2. x \in DOMAIN before
    BY <1>0, <1>2, PreconditionIsFluent DEF Fluents
  <2>3. before[x] # v
    BY <1>2, <2>1, <2>2 DEF proceed
  <2>4. ASSUME NEW c \in Q, Sets(c, x, v) PROVE FALSE
    <3>1. <<x, v>> \in scopes[m] \cap (postcondition[c] \ precondition[c])
      BY <1>2, <2>1, <2>4 DEF Sets
    <3>2. c \in P0
      BY <3>1
    <3> QED BY <1>1, <1>2, <2>1, <2>4, <3>2 DEF proceed
  <2> QED BY <2>3, <2>4 DEF Proceeds
<1>3. ~(/\ m = 2 => \A x \in Variable, v \in Value :
             <<x, v>> \in precondition[a] => Proceeds(before, Q, x, v)
        /\ \A a1 \in occurs \cup {a} : disable(m, sh, a, a1) => a1 \in Q)
  <2>1. CASE m = 2 /\ \E x \in Variable, v \in Value :
               <<x, v>> \in precondition[a] /\ ~proceed(m, sh, a, P0, x, v)
    BY <1>2, <2>1
  <2>2. CASE \E a1 \in occurs : disable(m, sh, a, a1) /\ a1 \notin P0
    <3>1. PICK a1 \in occurs : disable(m, sh, a, a1) /\ a1 \notin P0
      BY <2>2
    <3>2. a1 \in disabledBy[m][sh][a]
      BY <1>0, <3>1, DisabledByClosed
    <3> QED BY <3>1, <3>2
  <2> QED BY <2>1, <2>2 DEF Fits
<1>4. ASSUME NEW b \in Waiting
      PROVE  ~(/\ m = 2 => \A x \in Variable, v \in Value :
                    <<x, v>> \in precondition[b] => Proceeds(before, Q, x, v)
               /\ \A a1 \in occurs \cup {a} : disable(m, sh, b, a1) => a1 \in Q)
  <2>0. b \in Active /\ b \in occurs /\ b # a /\ Helps(b) /\ b \notin P0
    BY <1>0
  <2>1. CASE disable(m, sh, b, a)
    BY <2>1
  <2>2. CASE ~disable(m, sh, b, a)
    <3>1. <<a, b>> \in compatiblePairs[m][sh]
      BY <1>0, <2>0, <2>2, AddedAgree, CompatiblePair
    <3>2. <<b, a>> \notin disablePairs[m][sh]
      BY <1>0, <2>0, <2>2, DisablePair
    <3>3. b \in simulate[m][sh][a]
      <4>1. b \in SimulatedFor(m, sh, a, disabledBy[m][sh][a])
        BY <2>0, <3>1, <3>2 DEF SimulatedFor
      <4> QED BY <1>0, <4>1, SimulateDef, Zenon
    <3>4. CASE m = 2 /\ \E x \in Variable, v \in Value :
                 <<x, v>> \in precondition[b] /\ ~proceed(m, sh, a, P0, x, v)
      BY <1>2, <2>0, <3>4
    <3>5. CASE \E a2 \in Active : disableBeside(m, sh, a, b, a2) /\ ~alright(m, sh, a, P0, a2)
      <4>1. PICK a2 \in Active : disableBeside(m, sh, a, b, a2) /\ ~alright(m, sh, a, P0, a2)
        BY <3>5
      <4>2. a2 \in disabledBy[m][sh][a]
        BY <1>0, <3>3, <4>1, DisabledByClosed
      <4>3. a2 \in Waiting
        BY <4>1, <4>2 DEF alright
      <4>4. disable(m, sh, b, a2)
        BY <1>0, <2>0, <4>1, DisablePair DEF disableBeside
      <4> QED BY <4>3, <4>4
    <3> QED BY <1>1, <2>0, <3>3, <3>4, <3>5 DEF performClosed
  <2> QED BY <2>1, <2>2
<1>5. PerformClosed(m, sh, before, occurs \cup {a}, Q)
  <2> SUFFICES ASSUME NEW b \in occurs \cup {a}, b \notin Q,
                      /\ m = 2 => \A x \in Variable, v \in Value :
                           <<x, v>> \in precondition[b] => Proceeds(before, Q, x, v)
                      /\ \A a1 \in occurs \cup {a} : disable(m, sh, b, a1) => a1 \in Q
               PROVE  FALSE
    BY DEF PerformClosed
  <2>1. CASE b = a
    BY <1>3, <2>1
  <2>2. CASE b \in Waiting
    BY <1>4, <2>2
  <2> QED BY <2>1, <2>2
<1> QED BY <1>5 DEF ExistsStep

\* In the modes 2 and 3, that is all that defeats an action.
LEMMA DefeatedExists ==
  ASSUME IInv, occurs # {}, _parallel \in {2, 3}, NEW a \in Active,
         compatible(_parallel, _shallow, a)
  PROVE  defeated(_parallel, _shallow, a) <=> ~(Addable(a) /\ Fits(a))
<1> DEFINE P0 == perform(_parallel, _shallow, a)
<1>0. /\ _parallel \in Modes /\ _shallow \in Shallow /\ occurs \in SUBSET Active
      /\ after \in [Fluents -> Value]
  BY StepUnderWay DEF Modes
<1>1. (\E x \in DOMAIN after, v \in Value : <<x, v>> \in postcondition[a] /\ after[x] # v)
        <=> ~EffectsHold(Fluents, {a}, after)
  BY <1>0 DEF EffectsHold
<1>2. (\E a1 \in Active : /\ <<a, a1>> \in disablePairs[_parallel][_shallow]
                          /\ ~alright(_parallel, _shallow, a, P0, a1))
        <=> ~\A a1 \in occurs : disable(_parallel, _shallow, a, a1) => a1 \in P0
  BY <1>0, DisablePair, DisabledByClosed DEF alright
<1>3. (\E x \in Variable, v \in Value :
          <<x, v>> \in precondition[a] /\ ~proceed(_parallel, _shallow, a, P0, x, v))
        <=> ~\A x \in Variable, v \in Value :
               <<x, v>> \in precondition[a] => proceed(_parallel, _shallow, a, P0, x, v)
  OBVIOUS
<1>4. _parallel # 1
  OBVIOUS
<1> QED BY <1>1, <1>2, <1>3, <1>4, Zenon DEF defeated, Addable, Fits

-----------------------------------------------------------------------------
\* Line 30 and 31: in mode 1, a finds what it asks for and leaves alone where it
\* was, and sets nothing that an action of the step changes for itself alone.
KeepsToItself(a) ==
  /\ \A x \in Variable, v \in Value :
       <<x, v>> \in precondition[a] /\ ~Writes(a, x) => after[x] = v
  /\ \A x \in Variable : Writes(a, x) /\ ~Reads(a, x) => ~\E a1 \in occurs : selfdefeat(a1, x)

\* Under parallel 1, an action is defeated unless it could lead to the same state and
\* neither undoes the conditions of an action nor has its own undone.
LEMMA DefeatedForall ==
  ASSUME IInv, occurs # {}, _parallel = 1, NEW a \in Active
  PROVE  defeated(_parallel, _shallow, a) <=> ~(Addable(a) /\ KeepsToItself(a))
<1>0. /\ 1 \in Modes /\ _shallow \in Shallow /\ after \in [Fluents -> Value]
  BY StepUnderWay DEF Modes
<1>1. (\E x \in DOMAIN after, v \in Value : <<x, v>> \in postcondition[a] /\ after[x] # v)
        <=> ~EffectsHold(Fluents, {a}, after)
  BY <1>0 DEF EffectsHold
<1>2. ~\E a1 \in Active : <<a, a1>> \in disablePairs[1][_shallow]
  <2>1. \A a1 \in Active : ~disable(1, _shallow, a, a1)
    BY DEF disable
  <2>2. \A a1 \in Active : <<a, a1>> \in disablePairs[1][_shallow] <=> disable(1, _shallow, a, a1)
    BY <1>0, DisablePair
  <2> QED BY <2>1, <2>2, Zenon
<1>3. KeepsToItself(a) <=>
        ~(\/ \E x \in Variable, v \in Value :
               <<x, v>> \in precondition[a] /\ ~Writes(a, x) /\ after[x] # v
          \/ \E x \in Variable : /\ Writes(a, x) /\ ~Reads(a, x)
                                 /\ \E a1 \in occurs : selfdefeat(a1, x))
  BY Zenon DEF KeepsToItself
<1>4. _parallel # 2
  OBVIOUS
<1> QED BY <1>1, <1>2, <1>3, <1>4, Zenon DEF defeated, Addable

\* Line 12: an action that defeats itself is never asked for in mode 1.
LEMMA CompatibleForall ==
  ASSUME NEW sh \in Shallow, NEW a \in Active, compatible(1, sh, a), NEW x \in Variable
  PROVE  ~selfdefeat(a, x)
<1>1. PICK a1 \in Active : <<a, a1>> \in compatiblePairs[1][sh]
  BY DEF compatible
<1>2. compatiblePairs[1][sh] = Compatible(1, sh)
  BY DEF compatiblePairs, Modes
<1> QED BY <1>1, <1>2 DEF Compatible

\* Under parallel 1, the conditions of the step's actions still hold in any order if
\* those of the added one do, and it leaves theirs alone.
LEMMA ForallIsKept ==
  ASSUME IInv, occurs # {}, _parallel = 1, NEW a \in Active \ occurs,
         compatible(_parallel, _shallow, a)
  PROVE  ForallStep(occurs \cup {a}, after) <=> KeepsToItself(a)
<1>0. /\ occurs \in SUBSET Active /\ _shallow \in Shallow
      /\ ForallStep(occurs, after)
  BY StepUnderWay DEF IInv, StepAccepted, StateAllowed
<1>1. \A x \in Variable : ~selfdefeat(a, x)
  BY <1>0, CompatibleForall
<1>2. ASSUME NEW x \in Variable
      PROVE  (\E v \in Value : Sets(a, x, v)) <=> Writes(a, x) /\ ~Reads(a, x)
  <2>1. ASSUME NEW v \in Value, Sets(a, x, v), NEW w \in Value, <<x, w>> \in precondition[a]
        PROVE  FALSE
    <3>1. <<x, w>> \notin postcondition[a]
      BY <2>1, ActiveTypes DEF Sets, AtMostOneValue
    <3>2. selfdefeat(a, x)
      BY <2>1, <3>1 DEF selfdefeat, Sets, Writes
    <3> QED BY <1>1, <3>2
  <2> QED BY <2>1 DEF Sets, Writes, Reads
<1>3. ASSUME NEW a1 \in occurs, NEW x \in Variable, selfdefeat(a1, x)
      PROVE  \E v \in Value : Sets(a1, x, v)
  <2>1. PICK v \in Value, w \in Value :
          /\ <<x, v>> \in precondition[a1] /\ <<x, v>> \notin postcondition[a1]
          /\ <<x, w>> \in postcondition[a1]
    BY <1>3 DEF selfdefeat, Writes
  <2>2. <<x, w>> \notin precondition[a1]
    BY <1>0, <2>1, ActiveTypes DEF AtMostOneValue
  <2> QED BY <2>1, <2>2 DEF Sets
<1>4. ASSUME ForallStep(occurs \cup {a}, after) PROVE KeepsToItself(a)
  <2>1. ASSUME NEW x \in Variable, Writes(a, x), ~Reads(a, x),
               NEW a1 \in occurs, selfdefeat(a1, x)
        PROVE  FALSE
    <3>1. (\E v \in Value : Sets(a, x, v)) /\ (\E v \in Value : Sets(a1, x, v))
      BY <1>2, <1>3, <2>1
    <3>2. a = a1
      BY <1>4, <2>1, <3>1 DEF ForallStep
    <3> QED BY <3>2
  <2> QED BY <1>4, <2>1 DEF ForallStep, KeepsToItself
<1>5. ASSUME KeepsToItself(a) PROVE ForallStep(occurs \cup {a}, after)
  <2>1. ASSUME NEW b \in occurs \cup {a}, NEW x \in Variable, NEW v \in Value,
               <<x, v>> \in precondition[b], ~Writes(b, x)
        PROVE  after[x] = v
    BY <1>0, <1>5, <2>1 DEF ForallStep, KeepsToItself
  <2>2. ASSUME NEW b \in occurs \cup {a}, NEW x \in Variable, selfdefeat(b, x),
               NEW a1 \in occurs \cup {a}, \E v \in Value : Sets(a1, x, v)
        PROVE  a1 \in occurs
    <3>1. b \in occurs
      BY <1>1, <2>2
    <3> QED BY <1>2, <1>5, <2>2, <3>1 DEF KeepsToItself
  <2>3. ASSUME NEW b \in occurs \cup {a}, NEW x \in Variable, selfdefeat(b, x),
               NEW a1 \in occurs \cup {a}, NEW a2 \in occurs \cup {a},
               \E v \in Value : Sets(a1, x, v), \E v \in Value : Sets(a2, x, v)
        PROVE  a1 = a2
    <3>1. b \in occurs /\ a1 \in occurs /\ a2 \in occurs
      BY <1>1, <2>2, <2>3
    <3> QED BY <1>0, <2>3, <3>1 DEF ForallStep
  <2> QED BY <2>1, <2>3 DEF ForallStep
<1> QED BY <1>4, <1>5

-----------------------------------------------------------------------------
\* What the constraints of a step ask of the step with a in addition.
LEMMA AddedAllowed ==
  ASSUME IInv, occurs # {}, _parallel \in Modes, NEW a \in Active
  PROVE  CanBeAdded(a) <=>
           /\ Addable(a)
           /\ _parallel \in {2, 3} =>
                ExistsStep(_parallel, _shallow, before, occurs \cup {a})
           /\ _parallel = 1 => ForallStep(occurs \cup {a}, after)
<1>1. DOMAIN after = Fluents /\ Fluents = fluent(_parallel, _shallow)
  BY StepUnderWay DEF Fluents
<1>2. StateAllowed(_parallel, _shallow, _inertia, before, occurs, after)
  BY DEF IInv, StepAccepted
<1>3. EffectsHold(Fluents, {a}, after) <=> EffectsHold(Fluents, occurs \cup {a}, after)
  BY StepUnderWay DEF EffectsHold
<1>4. InertiaFlat(Fluents, occurs, before, after)
        => InertiaFlat(Fluents, occurs \cup {a}, before, after)
  BY DEF InertiaFlat
<1>5. InertiaTiered(Fluents, occurs, before, after)
        => InertiaTiered(Fluents, occurs \cup {a}, before, after)
  BY DEF InertiaTiered
<1>6. StateAllowed(_parallel, _shallow, _inertia, before, occurs \cup {a}, after) <=>
        /\ EffectsHold(Fluents, {a}, after)
        /\ _parallel = 1 => ForallStep(occurs \cup {a}, after)
  BY <1>1, <1>2, <1>3, <1>4, <1>5, Zenon DEF StateAllowed
<1>7. _parallel \in 0..4 /\ _parallel # 4 /\ occurs \cup {a} # {}
  BY DEF Modes
<1>8. (_parallel # 2 => \A b \in occurs \cup {a} : PreconditionsHold(before, b))
        <=> (_parallel # 2 => PreconditionsHold(before, a))
  BY StepUnderWay
<1> QED BY <1>1, <1>6, <1>7, <1>8, Zenon DEF CanBeAdded, ActionsAllowed, Addable

\* redundancy.lp 50 refuses a step for the lack of an action if, and only if, the
\* step with that action would be accepted.
THEOREM RedundancyIsExact == Spec => []RedundancyExact
<1>1. ASSUME IInv, _parallel \in Modes, occurs # {}, NEW a \in Active \ occurs,
             compatible(_parallel, _shallow, a)
      PROVE  defeated(_parallel, _shallow, a) <=> ~CanBeAdded(a)
  <2>1. CASE _parallel = 1
    <3>1. CanBeAdded(a) <=> Addable(a) /\ ForallStep(occurs \cup {a}, after)
      <4>1. _parallel \notin {2, 3}
        BY <2>1
      <4> QED BY <1>1, <2>1, <4>1, AddedAllowed, Zenon
    <3>2. ForallStep(occurs \cup {a}, after) <=> KeepsToItself(a)
      BY <1>1, <2>1, ForallIsKept, Zenon
    <3>3. defeated(_parallel, _shallow, a) <=> ~(Addable(a) /\ KeepsToItself(a))
      BY <1>1, <2>1, DefeatedForall, Zenon
    <3> QED BY <3>1, <3>2, <3>3, Zenon
  <2>2. CASE _parallel \in {2, 3}
    <3>1. CanBeAdded(a) <=>
            Addable(a) /\ ExistsStep(_parallel, _shallow, before, occurs \cup {a})
      <4>1. _parallel # 1
        BY <2>2
      <4> QED BY <1>1, <2>2, <4>1, AddedAllowed, Zenon
    <3>2. Addable(a) =>
            (ExistsStep(_parallel, _shallow, before, occurs \cup {a}) <=> Fits(a))
      BY <1>1, <2>2, FittingIsExists, ExistsIsFitting, Zenon
    <3>3. defeated(_parallel, _shallow, a) <=> ~(Addable(a) /\ Fits(a))
      BY <1>1, <2>2, DefeatedExists, Zenon
    <3> QED BY <3>1, <3>2, <3>3, Zenon
  <2> QED BY <1>1, <2>1, <2>2 DEF Modes
<1>2. IInv => RedundancyExact
  BY <1>1 DEF RedundancyExact
<1> QED BY <1>2, InductiveInvariant, PTL
=============================================================================
