---------------------------- MODULE PDDLPlanner ----------------------------
(***************************************************************************)
(* What a plan is for a PDDL description: after the actions have been      *)
(* read, a state is a set of ground atoms, and an action may occur with    *)
(* any objects for its parameters for which its precondition is true.  One *)
(* action occurs in each time step, whether or not it changes anything.    *)
(***************************************************************************)
EXTENDS Effect

CONSTANTS Actions, InitialStates, NoState, Horizon

VARIABLES actions, state, time

Init == actions = <<>> /\ state = NoState /\ time = 0

Read(action) == state = NoState /\ actions' = Append(actions, action) /\ UNCHANGED <<state, time>>

\* An initial state lists literals; what it does not list is false.
Begin(literals) ==
  /\ state = NoState
  /\ state' = {<<f.pred, f.terms>> : f \in {g \in literals : g.op = "atom"}}
  /\ UNCHANGED <<actions, time>>

Binding(action, os) == Bind(NoBinding, action.parameters, os)

PreconditionTrue(action, os) ==
  \A f \in Range(action.precondition) : True(f, Binding(action, os), state)

ActionChanges(action, os) ==
  UNION {Changes(state)[e][Binding(action, os)] : e \in Range(action.effect)}

\* Added atoms prevail over deleted ones.
Result(action, os) ==
  LET changes == ActionChanges(action, os)
  IN  (state \ {c[1] : c \in {d \in changes : ~d[2]}}) \cup {c[1] : c \in {d \in changes : d[2]}}

Occurs(action, os) ==
  /\ state # NoState /\ time < Horizon /\ time' = time + 1
  /\ PreconditionTrue(action, os)
  /\ state' = Result(action, os)
  /\ UNCHANGED actions

Next == \/ \E action \in Actions : Read(action)
        \/ \E literals \in InitialStates : Begin(literals)
        \/ \E i \in DOMAIN actions : \E os \in Tuples(actions[i].parameters) :
             Occurs(actions[i], os)
Spec == Init /\ [][Next]_<<actions, state, time>>
=============================================================================
