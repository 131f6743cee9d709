-------------------------- MODULE SequentialPlanner --------------------------
(***************************************************************************)
(* What a planning encoding promises: a plan is a sequence of actions,     *)
(* each occurring where its preconditions hold.  encodings/                *)
(* sequential-horizon.lp without derived predicates and conditional        *)
(* effects; the horizon bounds only the length of a behaviour.             *)
(***************************************************************************)
EXTENDS PlanningTask

VARIABLE state

Init == state = initialState

\* occurs(A,T): exactly one action, its preconditions in the state before,
\* its effects and inertia in the state after.
Occurs(a) ==
  /\ Applicable(state, a)
  /\ state' = Result(state, a)

Next == \E a \in Action : Occurs(a)

Spec == Init /\ [][Next]_state
=============================================================================
