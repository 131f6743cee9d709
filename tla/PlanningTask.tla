---------------------------- MODULE PlanningTask ----------------------------
(***************************************************************************)
(* The ground STRIPS facts that plasp's output gives the encodings, and    *)
(* what one ground action does to a state.  precondition(A,X,V) and        *)
(* postcondition(A,X,V) are kept as sets of pairs <<X, V>>, as in the      *)
(* facts: nothing stops an action from naming a variable twice.  A state   *)
(* gives every variable one value (encodings/sequential-horizon.lp checks  *)
(* it; postprocess.lp forbids two).                                        *)
(***************************************************************************)
CONSTANTS Variable, Value, Action, precondition, postcondition, initialState

Fact  == Variable \X Value
State == [Variable -> Value]

ASSUME TaskAssumption ==
  /\ precondition \in [Action -> SUBSET Fact]
  /\ postcondition \in [Action -> SUBSET Fact]
  /\ initialState \in State

\* Every fact of F is true in the state s.
Holds(s, F) == \A x \in Variable, v \in Value : <<x, v>> \in F => s[x] = v

\* has_condition(A,X,0) and has_condition(A,X,1).
Reads(a, x)  == \E v \in Value : <<x, v>> \in precondition[a]
Writes(a, x) == \E v \in Value : <<x, v>> \in postcondition[a]

AtMostOneValue(F) ==
  \A x \in Variable, v, w \in Value : <<x, v>> \in F /\ <<x, w>> \in F => v = w

\* The state after a: its postconditions, and inertia for what it leaves alone.
Result(s, a) ==
  [x \in Variable |-> IF Writes(a, x)
                      THEN CHOOSE v \in Value : <<x, v>> \in postcondition[a]
                      ELSE s[x]]

\* a may occur alone in s: its preconditions hold, and its postconditions do
\* not give a variable two values.
Applicable(s, a) ==
  /\ Holds(s, precondition[a])
  /\ AtMostOneValue(postcondition[a])
=============================================================================
