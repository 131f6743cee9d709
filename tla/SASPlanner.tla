----------------------------- MODULE SASPlanner -----------------------------
(***************************************************************************)
(* What a plan is for a SAS task without axioms: a state gives every       *)
(* variable the index of one of its values, and an operator may occur      *)
(* where its prevail conditions hold and its effects, conditional or not,  *)
(* find the values they start from.  Mutex groups say nothing new.         *)
(***************************************************************************)
EXTENDS Integers, Sequences

CONSTANTS Descriptions, NoState, Horizon

VARIABLES written, state, time, solved

Init == written \in Descriptions /\ state = NoState /\ time = 0 /\ solved = FALSE

WithoutAxioms(w) ==
  w.axiomRules = <<>> /\ \A i \in DOMAIN w.variables : w.variables[i].axiomLayer = -1

HasValue(st, v, i)  == i = -1 \/ st[v + 1] = i
AllHold(st, facts)  == \A k \in DOMAIN facts : st[facts[k][1] + 1] = facts[k][2]

Applicable(st, o) ==
  /\ AllHold(st, o.prevail)
  /\ \A k \in DOMAIN o.effects : HasValue(st, o.effects[k].variable, o.effects[k].before)

\* The assignments that take place, by the values before.
Changes(st, o) ==
  {<<o.effects[k].variable, o.effects[k].after>> :
     k \in {j \in DOMAIN o.effects : AllHold(st, o.effects[j].conditions)}}
Consistent(changes) == \A c \in changes, d \in changes : c[1] = d[1] => c = d
Result(st, changes) ==
  [i \in DOMAIN st |->
     IF \E c \in changes : c[1] = i - 1 THEN (CHOOSE c \in changes : c[1] = i - 1)[2] ELSE st[i]]

Begin ==
  /\ state = NoState /\ WithoutAxioms(written)
  /\ state' = written.initialState
  /\ UNCHANGED <<written, time, solved>>

Occurs(o) ==
  /\ state # NoState /\ ~solved /\ time < Horizon /\ time' = time + 1
  /\ Applicable(state, o) /\ Consistent(Changes(state, o))
  /\ state' = Result(state, Changes(state, o))
  /\ UNCHANGED <<written, solved>>

Solve ==
  /\ state # NoState /\ ~solved /\ solved' = TRUE
  /\ AllHold(state, written.goal)
  /\ UNCHANGED <<written, state, time>>

Next == Begin \/ Solve \/ \E k \in DOMAIN written.operators : Occurs(written.operators[k])
Spec == Init /\ [][Next]_<<written, state, time, solved>>
=============================================================================
