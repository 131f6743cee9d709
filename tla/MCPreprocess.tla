---------------------------- MODULE MCPreprocess ----------------------------
(***************************************************************************)
(* Tasks of three actions over two two-valued variables.  Two actions are  *)
(* any of 25 (no or one precondition, one or two postconditions); the      *)
(* third undoes an initial value on its way, or needs it back, or can      *)
(* never occur because it asks for two values of one variable.  So the     *)
(* rules meet actions that are inconsistent, redundant, unreachable,       *)
(* irrelevant and harmful to the goal.                                     *)
(***************************************************************************)
EXTENDS Preprocess

MCVariable == {"x", "y"}
MCValue    == {0, 1}
MCInit     == [v \in MCVariable |-> 0]

x0 == <<"x", 0>>
x1 == <<"x", 1>>
y0 == <<"y", 0>>
y1 == <<"y", 1>>

Pres  == <<{}, {x0}, {x1}, {y0}, {y1}>>
Posts == <<{x0}, {x1}, {y1}, {x1, y1}, {x0, x1}>>
Extra == <<[pre |-> {x0}, post |-> {x1, y1}],
           [pre |-> {y1}, post |-> {x0}],
           [pre |-> {x0, x1}, post |-> {y1}]>>

\* Action 5 * i + j is the one with Pres[i] and Posts[j]; 31..33 are the others.
MCPlain  == 6..30
MCAction == 6..33
MCPre    == [a \in MCAction |-> IF a > 30 THEN Extra[a - 30].pre ELSE Pres[(a - 1) \div 5]]
MCPost   == [a \in MCAction |-> IF a > 30 THEN Extra[a - 30].post
                                ELSE Posts[((a - 1) % 5) + 1]]
MCTasks  == {{a, b, c} : a \in MCPlain, b \in MCPlain, c \in 31..33}
MCGoals  == {{x1}, {x0, y1}}
MCClosure == 0..3
=============================================================================
