---------------------------- MODULE MCPostprocess ----------------------------
(***************************************************************************)
(* Thirteen actions over three two-valued variables that are asked about   *)
(* and one (w) that is only set: they disable each other in pairs and in a *)
(* circle of three, achieve each other's preconditions, defeat themselves, *)
(* diverge on w and exclude each other.  A step takes at most three.       *)
(***************************************************************************)
EXTENDS Redundancy

MCVariable == {"x", "y", "z", "w"}
MCValue    == {0, 1}
MCInit     == [v \in MCVariable |-> 0]

x0 == <<"x", 0>>
x1 == <<"x", 1>>
y0 == <<"y", 0>>
y1 == <<"y", 1>>
z0 == <<"z", 0>>
z1 == <<"z", 1>>
w0 == <<"w", 0>>
w1 == <<"w", 1>>

MCPre  == <<{x0},     {x1},     {x0}, {y0}, {z0}, {},   {x1}, {x0},
            {x1},     {y0},     {z1, x1}, {}, {y1}>>
MCPost == <<{x1, w1}, {x0, w0}, {y1}, {z1}, {x1}, {x1}, {y1}, {x1, y1},
            {x1, z1}, {x1, w1}, {y0}, {w0}, {z0, y1}>>
MCAction == 1..13
MCRelevant == {"x", "y", "z"}
MCMutex  == {{<<"w", 1>>, <<"z", 1>>}}
MCSteps  == {{}} \cup {{a, b, c} : a, b, c \in MCAction}
\* Neither ascending nor descending.
MCRank   == [a \in MCAction |-> (a * 5) % 13]
MCParallel == 0..5
MCShallow  == {0, 1}
MCInertia  == {0, 1}
MCPlannerOn == {0, 1}
=============================================================================
