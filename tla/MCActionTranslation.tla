------------------------ MODULE MCActionTranslation ------------------------
(***************************************************************************)
(* Two actions over p(o1), p(o2), q and r(o1), r(o2).  They have           *)
(* parameters, universal effects, effects that contradict each other for   *)
(* some objects, nested preconditions, and conditional effects.            *)
(***************************************************************************)
EXTENDS ActionTranslation

MCVar    == {"a", "x"}
MCObject == {"o1", "o2"}
MCPredicate == {<<"p", 1>>, <<"q", 0>>, <<"r", 1>>}

p(t) == Atom("p", <<t>>)
r(t) == Atom("r", <<t>>)
q    == Atom("q", <<>>)

Action(ps, pre, eff) == [parameters |-> ps, precondition |-> pre, effect |-> eff]

NestedPreconditions ==
  {Exists(<<"x">>, And(<<p("x"), r("a")>>)), ForAll(<<"x">>, Or(<<p("x"), r("a")>>)),
   Or(<<q, p("a")>>), Not(And(<<q, p("a")>>))}
PlainWhens ==
  {When(q, <<p("o1"), Not(p("o2"))>>), When(Not(p("o1")), <<p("o1"), q>>),
   When(Exists(<<"x">>, And(<<p("x"), r("x")>>)), <<Not(q)>>), When(And(<<>>), <<r("o1")>>)}

MCActions ==
  {Action(<<"a">>, <<f>>, <<And(<<Not(p("a")), r("a"), q>>)>>) : f \in NestedPreconditions}
  \cup {Action(<<"a">>, <<p("a")>>, <<And(<<Not(p("a")), p("o2")>>)>>),
        Action(<<"a">>, <<>>, <<ForAll(<<"x">>, And(<<p("x"), Not(r("x"))>>))>>),
        Action(<<>>, <<And(<<Not(q)>>)>>, <<q>>), Action(<<>>, <<q>>, <<>>)}
  \cup {Action(<<>>, <<>>, <<And(<<Not(q), e>>)>>) : e \in PlainWhens}
  \cup {Action(<<>>, <<Exists(<<"x">>, p("x"))>>, <<And(<<e, And(<<d>>)>>)>>) :
          e \in PlainWhens, d \in PlainWhens}

SharedActions ==
  {Action(<<"a">>, <<>>, <<When(p("a"), <<q>>)>>),
   Action(<<>>, <<>>, <<ForAll(<<"x">>, When(p("x"), <<r("x")>>))>>)}

\* Conditional effects placed several times, under conditions that stay the same or,
\* in the last, are not plain.
PlacedActions ==
  {Action(<<"a">>, <<>>, <<When(q, <<r("a")>>)>>),
   Action(<<>>, <<>>, <<ForAll(<<"x">>, When(Exists(<<"a">>, And(<<p("a"), r("a")>>)), <<Not(p("x"))>>))>>),
   Action(<<>>, <<>>, <<When(Not(Exists(<<"x">>, p("x"))), <<q>>)>>)}

AllActions == MCActions \cup SharedActions \cup PlacedActions

MCGoals == {<<>>}
\* The last one contradicts itself.
MCInitialStates == {{}, {p("o1"), Not(q)}, {q, p("o2"), r("o1"), r("o2")}, {q, Not(q)}}
MCInterpretation == {}
MCEnvironment    == {}
=============================================================================
