----------------------- MODULE MCConditionTranslation -----------------------
(***************************************************************************)
(* One action with a parameter a and a goal, over p, r and q with one, two *)
(* and no arguments, in every state of two objects.  The conditions need   *)
(* derived predicates with parameters, with existential parameters, with   *)
(* both, with neither, under a negation, and of each type, up to three     *)
(* deep.                                                                   *)
(***************************************************************************)
EXTENDS ConditionTranslation

MCVar    == {"a", "x"}
MCObject == {"o1", "o2"}
MCPredicate == {<<"p", 1>>, <<"q", 0>>, <<"r", 2>>}

pp(t)    == Atom("p", <<t>>)
rr(t, u) == Atom("r", <<t, u>>)
q        == Atom("q", <<>>)

OverX == {pp("x"), Not(rr("x", "o2")), Or(<<pp("x"), rr("x", "o2"), pp("a")>>),
          And(<<pp("x"), rr("x", "o2"), Or(<<pp("a"), Not(q)>>)>>),
          Or(<<Not(pp("a")), And(<<pp("x"), q>>)>>)}
OverA == OverX
         \cup {Or(<<pp("a"), q>>), Or(<<And(<<pp("a"), q>>), And(<<Not(pp("a")), pp("o1")>>)>>),
               And(<<Or(<<pp("a"), q>>), Or(<<Not(pp("a")), pp("o2")>>)>>), And(<<>>), Or(<<>>)}
Action(pre, eff) == [parameters |-> <<"a">>, precondition |-> pre, effect |-> eff]
MCActions ==
  {Action(<<f>>, <<>>) : f \in (OverA \ OverX) \cup {Exists(<<"x">>, f) : f \in OverX}
                    \cup {ForAll(<<"x">>, f) : f \in OverX}}
  \cup {Action(<<Or(<<pp("a"), q>>)>>, <<When(Not(Exists(<<"x">>, f)), <<q>>)>>) : f \in OverX}

MCGoals == {<<>>, <<pp("o1")>>, <<And(<<q, Not(pp("o1"))>>)>>, <<Or(<<q, pp("o1")>>)>>,
            <<Exists(<<"x">>, And(<<pp("x"), rr("x", "o2")>>)) >>,
            <<Exists(<<"x">>, Or(<<Not(pp("x")), And(<<pp("x"), q>>)>>)) >>,
            <<ForAll(<<"x">>, Or(<<pp("x"), rr("x", "o2")>>)) >>}

MCInterpretation == SUBSET GroundAtom
MCEnvironment    == {[x \in MCVar |-> o] : o \in MCObject}
=============================================================================
