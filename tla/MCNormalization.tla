-------------------------- MODULE MCNormalization --------------------------
(***************************************************************************)
(* Domains of up to two actions and a problem.  An action has a parameter  *)
(* a, perhaps a precondition and an effect with two conditions, one under  *)
(* a "forall", or one of them unsupported; conditions nest                 *)
(* quantifiers and disjunctions two and three deep, over p(a), p(x) with x *)
(* bound outside or inside, r(x, y) with variables of both, a constant and *)
(* q.  Goals are closed, and a problem need not have one.                  *)
(***************************************************************************)
EXTENDS Normalization

MCVar    == {"a", "x", "y"}
MCObject == {"o1", "o2"}
MCPredicate == {<<"p", 1>>, <<"q", 0>>, <<"r", 2>>, <<"=", 2>>}

p(t)    == Atom("p", <<t>>)
r(t, u) == Atom("r", <<t, u>>)
q       == Atom("q", <<>>)
eq      == Atom("=", <<"a", "o1">>)

\* Conditions over x, closed by what stands around them.
OverX == {p("x"), Not(r("x", "a")), Or(<<p("x"), q>>), Imply(p("x"), r("x", "a")),
          And(<<p("a"), r("a", "x")>>),
          Exists(<<"y">>, r("x", "y")), ForAll(<<"y">>, Imply(r("x", "y"), p("a"))),
          Exists(<<"y">>, Or(<<r("y", "x"), And(<<p("y"), p("a")>>)>>))}
OverA == {p("a"), q, eq, And(<<>>), Or(<<>>), Or(<<p("a"), Not(q)>>),
          And(<<Or(<<q, p("a")>>), Not(And(<<q, p("o1")>>))>>)}
             \cup {Exists(<<"x">>, f) : f \in OverX} \cup {ForAll(<<"x">>, f) : f \in OverX}
             \cup {Or(<<q, Exists(<<"x", "y">>, And(<<r("x", "y"), f>>))>>) : f \in {p("x"), p("a")}}
\* Two conditional effects, one of them under a "forall".
Two(f) == And(<<p("a"), When(f, <<q>>), ForAll(<<"y">>, When(Or(<<p("y"), q>>), <<p("y"), Not(q)>>))>>)
Eff    == {Two(Or(<<p("a"), q>>)), Two(Not(ForAll(<<"x">>, r("x", "a"))))}
OtherEff == {And(<<q, eq>>), When(eq, <<q>>), ForAll(<<"y">>, r("y", "a"))}
Action(pre, eff) == [parameters |-> <<"a">>, precondition |-> pre, effect |-> eff]

Closed == {q, eq, p("o1"), Or(<<q, p("o1")>>), And(<<q, Or(<<q, Not(p("o2"))>>)>>),
           Not(Exists(<<"x">>, p("x"))), ForAll(<<"x">>, Or(<<p("x"), r("x", "o1")>>)),
           ForAll(<<"x">>, Exists(<<"y">>, And(<<r("x", "y"), Not(p("y"))>>)))}

MCActions == {Action(<<f>>, <<>>) : f \in OverA} \cup {Action(<<>>, <<e>>) : e \in Eff \cup OtherEff}
                \cup {Action(<<f>>, <<Two(Or(<<p("a"), q>>))>>) : f \in {g \in OverA : g.op # "forall"}}
                \cup {Action(<<f>>, <<Two(Not(ForAll(<<"x">>, r("x", "a"))))>>) : f \in {g \in OverA : g.op # "exists"}}
MCGoals   == {<<>>} \cup {<<f>> : f \in Closed}

Atoms == {<<"q", <<>>>>, <<"p", <<"o1">>>>, <<"p", <<"o2">>>>,
          <<"r", <<"o1", "o1">>>>, <<"r", <<"o1", "o2">>>>, <<"r", <<"o2", "o1">>>>}
MCInterpretation == {{}, Atoms} \cup {{f} : f \in Atoms} \cup {Atoms \ {f} : f \in Atoms}
MCEnvironment    == {env \in [MCVar -> MCObject] : env["x"] = "o1"}
=============================================================================
