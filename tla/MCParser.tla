------------------------------ MODULE MCParser ------------------------------
(***************************************************************************)
(* Descriptions that differ from a typed one in one or two places: every   *)
(* kind of expression and declaration, names declared twice or not at all, *)
(* sections in both orders, and a text that ends too early.                *)
(***************************************************************************)
EXTENDS TypeTranslation

MCPunctuation == {"?", "(", ")", ";"}
MCWide == 256
MCNarrow == 64

N(c) == <<c>>
Group(names, type) == [names |-> [i \in DOMAIN names |-> N(names[i])], type |-> type]
Of(t) == <<Primitive(N(t))>>
OneOfTypes(t, u) == <<Either(<<N(t), N(u)>>)>>
V(c) == [variable |-> TRUE, name |-> N(c)]
C(c) == [variable |-> FALSE, name |-> N(c)]
Tree(op, parameters, name, terms, args) ==
  [op |-> op, parameters |-> parameters, name |-> name, terms |-> terms, args |-> args]
Atom(name, terms) == Tree("atom", <<>>, name, terms, <<>>)
Eq(terms) == Tree("=", <<>>, <<>>, terms, <<>>)
Op(op, args) == Tree(op, <<>>, <<>>, <<>>, args)
Bind(op, parameters, e) == Tree(op, parameters, <<>>, <<>>, <<e>>)
P(t) == Atom(N("p"), <<t>>)
Q(t, u) == Atom(N("q"), <<t, u>>)
\* A name that begins with a keyword.
NotA == Atom(<<"not", "a">>, <<>>)

Types == {<<Group(<<"t">>, Of("u"))>>, <<Group(<<"t", "v">>, Of("u")), Group(<<"v">>, Of("w"))>>,
          <<Group(<<"t">>, Of("u")), Group(<<"v">>, <<>>)>>, <<Group(<<"v">>, <<>>)>>, <<>>,
          <<Group(<<"t">>, Of("v")), Group(<<"v">>, Of("u"))>>}
Lists == {<<>>, <<Group(<<"x">>, Of("t"))>>, <<Group(<<"x", "y">>, Of("u"))>>, <<Group(<<"x">>, <<>>)>>,
          <<Group(<<"y">>, Of("u")), Group(<<"x">>, Of("t"))>>, <<Group(<<"x">>, OneOfTypes("t", "v"))>>,
          <<Group(<<"x">>, Of("z"))>>, <<Group(<<"x">>, Of("object"))>>, <<Group(<<"x", "x">>, Of("t"))>>}
Literals == {P(V("x")), P(C("a")), P(V("y")), Q(V("x"), C("a")), Q(V("y"), C("a")), Q(C("a"), V("y")),
             Atom(N("p"), <<V("y"), C("a")>>), Eq(<<V("x"), C("a")>>), Eq(<<V("x"), V("y")>>), NotA,
             Atom(N("r"), <<>>)}
Formulas ==
  Literals
  \cup {Op("not", <<e>>) : e \in {P(V("x")), NotA, Op("not", <<P(C("a"))>>)}}
  \cup {Op(op, <<e, P(C("a"))>>) : op \in {"and", "or", "imply"}, e \in {P(V("x")), P(V("y"))}}
  \cup {Op("and", <<>>), Op("when", <<P(V("x")), P(C("a"))>>)}
  \cup {Bind(op, ps, e) : op \in Quantifier, ps \in Lists, e \in {P(V("x")), Q(V("x"), V("y"))}}
  \cup {Op("and", <<Bind(op, <<Group(<<"x">>, Of("u"))>>, e), P(V("x"))>>) :
          op \in Quantifier, e \in {P(V("x")), Bind("forall", <<Group(<<"y">>, Of("t"))>>, Q(V("x"), V("y")))}}
Effects ==
  Literals \cup {Op("not", <<e>>) : e \in Literals}
  \cup {Op("and", <<e, Op("not", <<P(V("x"))>>)>>) : e \in Literals}
  \cup {Op("when", <<c, e>>) : c \in {P(V("x")), Op("or", <<P(V("x")), NotA>>)},
          e \in {P(C("a")), Op("and", <<P(V("x")), Op("not", <<NotA>>)>>), Eq(<<V("x"), C("a")>>),
                 Op("and", <<Op("and", <<>>)>>)}}
  \cup {Bind("forall", <<Group(<<"x">>, Of("u"))>>, Op("when", <<Q(V("x"), C("a")), P(V("x"))>>)),
        Op("or", <<NotA>>), Bind("exists", <<>>, NotA)}

Act(ps, pre, eff) == [name |-> N("a"), parameters |-> ps, precondition |-> pre, effect |-> eff]
X == <<Group(<<"x">>, Of("t"))>>
Base ==
  [backward |-> FALSE, old |-> FALSE, cut |-> 0, problem |-> <<>>,
   domain |->
     [name |-> N("d"), requirements |-> <<"typing">>, types |-> <<Group(<<"t", "v">>, Of("u"))>>,
      constants |-> <<Group(<<"a", "b">>, Of("t"))>>,
      predicates |-> <<[name |-> N("p"), parameters |-> <<Group(<<"x">>, Of("u"))>>],
                       [name |-> N("q"), parameters |-> <<Group(<<"x", "y">>, Of("t"))>>],
                       [name |-> <<"not", "a">>, parameters |-> <<>>]>>,
      actions |-> <<Act(X, <<P(V("x"))>>, <<NotA>>)>>]]
Whole ==
  [Base EXCEPT !.domain.actions = <<>>,
     !.problem = <<[name |-> N("k"), domain |-> N("d"), requirements |-> <<>>,
                    objects |-> <<Group(<<"o">>, Of("t")), Group(<<"a">>, Of("u"))>>,
                    init |-> << <<P(C("o")), P(C("a"))>> >>, goal |-> <<Q(C("o"), C("a"))>>]>>]
\* No types at all.
Bare ==
  [Base EXCEPT !.domain.types = <<>>, !.domain.requirements = <<>>,
     !.domain.constants = <<Group(<<"a">>, <<>>)>>,
     !.domain.predicates = <<[name |-> N("p"), parameters |-> <<Group(<<"x">>, <<>>)>>]>>,
     !.domain.actions = <<Act(<<Group(<<"x">>, <<>>)>>, <<P(V("x"))>>, <<P(C("a"))>>)>>]

Forward ==
  {[Base EXCEPT !.domain.actions = <<Act(X, <<e>>, <<>>)>>] : e \in Formulas}
  \cup {[Base EXCEPT !.domain.actions = <<Act(X, <<>>, <<e>>)>>] : e \in Effects}
  \cup {[Base EXCEPT !.domain.actions = <<Act(ps, <<e>>, <<NotA>>)>>] :
          ps \in Lists, e \in {P(V("x")), Q(V("x"), C("a")), Eq(<<V("x"), V("y")>>)}}
  \cup {[Base EXCEPT !.domain.predicates[k].parameters = ps, !.domain.types = ts] :
          k \in 1 .. 2, ps \in Lists, ts \in Types}
  \cup {[Base EXCEPT !.domain.predicates = @ \o <<[name |-> N("p"), parameters |-> ps]>>,
                     !.domain.actions = <<Act(qs, <<P(V("x"))>>, <<>>)>>] : ps \in Lists, qs \in Lists}
  \cup {[Base EXCEPT !.domain.constants = @ \o <<Group(<<"c">>, Of("v"))>>, !.domain.types = ts,
                     !.domain.actions = <<Act(ps, <<P(V("x"))>>, <<e>>)>>] :
          ts \in Types, ps \in Lists, e \in {Q(V("x"), C("a")), Q(V("y"), C("a"))}}
  \cup {[Base EXCEPT !.domain.types = ts, !.domain.requirements = rs] :
          ts \in Types, rs \in {<<>>, <<"typing">>, <<"adl">>, <<"unknown">>, <<"typing", "fluents">>,
                                <<"typing", "timed-initial-literals", "adl">>}}
  \cup {[Bare EXCEPT !.domain.requirements = rs, !.domain.constants = cs] :
          rs \in {<<>>, <<"unknown">>, <<"typing">>},
          cs \in {<<>>, <<Group(<<"a", "b">>, <<>>)>>, <<Group(<<"a">>, Of("object"))>>, <<Group(<<"a">>, Of("t"))>>}}
  \cup {[Bare EXCEPT !.domain.constants = <<Group(<<"a">>, Of("object"))>>,
                     !.domain.predicates[1].parameters[1].type = Of("object"), !.domain.actions = <<>>]}
  \cup {[Whole EXCEPT !.problem[1].init = i, !.problem[1].goal = g] :
          i \in {<<>>, << <<>> >>, << <<P(C("o")), Op("not", <<NotA>>)>> >>, << <<Eq(<<C("a"), C("o")>>)>> >>},
          g \in {<<>>, <<P(C("a"))>>, <<P(V("x"))>>, <<Bind("exists", X, Q(V("x"), C("o")))>>}}
  \cup {[Whole EXCEPT !.problem[1].objects = os, !.problem[1].requirements = rs] :
          os \in {<<>>, <<Group(<<"o">>, Of("v"))>>, <<Group(<<"o", "a">>, Of("t"))>>, <<Group(<<"o">>, <<>>)>>},
          rs \in {<<>>, <<"adl">>, <<"unknown">>}}
  \cup {[Whole EXCEPT !.problem[1].domain = N("e")], [Whole EXCEPT !.problem = @ \o @],
        [Whole EXCEPT !.problem[1].init = @ \o @]}
Cuts == {[Base EXCEPT !.cut = n] : n \in 1 .. Len(Text(Base)) - 1}

Old == {[Base EXCEPT !.old = TRUE, !.domain.actions = <<Act(ps, <<P(V("y"))>>, <<e>>)>>] :
          ps \in Lists, e \in {P(V("x")), NotA}}

MCDescriptions == Cuts \cup UNION {{w, [w EXCEPT !.backward = TRUE]} : w \in Forward \cup Old}
=============================================================================
