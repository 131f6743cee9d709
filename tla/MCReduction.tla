---------------------------- MODULE MCReduction ----------------------------
(***************************************************************************)
(* Preconditions with up to four nested connectives over p(a), p(x1) and   *)
(* q, where a is the action's parameter: "and" and "or" of no, one or two  *)
(* arguments, "imply", "not" and the quantifiers, of which the one at      *)
(* nesting level k binds x<k>.  None leaves a quantified variable open.    *)
(***************************************************************************)
EXTENDS ReductionPasses

MCVar    == {"a", "x1", "x2", "x3"}
MCObject == {"o1", "o2"}
MCPredicate == {<<"p", 1>>, <<"q", 0>>}

pa == Atom("p", <<"a">>)
px == Atom("p", <<"x1">>)
q  == Atom("q", <<>>)

ListsOf(S) == {<<>>} \cup {<<f>> : f \in S} \cup {<<f, g>> : f \in S, g \in S}
Bound(S, x) == {Exists(<<x>>, f) : f \in S} \cup {ForAll(<<x>>, f) : f \in S}
Unary(S, x) == {Not(f) : f \in S} \cup Bound(S, x)
Binary(S) == {And(l) : l \in ListsOf(S)} \cup {Or(l) : l \in ListsOf(S)}
                  \cup {Imply(f, g) : f \in S, g \in S}

Scope1 == {px, Not(px), And(<<px, q>>), Or(<<pa, px>>), Imply(px, q)}
Level1 == {pa, q} \cup Bound(Scope1, "x1") \cup {Not(pa), Not(q)} \cup Binary({pa, q})
Level2 == Level1 \cup Unary(Level1, "x2") \cup Binary(Level1)
MCParsed == Level2 \cup Unary(Level2, "x3")

MCInterpretation == {S \cup T : S \in SUBSET {<<"p", <<o>>>> : o \in MCObject},
                                T \in SUBSET {<<"q", <<>>>>}}
MCEnvironment == {[x \in MCVar |-> o] : o \in MCObject}
=============================================================================
