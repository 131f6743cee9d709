-------------------------- MODULE SignatureMatching --------------------------
(***************************************************************************)
(* detail/SignatureMatching.cpp: does an atom fit a declaration?  A type   *)
(* is [either, names]; a declaration's type is <<>> or <<type>>; the       *)
(* declared types are a sequence of [name, parents].                       *)
(***************************************************************************)
EXTENDS Integers, Sequences

Primitive(name)  == [either |-> FALSE, names |-> <<name>>]
Either(names)    == [either |-> TRUE, names |-> names]

\* Lines 14-30; it does not end on a cyclic declaration.
RECURSIVE PrimitiveMatches(_, _, _)
PrimitiveMatches(types, lhs, rhs) ==
  \/ rhs = <<"object">> \/ lhs = rhs
  \/ \E i \in DOMAIN types :
       /\ types[i].name = lhs
       /\ \E j \in DOMAIN types[i].parents : PrimitiveMatches(types, types[i].parents[j], rhs)

\* Lines 34-83, by the kinds of the two types.
TypeMatches(types, lhs, rhs) ==
  LET fits(l) == \E j \in DOMAIN rhs.names : PrimitiveMatches(types, l, rhs.names[j])
  IN  IF lhs.either /\ ~rhs.either
      THEN Len(lhs.names) = 1 /\ fits(lhs.names[1])
      ELSE \A i \in DOMAIN lhs.names : fits(lhs.names[i])

\* Lines 87-117: typed and untyped declarations must not meet.
Comparable(lhs, rhs) == (lhs = <<>>) = (rhs = <<>>)
TermMatches(types, lhs, rhs) == lhs = <<>> \/ TypeMatches(types, lhs[1], rhs[1])

\* Faulty variant of matches: the types are passed the other way round.
matchesSwapped(types, name, arguments, declaration) ==
  /\ name = declaration.name /\ Len(arguments) = Len(declaration.parameters)
  /\ \A i \in DOMAIN arguments :
       TermMatches(types, declaration.parameters[i].type, arguments[i].declaration.type)

\* Lines 122-135, where no assertion fails.
matches(types, name, arguments, declaration) ==
  /\ name = declaration.name /\ Len(arguments) = Len(declaration.parameters)
  /\ \A i \in DOMAIN arguments :
       TermMatches(types, arguments[i].declaration.type, declaration.parameters[i].type)

\* Whether one of the calls runs into an assertion: the arguments are compared
\* from left to right up to the first that does not match.
Asserts(types, name, arguments, declaration) ==
  /\ name = declaration.name /\ Len(arguments) = Len(declaration.parameters)
  /\ \E i \in DOMAIN arguments :
       /\ ~Comparable(arguments[i].declaration.type, declaration.parameters[i].type)
       /\ \A j \in 1 .. i - 1 :
            /\ Comparable(arguments[j].declaration.type, declaration.parameters[j].type)
            /\ TermMatches(types, arguments[j].declaration.type, declaration.parameters[j].type)
=============================================================================
