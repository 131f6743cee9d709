---------------------------- MODULE Declarations ----------------------------
(***************************************************************************)
(* The parsers of types, constants, variables, predicates and requirements *)
(* (detail/parsing).  A parser is a tokenizer with the context and the     *)
(* syntax tree built so far: mode, domain, problem (<<>> or <<problem>>)   *)
(* and stack, the layers of the VariableStack.                             *)
(***************************************************************************)
EXTENDS Tokenizer, SignatureMatching

Declared(declarations, name) == {i \in DOMAIN declarations : declarations[i].name = name}
First(indices) == CHOOSE i \in indices : \A j \in indices : i <= j

\* A loop over a list in parentheses: the text must not end.
Closes(s) == ~s.threw /\ ~atEnd(s) /\ Current(s) = ")"
Breaks(s) == s.threw \/ atEnd(s)

PrimitiveTypeDeclaration(name) == [name |-> name, parents |-> <<>>]

parsePrimitiveType(s) ==
  Then(getIdentifier(s), LAMBDA t :
    IF Declared(t.domain.types, t.value) # {} THEN Return(t, Primitive(t.value))
    ELSE IF t.value # <<"object">> /\ t.mode = "strict" THEN throw(t)
    ELSE [t EXCEPT !.domain.types = Append(@, PrimitiveTypeDeclaration(t.value)),
                   !.value = Primitive(t.value)])

\* Returns the index of the declaration.
parseAndAddUntypedPrimitiveTypeDeclaration(s) ==
  Then(getIdentifier(s), LAMBDA t :
    IF Declared(t.domain.types, t.value) # {} THEN Return(t, First(Declared(t.domain.types, t.value)))
    ELSE [t EXCEPT !.domain.types = Append(@, PrimitiveTypeDeclaration(t.value)),
                   !.value = Len(t.domain.types) + 1])

WithParent(types, flagged, parent) ==
  [i \in DOMAIN types |->
     IF i \in flagged THEN [types[i] EXCEPT !.parents = Append(@, types[parent].name)] ELSE types[i]]
Inherit(s, flagged, parent) == skipWhiteSpace([s EXCEPT !.domain.types = WithParent(@, flagged, parent)])

\* The loop of parseAndAddPrimitiveTypeDeclarations: the types flagged since the
\* last parent get the next one.
RECURSIVE PrimitiveTypes(_, _)
PrimitiveTypes(s, flagged) ==
  IF Breaks(s) THEN throw(s) ELSE IF Closes(s) THEN s
  ELSE Then(parseAndAddUntypedPrimitiveTypeDeclaration(s), LAMBDA child :
       Then(testAndSkipCharacter(skipWhiteSpace(child), "-"), LAMBDA dash :
         IF dash.value = FALSE THEN PrimitiveTypes(dash, flagged \cup {child.value})
         ELSE Then(parseAndAddUntypedPrimitiveTypeDeclaration(dash), LAMBDA parent :
                PrimitiveTypes(Inherit(parent, flagged \cup {child.value}, parent.value), {}))))

parseAndAddPrimitiveTypeDeclarations(s) == PrimitiveTypes(skipWhiteSpace(s), {})

RECURSIVE EitherNames(_, _)
EitherNames(s, names) ==
  IF Breaks(s) THEN throw(s)
  ELSE IF Closes(s) THEN Return(expect(s, <<")">>), Either(names))
  ELSE Then(parsePrimitiveType(s), LAMBDA t : EitherNames(skipWhiteSpace(t), names \o t.value.names))

parseType(s) ==
  Then(skipWhiteSpace(s), LAMBDA t :
    IF Breaks(t) THEN throw(t)
    ELSE IF Current(t) # "(" THEN parsePrimitiveType(t)
    ELSE Then(testIdentifierAndSkip(expect(t, <<"(">>), <<"either">>), LAMBDA either :
           IF either.value = TRUE THEN EitherNames(skipWhiteSpace(either), <<>>) ELSE throw(either)))

Untyped(declarations) == declarations # <<>> /\ declarations[Len(declarations)].type = <<>>
SetTypes(declarations, since, type) ==
  [i \in DOMAIN declarations |->
     IF i >= since THEN [declarations[i] EXCEPT !.type = <<type>>] ELSE declarations[i]]

\* Both loops over typed lists (VariableDeclaration.cpp, 45-70, and
\* ConstantDeclaration.cpp, 36-63): since is where the group without a type
\* begins.  Returns the declarations.
RECURSIVE TypedList(_, _, _, _)
TypedList(s, isVariable, declarations, since) ==
  IF Breaks(s) THEN throw(s)
  ELSE IF Closes(s)
  THEN IF s.domain.types # <<>> /\ Untyped(declarations) THEN throw(s) ELSE Return(s, declarations)
  ELSE Then(getIdentifier(IF isVariable THEN expect(s, <<"?">>) ELSE s), LAMBDA name :
       Then(testAndSkipCharacter(skipWhiteSpace(name), "-"), LAMBDA dash :
         LET more == Append(declarations, [name |-> name.value, type |-> <<>>])
         IN  IF name.value = <<"-">> THEN throw(dash)
             ELSE IF dash.value = FALSE THEN TypedList(dash, isVariable, more, since)
             ELSE Then(IF isVariable THEN parseType(dash) ELSE parsePrimitiveType(dash), LAMBDA t :
                    TypedList(skipWhiteSpace(t), isVariable, SetTypes(more, since, t.value), Len(more) + 1))))

parseAndAddVariableDeclarations(s, declarations) ==
  TypedList(skipWhiteSpace(s), TRUE, declarations, Len(declarations) + 1)
parseAndAddConstantDeclarations(s, declarations) ==
  TypedList(skipWhiteSpace(s), FALSE, declarations, Len(declarations) + 1)

parseAndAddPredicateDeclaration(s) ==
  Then(getIdentifier(expect(s, <<"(">>)), LAMBDA name :
  Then(parseAndAddVariableDeclarations(name, <<>>), LAMBDA list :
    Then(expect(list, <<")">>), LAMBDA t :
      [t EXCEPT !.domain.predicates = Append(@, [name |-> name.value, parameters |-> list.value])])))

RECURSIVE parseAndAddPredicateDeclarations(_)
parseAndAddPredicateDeclarations(s) ==
  IF Breaks(s) THEN throw(s) ELSE IF Closes(s) THEN s
  ELSE parseAndAddPredicateDeclarations(skipWhiteSpace(parseAndAddPredicateDeclaration(s)))

-----------------------------------------------------------------------------
requirementNameMap ==
  {"strips", "typing", "negative-preconditions", "disjunctive-preconditions", "equality",
   "existential-preconditions", "universal-preconditions", "quantified-preconditions",
   "conditional-effects", "fluents", "numeric-fluents", "object-fluents", "adl", "durative-actions",
   "duration-inequalities", "continuous-effects", "derived-predicates", "timed-initial-literals",
   "preferences", "constraints", "action-costs"}

\* Returns the requirements of a section, where unknown ones are left out.
RECURSIVE Requirements(_, _)
Requirements(s, requirements) ==
  IF Breaks(s) THEN throw(s)
  ELSE IF Closes(s)
  THEN Return(expect(s, <<")">>), IF requirements = <<>> THEN <<"strips">> ELSE requirements)
  ELSE Then(getIdentifier(expect(s, <<":">>)), LAMBDA name :
         Requirements(skipWhiteSpace(name),
           IF name.value \in {<<r>> : r \in requirementNameMap} THEN requirements \o name.value ELSE requirements))

hasRequirement(requirements, requirement) == \E i \in DOMAIN requirements : requirements[i] = requirement

\* Faulty variant of checkRequirement: compatibility mode always adds it.
checkRequirementTwice(s, requirement) ==
  IF s.threw \/ (s.mode = "strict" /\ hasRequirement(s.domain.requirements, requirement)) THEN s
  ELSE IF s.mode = "strict" THEN throw(s)
  ELSE [s EXCEPT !.domain.requirements = Append(@, requirement)]

\* On the domain's requirements.
checkRequirement(s, requirement) ==
  IF s.threw \/ hasRequirement(s.domain.requirements, requirement) THEN s
  ELSE IF s.mode = "strict" THEN throw(s)
  ELSE [s EXCEPT !.domain.requirements = Append(@, requirement)]

RECURSIVE addRequirementsUnique(_, _)
addRequirementsUnique(requirements, added) ==
  IF added = <<>> THEN requirements
  ELSE addRequirementsUnique(IF hasRequirement(requirements, Head(added)) THEN requirements
                             ELSE Append(requirements, Head(added)), Tail(added))

Implied(requirements, requirement, added) ==
  IF hasRequirement(requirements, requirement) THEN addRequirementsUnique(requirements, added)
  ELSE requirements

\* Domain.cpp, lines 186-222, in this order.
computeDerivedRequirements(requirements) ==
  LET adl   == Implied(requirements, "adl",
                 <<"strips", "typing", "negative-preconditions", "disjunctive-preconditions", "equality",
                   "quantified-preconditions", "conditional-effects">>)
      quant == Implied(adl, "quantified-preconditions",
                       <<"existential-preconditions", "universal-preconditions">>)
      fluent == Implied(quant, "fluents", <<"numeric-fluents", "object-fluents">>)
  IN  Implied(fluent, "timed-initial-literals", <<"durative-actions">>)
=============================================================================
