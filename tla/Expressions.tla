----------------------------- MODULE Expressions -----------------------------
(***************************************************************************)
(* The parsers of terms, formulas, effects and facts.  An optional result  *)
(* is <<>> or <<x>>; a parser given as an argument in the code is given    *)
(* here by its name.  Trees are records of op and args (also parameters,   *)
(* terms or declaration); a variable keeps the layer of the stack and the  *)
(* index where it was found.                                               *)
(***************************************************************************)
EXTENDS Declarations

Absent(s) == Return(s, <<>>)
\* What is done with a result that must not be missing.
Given(s, Do(_)) == IF s.threw \/ s.value = <<>> THEN throw(s) ELSE Do(s)

\* VariableStack.cpp: the innermost layer that declares the name.
findVariableDeclaration(stack, name) ==
  LET layers == {l \in DOMAIN stack : Declared(stack[l], name) # {}}
      layer  == CHOOSE l \in layers : \A k \in layers : k <= l
      index  == First(Declared(stack[layer], name))
  IN  IF layers = {} THEN <<>>
      ELSE <<[kind |-> "variable", layer |-> layer, index |-> index, declaration |-> stack[layer][index]]>>

\* A name that is not declared leaves the tokenizer behind it.
parseVariable(s) ==
  Then(testAndSkip(s, <<"?">>), LAMBDA t :
    IF t.value = FALSE THEN Absent(s)
    ELSE Then(getIdentifier(t), LAMBDA name :
           Return(name, findVariableDeclaration(name.stack, name.value))))

ConstantOf(declarations, name, layer) ==
  LET found == Declared(declarations, name)
  IN  IF found = {} THEN <<>>
      ELSE <<[kind |-> "constant", layer |-> layer, index |-> First(found),
              declaration |-> declarations[First(found)]]>>

\* Constants of the domain hide objects of the problem.
findConstant(s, name) ==
  LET constant == ConstantOf(s.domain.constants, name, 0)
  IN  IF constant # <<>> \/ s.problem = <<>> THEN constant
      ELSE ConstantOf(s.problem[1].objects, name, 1)

parseConstant(s) == Then(getIdentifier(s), LAMBDA name : Return(name, findConstant(name, name.value)))

parseTerm(s) ==
  Then(parseVariable(skipWhiteSpace(s)), LAMBDA variable :
    IF variable.value # <<>> THEN variable ELSE parseConstant(variable))

\* Returns an optional.
RECURSIVE Terms(_, _)
Terms(s, terms) ==
  IF Breaks(s) THEN throw(s) ELSE IF Closes(s) THEN Return(s, <<terms>>)
  ELSE Then(parseTerm(s), LAMBDA term :
         IF term.value = <<>> THEN term ELSE Terms(skipWhiteSpace(term), terms \o term.value))

\* The first declaration that fits, unless an assertion fails before.
FirstMatch(s, name, terms) ==
  LET fails(i) == Asserts(s.domain.types, name, terms, s.domain.predicates[i])
      tried == {i \in DOMAIN s.domain.predicates :
                  fails(i) \/ matches(s.domain.types, name, terms, s.domain.predicates[i])}
  IN  IF tried = {} THEN {} ELSE {First(tried)} \ {i \in tried : fails(i)}

parsePredicate(s) ==
  Then(testAndSkip(s, <<"(">>), LAMBDA open :
    IF open.value = FALSE THEN Absent(s)
    ELSE Then(getIdentifier(open), LAMBDA name :
         Then(Terms(skipWhiteSpace(name), <<>>), LAMBDA terms :
           IF terms.value = <<>> THEN Absent(s)
           ELSE IF FirstMatch(terms, name.value, terms.value[1]) = {} THEN throw(terms)
           ELSE Return(expect(terms, <<")">>),
                  <<[op |-> "atom", terms |-> terms.value[1],
                     declaration |-> First(FirstMatch(terms, name.value, terms.value[1]))]>>))))

-----------------------------------------------------------------------------
\* What is done after the opening parenthesis and the keyword of an expression,
\* if they are there; otherwise the code goes back.
After(s, id, Do(_)) ==
  Then(testAndSkip(s, <<"(">>), LAMBDA open :
    IF open.value = FALSE THEN Absent(s)
    ELSE Then(testIdentifierAndSkip(open, <<id>>), LAMBDA t : IF t.value = TRUE THEN Do(t) ELSE Absent(s)))
Close(s, expression) == Return(expect(s, <<")">>), <<expression>>)

parseEquals(s) ==
  After(s, "=", LAMBDA t :
    Given(parseTerm(skipWhiteSpace(t)), LAMBDA left :
    Given(parseTerm(left), LAMBDA right :
      Close(right, [op |-> "=", terms |-> left.value \o right.value]))))

parseAtomicFormula(s) ==
  Then(parseEquals(s), LAMBDA equals : IF equals.value # <<>> THEN equals ELSE parsePredicate(equals))

RECURSIVE Parse(_, _), Arguments(_, _, _)
Arguments(s, parser, arguments) ==
  IF Breaks(s) THEN throw(s) ELSE IF Closes(s) THEN Return(s, arguments)
  ELSE Given(Parse(parser, s), LAMBDA argument :
         Arguments(skipWhiteSpace(argument), parser, arguments \o argument.value))

parseNAry(s, id, parser) ==
  After(s, id, LAMBDA t :
    Then(Arguments(skipWhiteSpace(t), parser, <<>>), LAMBDA arguments :
      Close(arguments, [op |-> id, args |-> arguments.value])))

parseBinary(s, id, parserLeft, parserRight) ==
  After(s, id, LAMBDA t :
    Given(Parse(parserLeft, skipWhiteSpace(t)), LAMBDA left :
    Given(Parse(parserRight, left), LAMBDA right :
      Close(right, [op |-> id, args |-> left.value \o right.value]))))

parseNot(s, parser) ==
  After(s, "not", LAMBDA t :
    Given(Parse(parser, skipWhiteSpace(t)), LAMBDA argument :
      Close(argument, [op |-> "not", args |-> argument.value])))

\* Faulty variant of parseQuantified: the layer stays on the stack.
parseQuantifiedStays(s, id, parser) ==
  After(s, id, LAMBDA t :
    Then(parseAndAddVariableDeclarations(expect(t, <<"(">>), <<>>), LAMBDA parameters :
    Given(Parse(parser, [expect(parameters, <<")">>) EXCEPT !.stack = Append(@, parameters.value)]),
      LAMBDA argument :
        Close(argument, [op |-> id, parameters |-> parameters.value, args |-> argument.value]))))

\* The parameters are a layer of the stack while the argument is parsed.
parseQuantified(s, id, parser) ==
  After(s, id, LAMBDA t :
    Then(parseAndAddVariableDeclarations(expect(t, <<"(">>), <<>>), LAMBDA parameters :
    Given(Parse(parser, [expect(parameters, <<")">>) EXCEPT !.stack = Append(@, parameters.value)]),
      LAMBDA argument :
        Close([argument EXCEPT !.stack = s.stack],
              [op |-> id, parameters |-> parameters.value, args |-> argument.value]))))

\* Whether the expression begins with a keyword that is not supported.
Unsupported(s, keywords) ==
  LET Is(open) == open.threw \/ \E k \in keywords : testIdentifierAndReturn(open, <<k>>).value = TRUE
  IN  Is(expect(s, <<"(">>))

\* The alternatives in turn, each as <<parser, keyword, parsers of arguments>>.
Alternative(s, a) ==
  CASE a[1] = "nary"       -> parseNAry(s, a[2], a[3])
    [] a[1] = "binary"     -> parseBinary(s, a[2], a[3], a[4])
    [] a[1] = "quantified" -> parseQuantified(s, a[2], a[3])
    [] a[1] = "not"        -> parseNot(s, a[3])
    [] a[1] = "atom"       -> parseAtomicFormula(s)

RECURSIVE OneOf(_, _)
OneOf(s, alternatives) ==
  IF alternatives = <<>> THEN Absent(s)
  ELSE Then(Alternative(s, Head(alternatives)), LAMBDA t :
         IF t.value # <<>> THEN t ELSE OneOf(t, Tail(alternatives)))

Supported(s, keywords, alternatives) ==
  IF Unsupported(s, keywords) THEN throw(s) ELSE Given(OneOf(s, alternatives), LAMBDA t : t)

Formula == "parsePrecondition"
parsePreconditionBody(s) ==
  Supported(skipWhiteSpace(s), {"-", "*", "+", "/", ">", "<", ">=", "<="},
    <<<<"nary", "and", Formula>>, <<"nary", "or", Formula>>, <<"quantified", "exists", Formula>>, <<"quantified", "forall", Formula>>,
      <<"not", "not", Formula>>, <<"binary", "imply", Formula, Formula>>, <<"atom">>>>)

\* Back to where the expression begins if neither alternative applies.
parsePrecondition(s) ==
  IF Unsupported(s, {"preference"}) THEN throw(s)
  ELSE Then(OneOf(skipWhiteSpace(s), <<<<"nary", "and", Formula>>, <<"quantified", "forall", Formula>>>>), LAMBDA outer :
         IF outer.value # <<>> THEN outer ELSE parsePreconditionBody(seek(outer, s.position)))

Numeric == {"assign", "scale-up", "scale-down", "increase", "decrease"}
Literal == <<<<"not", "not", "parseAtomicFormula">>, <<"atom">>>>

parseEffectBody(s) == Supported(skipWhiteSpace(s), Numeric, Literal)
parseConditionalEffectBody(s) == Supported(skipWhiteSpace(s), Numeric \cup {"="}, Literal)

parseConditionalEffect(s) ==
  Then(OneOf(skipWhiteSpace(s), <<<<"nary", "and", "parseConditionalEffectBody">>>>), LAMBDA outer :
    IF outer.value # <<>> THEN outer ELSE parseConditionalEffectBody(outer))

parseEffect(s) ==
  Then(OneOf(skipWhiteSpace(s),
             <<<<"nary", "and", "parseEffect">>, <<"quantified", "forall", "parseEffect">>,
               <<"binary", "when", "parsePreconditionBody", "parseConditionalEffect">>>>), LAMBDA outer :
    IF outer.value # <<>> THEN outer ELSE parseEffectBody(outer))

\* An "at" fact without a matching predicate is refused as well.
parseFact(s) ==
  IF Unsupported(s, {"="}) THEN throw(s) ELSE OneOf(s, Literal)

Parse(parser, s) ==
  CASE s.threw -> s
    [] ~s.threw /\ parser = "parsePrecondition"          -> parsePrecondition(s)
    [] ~s.threw /\ parser = "parsePreconditionBody"      -> parsePreconditionBody(s)
    [] ~s.threw /\ parser = "parseEffect"                -> parseEffect(s)
    [] ~s.threw /\ parser = "parseConditionalEffect"     -> parseConditionalEffect(s)
    [] ~s.threw /\ parser = "parseConditionalEffectBody" -> parseConditionalEffectBody(s)
    [] ~s.threw /\ parser = "parseAtomicFormula"         -> parseAtomicFormula(s)
    [] ~s.threw /\ parser = "parseFact"                  -> parseFact(s)

\* parseInitialState.
InitialState(s) == Arguments(skipWhiteSpace(s), "parseFact", <<>>)
=============================================================================
