------------------------------ MODULE ASTOutput ------------------------------
(***************************************************************************)
(* ASTOutput.h, behind the command "beautify": a syntax tree as text.      *)
(* Line breaks and indentation are a single space here: to the tokenizer   *)
(* they are the same.                                                      *)
(***************************************************************************)
EXTENDS Sequences, SequencesExt

\* Loops over arguments begin with a separator, print(std::vector) does not.
Separated(texts) == FlattenSeq([i \in DOMAIN texts |-> <<" ">> \o texts[i]])
printVector(texts) == IF texts = <<>> THEN <<>> ELSE Tail(Separated(texts))

printType(type) ==
  IF type.either THEN <<"(", "either">> \o Separated(type.names) \o <<")">> ELSE type.names[1]
Typed(name, type) == IF type = <<>> THEN name ELSE name \o <<" ", "-", " ">> \o printType(type[1])

printTerm(term) == IF term.kind = "variable" THEN <<"?">> \o term.declaration.name
                   ELSE term.declaration.name
printTerms(terms) == Separated([i \in DOMAIN terms |-> printTerm(terms[i])])

printConstantDeclaration(d) == Typed(d.name, d.type)
printVariableDeclarations(ds) ==
  printVector([i \in DOMAIN ds |-> <<"?">> \o Typed(ds[i].name, ds[i].type)])

\* One line for each parent; a type without one is a line of its own.
printPrimitiveTypeDeclaration(d) ==
  IF d.parents = <<>> THEN d.name
  ELSE printVector([i \in DOMAIN d.parents |-> d.name \o <<" ", "-", " ">> \o d.parents[i]])

printPredicateDeclaration(d) ==
  <<"(">> \o d.name \o Separated([i \in DOMAIN d.parameters |->
     <<"?">> \o Typed(d.parameters[i].name, d.parameters[i].type)]) \o <<")">>

\* Faulty variant of printExpression: the parameters lose their types.
RECURSIVE printExpressionUntyped(_, _)
printExpressionUntyped(e, predicates) ==
  LET sub == [i \in DOMAIN e.args |-> printExpressionUntyped(e.args[i], predicates)]
      parameters == [i \in DOMAIN e.parameters |-> [e.parameters[i] EXCEPT !.type = <<>>]]
  IN  CASE e.op = "atom" -> <<"(">> \o predicates[e.declaration].name \o printTerms(e.terms) \o <<")">>
        [] e.op = "="    -> <<"(", "=">> \o printTerms(e.terms) \o <<")">>
        [] e.op \in {"exists", "forall"} ->
             <<"(", e.op, " ", "(">> \o printVariableDeclarations(parameters) \o <<")">> \o Separated(sub) \o <<")">>
        [] OTHER -> <<"(", e.op>> \o Separated(sub) \o <<")">>

RECURSIVE printExpression(_, _)
printExpression(e, predicates) ==
  LET sub == [i \in DOMAIN e.args |-> printExpression(e.args[i], predicates)]
  IN  CASE e.op = "atom" -> <<"(">> \o predicates[e.declaration].name \o printTerms(e.terms) \o <<")">>
        [] e.op = "="    -> <<"(", "=">> \o printTerms(e.terms) \o <<")">>
        [] e.op \in {"exists", "forall"} ->
             <<"(", e.op, " ", "(">> \o printVariableDeclarations(e.parameters) \o <<")">>
               \o Separated(sub) \o <<")">>
        [] OTHER -> <<"(", e.op>> \o Separated(sub) \o <<")">>

\* A section of declarations is left out if it is empty.
Section(keyword, texts) ==
  IF texts = <<>> THEN <<>> ELSE <<" ", "(", ":", keyword, " ">> \o printVector(texts) \o <<")">>
\* A part of an action, as an optional.
Part(keyword, texts) == IF texts = <<>> THEN <<>> ELSE <<" ", ":", keyword, " ">> \o texts[1]

printAction(action, predicates) ==
  LET expression(e) == printExpression(e, predicates)
  IN  <<"(", ":", "action", " ">> \o action.name
      \o Part("parameters", IF action.parameters = <<>> THEN <<>>
                            ELSE << <<"(">> \o printVariableDeclarations(action.parameters) \o <<")">> >>)
      \o Part("precondition", [i \in DOMAIN action.precondition |-> expression(action.precondition[i])])
      \o Part("effect", [i \in DOMAIN action.effect |-> expression(action.effect[i])])
      \o <<")">>

printRequirements(rs) == Section("requirements", [i \in DOMAIN rs |-> <<":", rs[i]>>])

printDomain(domain) ==
  LET type(d) == printPrimitiveTypeDeclaration(d)
      constant(d) == printConstantDeclaration(d)
      predicate(d) == printPredicateDeclaration(d)
      action(a) == printAction(a, domain.predicates)
  IN  <<"(", "define", " ", "(", "domain", " ">> \o domain.name \o <<")">>
      \o printRequirements(domain.requirements)
      \o Section("types", [i \in DOMAIN domain.types |-> type(domain.types[i])])
      \o Section("constants", [i \in DOMAIN domain.constants |-> constant(domain.constants[i])])
      \o Section("predicates", [i \in DOMAIN domain.predicates |-> predicate(domain.predicates[i])])
      \o Separated([i \in DOMAIN domain.actions |-> action(domain.actions[i])]) \o <<")">>

printProblem(problem, domain) ==
  LET constant(d) == printConstantDeclaration(d)
      expression(e) == printExpression(e, domain.predicates)
  IN  <<"(", "define", " ", "(", "problem", " ">> \o problem.name \o <<")", " ", "(", ":", "domain", " ">>
      \o domain.name \o <<")">>
      \o printRequirements(problem.requirements)
      \o Section("objects", [i \in DOMAIN problem.objects |-> constant(problem.objects[i])])
      \o Section("init", [i \in DOMAIN problem.initialState |-> expression(problem.initialState[i])])
      \o Section("goal", [i \in DOMAIN problem.goal |-> expression(problem.goal[i])]) \o <<")">>

\* The problem is <<>> or <<problem>>.
printDescription(domain, problem) ==
  printDomain(domain) \o <<"\n">>
  \o IF problem = <<>> THEN <<>> ELSE <<"\n">> \o printProblem(problem[1], domain) \o <<"\n">>
=============================================================================
