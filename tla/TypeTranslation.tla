--------------------------- MODULE TypeTranslation ---------------------------
(***************************************************************************)
(* What becomes of types: the facts and rules that the PDDL translator     *)
(* prints for them let every parameter range over some of the objects,     *)
(* while the parser checks arguments against the declared types.  Here     *)
(* both are applied to the descriptions that have been read.               *)
(***************************************************************************)
EXTENDS DescriptionParser

\* An object without a type, or a parameter, gets type("object").
TypeName(type) == IF type = <<>> THEN <<"object">> ELSE type[1].names[1]

translateTypes(domain) ==
  UNION {{<<domain.types[i].name, p>> : p \in ToSet(domain.types[i].parents)} : i \in DOMAIN domain.types}
translateConstants(constants) == {<<c.name, TypeName(c.type)>> : c \in ToSet(constants)}

\* The rule at the end of translateTypes, has(X, T2) :- has(X, T1), inherits(T1, T2).
RECURSIVE Inherited(_, _)
Inherited(has, inherits) ==
  LET more == has \cup {<<h[1], i[2]>> : <<h, i>> \in {p \in has \X inherits : p[1][2] = p[2][1]}}
  IN  IF more = has THEN has ELSE Inherited(more, inherits)

Constants(description) ==
  description.domain.constants \o FlattenSeq([i \in DOMAIN description.problem |-> description.problem[i].objects])
has(description) ==
  Inherited(translateConstants(Constants(description)), translateTypes(description.domain))

\* The tuples of objects for which a rule body over these parameters holds.
translateVariablesForRuleBody(parameters, facts) ==
  {os \in [DOMAIN parameters -> {h[1] : h \in facts}] :
     \A i \in DOMAIN parameters : <<os[i], TypeName(parameters[i].type)>> \in facts}

\* The heads of variable(...), one rule for each predicate.
translatePredicates(predicates, facts) ==
  UNION {{<<predicates[i].name, os>> : os \in translateVariablesForRuleBody(predicates[i].parameters, facts)} :
           i \in DOMAIN predicates}

\* The variable printed for an atom, where objects has a tuple for each layer.
translatePredicate(e, predicates, objects) ==
  <<predicates[e.declaration].name,
    [i \in DOMAIN e.terms |-> IF e.terms[i].kind = "variable" THEN objects[e.terms[i].layer][e.terms[i].index]
                              ELSE e.terms[i].declaration.name]>>

\* All variables that the rules for an expression mention.
RECURSIVE Mentioned(_, _, _, _)
Mentioned(e, predicates, facts, objects) ==
  CASE e.op = "atom" -> {translatePredicate(e, predicates, objects)}
    [] e.op \in Quantifier ->
         UNION {Mentioned(e.args[1], predicates, facts, Append(objects, os)) :
                  os \in translateVariablesForRuleBody(e.parameters, facts)}
    [] OTHER -> UNION {Mentioned(e.args[i], predicates, facts, objects) : i \in DOMAIN e.args}

MentionedInAction(action, predicates, facts) ==
  UNION {Mentioned(e, predicates, facts, <<os>>) :
           e \in ToSet(action.precondition \o action.effect),
           os \in translateVariablesForRuleBody(action.parameters, facts)}

ProblemExpressions(description) ==
  FlattenSeq([i \in DOMAIN description.problem |-> description.problem[i].initialState \o description.problem[i].goal])
MentionedInDescription(description) ==
  LET predicates == description.domain.predicates
      facts      == has(description)
  IN  UNION {MentionedInAction(a, predicates, facts) : a \in ToSet(description.domain.actions)}
      \cup UNION {Mentioned(e, predicates, facts, <<>>) : e \in ToSet(ProblemExpressions(description))}

-----------------------------------------------------------------------------
\* Parameters declared anywhere in a list of expressions, and whether "=" is used.
RECURSIVE Bound(_), UsesEquals(_)
Bound(e) == CASE e.op \in {"atom", "="} -> <<>>
              [] e.op \in Quantifier -> e.parameters \o Bound(e.args[1])
              [] OTHER -> FlattenSeq([i \in DOMAIN e.args |-> Bound(e.args[i])])
UsesEquals(e) == CASE e.op = "atom" -> FALSE [] e.op = "=" -> TRUE
                   [] OTHER -> \E i \in DOMAIN e.args : UsesEquals(e.args[i])

AllExpressions(description) ==
  FlattenSeq([i \in DOMAIN description.domain.actions |->
    description.domain.actions[i].precondition \o description.domain.actions[i].effect])
  \o ProblemExpressions(description)
AllParameters(description) ==
  FlattenSeq([i \in DOMAIN description.domain.predicates |-> description.domain.predicates[i].parameters])
  \o FlattenSeq([i \in DOMAIN description.domain.actions |-> description.domain.actions[i].parameters])
  \o FlattenSeq([i \in DOMAIN AllExpressions(description) |-> Bound(AllExpressions(description)[i])])

\* "=" is refused by the normalization, an object or a parameter of several types
\* by the translator.
Translatable(description) ==
  /\ \A e \in ToSet(AllExpressions(description)) : ~UsesEquals(e)
  /\ \A d \in ToSet(Constants(description) \o AllParameters(description)) :
       d.type # <<>> => ~d.type[1].either

\* An argument for a parameter of type object, which the parser lets everything stand
\* for, although the facts make it no object: its type does not inherit from object.
LacksObject(variable, description) ==
  \E p \in ToSet(description.domain.predicates) : \E i \in DOMAIN p.parameters :
    /\ <<p.name, Len(p.parameters)>> = <<variable[1], Len(variable[2])>>
    /\ p.parameters[i].type = <<Primitive(<<"object">>)>>
    /\ <<variable[2][i], <<"object">>>> \notin has(description)

\* Whatever the parser accepts as an argument, the printed rules agree, with one
\* exception only: each instance of a precondition, effect, fact or goal is about a
\* declared variable, unless an argument has to be an object and its type does not
\* inherit from object.  An instance that is not about a declared variable would have
\* no initial value, and no check that it has one value only.
AtomsAreVariables ==
  stage = "finished" /\ results[Len(results)] # <<>> =>
    LET description == results[Len(results)][1]
        declared    == translatePredicates(description.domain.predicates, has(description))
    IN  Translatable(description) =>
          \A v \in MentionedInDescription(description) : v \in declared \/ LacksObject(v, description)
=============================================================================
