------------------------------- MODULE Written -------------------------------
(***************************************************************************)
(* The reference for the parser: descriptions as their authors mean them,  *)
(* how they are written down, when they are well-formed and what they      *)
(* mean.  A name is a sequence of characters.  A declaration list is a     *)
(* sequence of groups [names, type], as in "a b - t"; a term is [variable, *)
(* name]; an expression has args, and parameters, name or terms.           *)
(***************************************************************************)
EXTENDS Integers, Sequences, SequencesExt

Spaced(texts) == FlattenSeq([i \in DOMAIN texts |-> <<" ">> \o texts[i]])
InOrder(w, texts) == Spaced(IF w.backward THEN Reverse(texts) ELSE texts)
Quantifier == {"exists", "forall"}

TypeText(type) == IF type.either THEN <<"(", "either">> \o Spaced(type.names) \o <<")">> ELSE type.names[1]
GroupsText(groups, mark) ==
  FlattenSeq([i \in DOMAIN groups |->
    Spaced([j \in DOMAIN groups[i].names |-> mark \o groups[i].names[j]])
    \o IF groups[i].type = <<>> THEN <<>> ELSE <<" ", "-", " ">> \o TypeText(groups[i].type[1])])
ParametersText(groups) == <<"(">> \o GroupsText(groups, <<"?">>) \o <<")">>
TermsText(terms) ==
  Spaced([i \in DOMAIN terms |-> IF terms[i].variable THEN <<"?">> \o terms[i].name ELSE terms[i].name])

RECURSIVE ExpressionText(_)
ExpressionText(e) ==
  LET arguments == Spaced([i \in DOMAIN e.args |-> ExpressionText(e.args[i])])
  IN  <<"(">> \o (CASE e.op = "atom"       -> e.name \o TermsText(e.terms)
                    [] e.op = "="          -> <<"=">> \o TermsText(e.terms)
                    [] e.op \in Quantifier -> <<e.op, " ">> \o ParametersText(e.parameters) \o arguments
                    [] OTHER               -> <<e.op>> \o arguments) \o <<")">>

\* Sections and the parts of an action are left out if there is nothing to say.
SectionText(keyword, text) == IF text = <<>> THEN <<>> ELSE << <<"(", ":", keyword>> \o text \o <<")">> >>
PartText(keyword, optional) ==
  [i \in DOMAIN optional |-> <<":", keyword, " ">> \o ExpressionText(optional[i])]
\* Old descriptions declare the parameters after the first group as "vars".
ActionText(w, a) ==
  LET old == w.old /\ Len(a.parameters) > 1
      list(keyword, groups) == << <<":", keyword, " ">> \o ParametersText(groups) >>
  IN  <<"(", ":", "action", " ">> \o a.name
      \o InOrder(w, (IF old THEN list("parameters", SubSeq(a.parameters, 1, 1)) \o list("vars", Tail(a.parameters))
                     ELSE list("parameters", a.parameters))
                \o PartText("precondition", a.precondition) \o PartText("effect", a.effect)) \o <<")">>
RequirementText(rs) == SectionText("requirements", Spaced([i \in DOMAIN rs |-> <<":", rs[i]>>]))
FactsText(facts) == <<" ">> \o Spaced([i \in DOMAIN facts |-> ExpressionText(facts[i])])

Define(what, name, text) == <<"(", "define", " ", "(", what, " ">> \o name \o <<")">> \o text \o <<")">>
DomainText(w) ==
  LET d == w.domain
  IN  Define("domain", d.name, InOrder(w,
        RequirementText(d.requirements) \o SectionText("types", GroupsText(d.types, <<>>))
        \o SectionText("constants", GroupsText(d.constants, <<>>))
        \o SectionText("predicates", Spaced([i \in DOMAIN d.predicates |->
             <<"(">> \o d.predicates[i].name \o GroupsText(d.predicates[i].parameters, <<"?">>) \o <<")">>]))
        \o [i \in DOMAIN d.actions |-> ActionText(w, d.actions[i])]))
ProblemText(w, p) ==
  Define("problem", p.name, InOrder(w,
    << <<"(", ":", "domain", " ">> \o p.domain \o <<")">> >>
    \o RequirementText(p.requirements) \o SectionText("objects", GroupsText(p.objects, <<>>))
    \o FlattenSeq([i \in DOMAIN p.init |-> SectionText("init", FactsText(p.init[i]))])
    \o FlattenSeq([i \in DOMAIN p.goal |-> SectionText("goal", <<" ">> \o ExpressionText(p.goal[i]))])))

\* Sections in either order, the problem before or after the domain; old texts
\* name a package first; the text may lack its last characters.
Text(w) ==
  LET domain  == DomainText(w)
      problem == Spaced([i \in DOMAIN w.problem |-> ProblemText(w, w.problem[i])])
      package == IF w.old THEN <<"(", "in-package", " ", "(", ")", ")">> ELSE <<>>
      text    == package \o IF w.backward THEN problem \o <<" ">> \o domain ELSE domain \o problem
  IN  SubSeq(text, 1, Len(text) - w.cut)

-----------------------------------------------------------------------------
DeclarationsMeant(groups) ==
  FlattenSeq([i \in DOMAIN groups |->
    [j \in DOMAIN groups[i].names |-> [name |-> groups[i].names[j], type |-> groups[i].type]]])

\* The least set with the types and their parents.
RECURSIVE Above(_, _)
Above(types, names) ==
  LET more == names \cup UNION {ToSet(t.parents) : t \in {u \in types : u.name \in names}}
  IN  IF more = names THEN names ELSE Above(types, more)

\* An argument of several types fits only a parameter of several types.
Fits(types, type, parameter) ==
  /\ type.either /\ ~parameter.either => Len(type.names) = 1
  /\ \A t \in ToSet(type.names) : \E p \in ToSet(parameter.names) : p \in Above(types, {t}) \cup {<<"object">>}

\* The innermost declaration of a variable; a constant before an object.
TermMeant(t, scope) ==
  LET IsNamed(d) == d.name = t.name
      found(ds)  == SelectInSeq(ds, IsNamed)
      Declares(ds) == found(ds) # 0
      lists == IF t.variable THEN scope.layers ELSE <<scope.objects, scope.constants>>
      list  == SelectLastInSeq(lists, Declares)
  IN  IF list = 0 THEN <<>>
      ELSE <<[kind |-> IF t.variable THEN "variable" ELSE "constant",
              layer |-> IF t.variable THEN list ELSE 2 - list,
              index |-> found(lists[list]), declaration |-> lists[list][found(lists[list])]]>>

\* With gaps, an undeclared variable just before a constant is passed over.
TermsMeant(terms, scope) ==
  LET meant == [i \in DOMAIN terms |-> TermMeant(terms[i], scope)]
      Gap(i) == /\ scope.gaps /\ i \in 1 .. Len(terms) - 1 /\ terms[i].variable /\ meant[i] = <<>>
                /\ ~terms[i + 1].variable
      kept  == SelectSeq([i \in DOMAIN terms |-> i], LAMBDA i : ~Gap(i))
  IN  IF \E i \in ToSet(kept) : meant[i] = <<>> THEN <<>>
      ELSE <<[i \in DOMAIN kept |-> meant[kept[i]][1]]>>

AtomMeant(e, terms, scope) ==
  LET Suits(p) == /\ p.name = e.name /\ Len(p.parameters) = Len(terms)
                  /\ \A i \in DOMAIN terms : terms[i].declaration.type # <<>> =>
                       Fits(scope.types, terms[i].declaration.type[1], p.parameters[i].type[1])
      first == SelectInSeq(scope.predicates, Suits)
  IN  IF first = 0 THEN <<>> ELSE <<[op |-> "atom", declaration |-> first, terms |-> terms]>>

\* What may stand where, and what its arguments are then.
Allowed == [precondition |-> {"and", "or", "not", "imply", "exists", "forall", "atom", "="},
            effect |-> {"and", "forall", "when", "not", "atom", "="},
            conditional |-> {"and", "not", "atom"}, literal |-> {"not", "atom"}, atomic |-> {"atom", "="}]
Inner(place, op, i) ==
  CASE place = "precondition" -> "precondition"
    [] place # "precondition" /\ op = "not"  -> "atomic"
    [] op = "when" -> IF i = 1 THEN "precondition" ELSE "conditional"
    [] place = "conditional" /\ op = "and" -> "literal"
    [] OTHER -> place

\* <<>> if the expression is not well-formed, given what its arguments and its
\* terms mean.
TreeMeant(e, layer, args, terms, scope) ==
  CASE <<>> \in ToSet(args)       -> <<>>
    [] <<>> \notin ToSet(args) /\ e.op \in Quantifier ->
         <<[op |-> e.op, parameters |-> layer, args |-> FlattenSeq(args)]>>
    [] e.op \in {"atom", "="} /\ terms = <<>> -> <<>>
    [] e.op = "atom" /\ terms # <<>> -> AtomMeant(e, terms[1], scope)
    [] e.op = "=" /\ terms # <<>> -> IF Len(terms[1]) # 2 THEN <<>> ELSE <<[op |-> "=", terms |-> terms[1]]>>
    [] OTHER -> <<[op |-> e.op, args |-> FlattenSeq(args)]>>

RECURSIVE Meant(_, _, _)
Meant(e, place, scope) ==
  LET layer == DeclarationsMeant(e.parameters)
      inner == IF e.op \in Quantifier THEN [scope EXCEPT !.layers = Append(@, layer)] ELSE scope
  IN  IF e.op \notin Allowed[place] THEN <<>>
      ELSE TreeMeant(e, layer, [i \in DOMAIN e.args |-> Meant(e.args[i], Inner(place, e.op, i), inner)],
                     TermsMeant(e.terms, scope), scope)

RECURSIVE QuantifiedGroups(_)
QuantifiedGroups(e) == (IF e.op \in Quantifier THEN e.parameters ELSE <<>>)
                    \o FlattenSeq([i \in DOMAIN e.args |-> QuantifiedGroups(e.args[i])])
InExpressions(es) == FlattenSeq([i \in DOMAIN es |-> QuantifiedGroups(es[i])])

\* All groups with a type of their own, apart from the types' parents.
AllGroups(w) ==
  LET d == w.domain
  IN  d.constants \o FlattenSeq([i \in DOMAIN d.predicates |-> d.predicates[i].parameters])
      \o FlattenSeq([i \in DOMAIN d.actions |-> d.actions[i].parameters
           \o InExpressions(d.actions[i].precondition) \o InExpressions(d.actions[i].effect)])
      \o FlattenSeq([i \in DOMAIN w.problem |-> w.problem[i].objects \o InExpressions(w.problem[i].goal)])
TypesUsed(w) == UNION {ToSet(g.type[1].names) : g \in {h \in ToSet(AllGroups(w)) : h.type # <<>>}}
TypesDeclared(w) ==
  UNION {ToSet(g.names) \cup (IF g.type = <<>> THEN {} ELSE ToSet(g.type[1].names)) : g \in ToSet(w.domain.types)}

\* Every type with its parents, among them object if it is mentioned.
TypesMeant(w) ==
  {[name |-> t, parents |-> FlattenSeq([i \in DOMAIN w.domain.types |->
      IF t \in ToSet(w.domain.types[i].names) /\ w.domain.types[i].type # <<>>
      THEN w.domain.types[i].type[1].names ELSE <<>>])] : t \in TypesDeclared(w) \cup TypesUsed(w)}

\* All declarations have a type or none has; strict mode demands that it is
\* declared and that :typing itself is required.
TypesAgree(w, mode) ==
  /\ mode = "strict" => /\ TypesUsed(w) \subseteq TypesDeclared(w) \cup {<<"object">>}
                        /\ w.domain.types # <<>> => "typing" \in ToSet(w.domain.requirements)
  /\ LET typed == {g.type # <<>> : g \in ToSet(AllGroups(w))}
     IN  typed \subseteq {w.domain.types # <<>> \/ TRUE \in typed}

Implies == [r \in {"adl", "quantified-preconditions", "fluents", "timed-initial-literals"} |->
  CASE r = "adl" -> {"strips", "typing", "negative-preconditions", "disjunctive-preconditions", "equality",
                     "quantified-preconditions", "existential-preconditions", "universal-preconditions",
                     "conditional-effects"}
    [] r = "quantified-preconditions" -> {"existential-preconditions", "universal-preconditions"}
    [] r = "fluents" -> {"numeric-fluents", "object-fluents"}
    [] r = "timed-initial-literals" -> {"durative-actions"}]
\* Unknown requirements are ignored.
RequirementsMeant(requirements) ==
  LET known == ToSet(requirements) \ {"unknown"}
  IN  IF requirements # <<>> /\ known = {} THEN {"strips"} ELSE known

All(es, place, scope) == [i \in DOMAIN es |-> Meant(es[i], place, scope)]
ActionMeant(a, scope) ==
  [name |-> a.name, parameters |-> scope.layers[1],
   precondition |-> All(a.precondition, "precondition", scope), effect |-> All(a.effect, "effect", scope)]
ProblemMeant(p, scope) ==
  [name |-> p.name, requirements |-> RequirementsMeant(p.requirements), objects |-> scope.objects,
   initialState |-> All(FlattenSeq(p.init), "literal", scope), goal |-> All(p.goal, "precondition", scope)]

\* What is wrong with a description as a whole, or with an expression in it.
IllFormed(w, mode, actions, problems) ==
  \/ w.cut # 0 \/ ~TypesAgree(w, mode) \/ (w.old /\ mode = "strict") \/ Len(w.problem) > 1
  \/ \E a \in ToSet(actions) : <<>> \in ToSet(a.precondition \o a.effect)
  \/ \E p \in ToSet(problems) : <<>> \in ToSet(p.initialState \o p.goal)
  \/ \E p \in ToSet(w.problem) : p.domain # w.domain.name \/ Len(p.init) # 1 \/ p.goal = <<>>

\* The requirements with those they imply.
WithImplied(requirements) == requirements \cup UNION {Implies[r] : r \in requirements \cap DOMAIN Implies}

DescriptionMeant(w, mode, scope, actions, problems) ==
  IF IllFormed(w, mode, actions, problems) THEN <<>>
  ELSE <<[domain |->
            [name |-> w.domain.name, types |-> scope.types, constants |-> scope.constants,
             predicates |-> scope.predicates,
             requirements |-> WithImplied(RequirementsMeant(w.domain.requirements)
                                         \cup (IF w.domain.types # <<>> THEN {"typing"} ELSE {})),
             actions |-> [i \in DOMAIN actions |-> [actions[i] EXCEPT
                            !.precondition = FlattenSeq(@), !.effect = FlattenSeq(@)]]],
          problem |-> [i \in DOMAIN problems |-> [problems[i] EXCEPT
                         !.initialState = FlattenSeq(@), !.goal = FlattenSeq(@)]]]>>

\* What the description means, or <<>> if it is not well-formed.  Compatibility
\* mode takes old texts, declares missing types and requires :typing itself.
Meaning(w, mode, gaps) ==
  LET scope == [types |-> TypesMeant(w), constants |-> DeclarationsMeant(w.domain.constants),
                predicates |-> [i \in DOMAIN w.domain.predicates |->
                  [name |-> w.domain.predicates[i].name,
                   parameters |-> DeclarationsMeant(w.domain.predicates[i].parameters)]],
                objects |-> <<>>, layers |-> <<>>, gaps |-> gaps]
  IN  DescriptionMeant(w, mode, scope,
        [i \in DOMAIN w.domain.actions |-> ActionMeant(w.domain.actions[i],
           [scope EXCEPT !.layers = <<DeclarationsMeant(w.domain.actions[i].parameters)>>])],
        [i \in DOMAIN w.problem |-> ProblemMeant(w.problem[i],
           [scope EXCEPT !.objects = DeclarationsMeant(w.problem[i].objects)])])
=============================================================================
