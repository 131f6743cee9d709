-------------------------- MODULE DescriptionParser --------------------------
(***************************************************************************)
(* parseDescription: the sections of a text are looked for first and read  *)
(* afterwards, in a fixed order, from the positions noted down.  A step is *)
(* one section.  The text is read in strict and in compatibility mode, and *)
(* what has been read is printed ("beautify") and read once more.          *)
(***************************************************************************)
EXTENDS Expressions, Written, ASTOutput

CONSTANTS Descriptions   \* what the authors have written

Unset == -1   \* InvalidStreamPosition

VARIABLES written,    \* the description
          s,          \* the context and the tokenizer
          stage,      \* the section to be looked for or read next
          positions,  \* of domain and problem in the text, of the sections in them
          actions,    \* the positions of the actions not read yet
          results     \* of the passes so far: <<>> or <<description>>
vars == <<written, s, stage, positions, actions, results>>

NoPositions == [k \in {"domain", "problem", "requirements", "types", "constants", "predicates",
                       "objects", "init", "goal"} |-> Unset]
NewDomain   == [name |-> <<>>, requirements |-> <<>>, types |-> <<>>, constants |-> <<>>,
                predicates |-> <<>>, actions |-> <<>>]
NewProblem  == [name |-> <<>>, requirements |-> <<>>, objects |-> <<>>, initialState |-> <<>>, goal |-> <<>>]
Context(text, mode) ==
  [content |-> text, position |-> 0, threw |-> FALSE, value |-> FALSE, mode |-> mode,
   domain |-> NewDomain, problem |-> <<>>, stack |-> <<>>]

Init ==
  /\ written \in Descriptions /\ s = Context(Text(written), "strict")
  /\ stage = "description" /\ positions = NoPositions /\ actions = <<>> /\ results = <<>>

RECURSIVE SectionEnd(_, _, _)
SectionEnd(content, p, openParentheses) ==
  IF openParentheses = 0 \/ p >= Len(content) THEN IF openParentheses = 0 THEN p ELSE Unset
  ELSE SectionEnd(content, p + 1, openParentheses + (CASE content[p + 1] = "(" -> 1
                                                       [] content[p + 1] = ")" -> -1 [] OTHER -> 0))
skipSection(t) ==
  LET end == SectionEnd(t.content, t.position, 1)
  IN  IF t.threw \/ end = Unset THEN throw(t) ELSE seek(t, end)

expects(t, texts) == FoldLeft(expect, t, texts)

\* The next step with what has been read, unless an exception was thrown.
Go(t, next) == s' = t /\ stage' = IF t.threw THEN "failed" ELSE next

\* One turn of the loop in DescriptionParser::findSections.
FindSection ==
  LET start == skipWhiteSpace(s)
      open  == expect(start, <<"(">>)
      legacy == open.mode = "compatibility" /\ testAndReturn(open, <<"in-package">>).value = TRUE
      define == expects(open, << <<"define">>, <<"(">> >>)
      which == IF testAndSkip(define, <<"domain">>).value = TRUE THEN "domain" ELSE "problem"
      t     == testAndSkip(define, <<which>>)
      fails == t.value = FALSE \/ positions[which] # Unset
  IN  /\ stage = "description" /\ ~atEnd(start)
      /\ positions' = IF legacy \/ fails THEN positions ELSE [positions EXCEPT ![which] = start.position]
      /\ Go(IF legacy THEN skipSection(open) ELSE IF fails THEN throw(t) ELSE skipSection(skipSection(t)),
            "description")
      /\ UNCHANGED <<written, actions, results>>

\* "(define (domain name)" or the same for the problem.
Header(t, keyword) ==
  Then(getIdentifier(expects(t, << <<"(">>, <<"define">>, <<"(">>, <<keyword>> >>)), LAMBDA name :
    Return(skipWhiteSpace(expect(name, <<")">>)), name.value))

BeginDomain ==
  /\ stage = "description" /\ atEnd(skipWhiteSpace(s))
  /\ IF positions["domain"] = Unset THEN Go(throw(s), "failed")
     ELSE Go(Then(Header(seek(s, positions["domain"]), "domain"), LAMBDA header :
                    [header EXCEPT !.domain.name = header.value]), "domain sections")
  /\ UNCHANGED <<written, positions, actions, results>>

\* A chain of testIdentifierAndSkip: a failed test may have skipped something.
RECURSIVE Keyword(_, _)
Keyword(t, keywords) ==
  IF keywords = <<>> THEN Absent(t)
  ELSE Then(testIdentifierAndSkip(t, <<Head(keywords)>>), LAMBDA u :
         IF u.value = TRUE THEN Return(u, <<Head(keywords)>>) ELSE Keyword(u, Tail(keywords)))

SectionKeyword(t, keywords) ==
  Keyword(expects(t, << <<"(">>, <<":">> >>), keywords)

\* Domain.cpp, lines 106-151; other sections are unknown or not supported.
FindDomainSection ==
  LET found == SectionKeyword(s, <<"requirements", "types", "constants", "predicates", "action">>)
      name  == found.value[1]
      twice == name # "action" /\ positions[name] # Unset
  IN  /\ stage = "domain sections"
      /\ IF Closes(s) THEN Go(expect(s, <<")">>), "requirements") /\ UNCHANGED <<positions, actions>>
         ELSE IF Breaks(s) \/ found.threw \/ found.value = <<>> \/ twice
         THEN Go(throw(s), "failed") /\ UNCHANGED <<positions, actions>>
         ELSE /\ Go(skipWhiteSpace(skipSection(found)), "domain sections")
              /\ IF name = "action" THEN actions' = Append(actions, s.position) /\ UNCHANGED positions
                 ELSE positions' = [positions EXCEPT ![name] = s.position] /\ UNCHANGED actions
      /\ UNCHANGED <<written, results>>

At(section) == expects(seek(s, positions[section]), << <<"(">>, <<":">>, <<section>> >>)
\* Reads a section if it was found, and goes on with the next one.
ReadSection(section, t, next) ==
  /\ stage = section /\ Go(IF positions[section] = Unset THEN s ELSE t, next)
  /\ UNCHANGED <<written, positions, actions, results>>

ParseRequirementSection ==
  ReadSection("requirements",
    Then(Requirements(At("requirements"), <<>>), LAMBDA t : [t EXCEPT !.domain.requirements = t.value]),
    "types")

ParseTypeSection ==
  ReadSection("types",
    Then(skipWhiteSpace(checkRequirement(At("types"), "typing")), LAMBDA start :
      IF Breaks(start) \/ Current(start) = "(" THEN throw(start)
      ELSE expect(parseAndAddPrimitiveTypeDeclarations(start), <<")">>)), "constants")

ParseConstantSection ==
  ReadSection("constants",
    Then(parseAndAddConstantDeclarations(At("constants"), <<>>), LAMBDA t :
    Then(expect(t, <<")">>), LAMBDA close : [close EXCEPT !.domain.constants = t.value])), "predicates")

ParsePredicateSection ==
  ReadSection("predicates",
    expect(parseAndAddPredicateDeclarations(skipWhiteSpace(At("predicates"))), <<")">>), "actions")

-----------------------------------------------------------------------------
ActionKeywords(mode) == <<"parameters", "precondition", "effect">>
                          \o IF mode = "compatibility" THEN <<"vars">> ELSE <<>>

\* ActionParser::findSections, lines 96-128: returns the positions.
RECURSIVE ActionSections(_, _)
ActionSections(t, found) ==
  IF Breaks(t) THEN throw(t)
  ELSE IF Closes(t) THEN Return(expect(t, <<")">>), found)
  ELSE Given(Keyword(expect(t, <<":">>), ActionKeywords(t.mode)), LAMBDA section :
         IF found[section.value[1]] # Unset THEN throw(section)
         ELSE ActionSections(skipWhiteSpace(skipSection(expect(section, <<"(">>))),
                             [found EXCEPT ![section.value[1]] = t.position]))

\* parseParameterSection and parseVarsSection.
Parameters(t, position, keyword, parameters) ==
  IF position = Unset THEN Return(t, parameters)
  ELSE Then(parseAndAddVariableDeclarations(
              expects(seek(t, position), << <<":", keyword>>, <<"(">> >>), parameters), LAMBDA list :
         Return(expect(list, <<")">>), list.value))

Condition(t, position, keyword, parser) ==
  IF position = Unset THEN Absent(t) ELSE Parse(parser, expect(seek(t, position), <<":", keyword>>))

\* ActionParser::parse.
parseAction(t) ==
  Then(getIdentifier(expects(t, << <<"(">>, <<":">>, <<"action">> >>)), LAMBDA name :
  Then(ActionSections(skipWhiteSpace(name),
         [k \in {"parameters", "precondition", "effect", "vars"} |-> Unset]), LAMBDA found :
  Then(Parameters(found, found.value["parameters"], "parameters", <<>>), LAMBDA parameters :
  Then(Parameters(parameters, found.value["vars"], "vars", parameters.value), LAMBDA variables :
  Then(Condition([variables EXCEPT !.stack = <<variables.value>>], found.value["precondition"],
                 "precondition", "parsePrecondition"), LAMBDA precondition :
  Then(Condition(precondition, found.value["effect"], "effect", "parseEffect"), LAMBDA effect :
    [effect EXCEPT !.stack = <<>>, !.domain.actions = Append(@,
       [name |-> name.value, parameters |-> variables.value,
        precondition |-> precondition.value, effect |-> effect.value])]))))))

ParseActionSection ==
  /\ stage = "actions" /\ actions # <<>>
  /\ Go(parseAction(seek(s, Head(actions))), "actions") /\ actions' = Tail(actions)
  /\ UNCHANGED <<written, positions, results>>

\* The end of DomainParser::parse, and the choice in DescriptionParser::parse.
EndDomain ==
  /\ stage = "actions" /\ actions = <<>>
  /\ Go([s EXCEPT !.domain.requirements = computeDerivedRequirements(@)],
        IF positions["problem"] = Unset THEN "accepted" ELSE "problem")
  /\ UNCHANGED <<written, positions, actions, results>>

-----------------------------------------------------------------------------
BeginProblem ==
  /\ stage = "problem" /\ positions' = NoPositions
  /\ Go(Then(Header(seek(s, positions["problem"]), "problem"), LAMBDA header :
          [header EXCEPT !.problem = <<[NewProblem EXCEPT !.name = header.value]>>]), "problem sections")
  /\ UNCHANGED <<written, actions, results>>

\* Problem.cpp, lines 104-143.
FindProblemSection ==
  LET found == SectionKeyword(s, <<"domain", "requirements", "objects", "init", "goal">>)
  IN  /\ stage = "problem sections"
      /\ IF Closes(s) THEN Go(expect(s, <<")">>), "problem domain") /\ UNCHANGED positions
         ELSE IF Breaks(s) \/ found.threw \/ found.value = <<>> THEN Go(throw(s), "failed") /\ UNCHANGED positions
         ELSE IF positions[found.value[1]] # Unset THEN Go(throw(s), "failed") /\ UNCHANGED positions
         ELSE /\ Go(skipWhiteSpace(skipSection(found)), "problem sections")
              /\ positions' = [positions EXCEPT ![found.value[1]] = s.position]
      /\ UNCHANGED <<written, actions, results>>

\* parseDomainSection and the problem's parseRequirementSection.
ParseDomainSection ==
  /\ stage = "problem domain"
  /\ Go(IF positions["domain"] = Unset THEN throw(s)
        ELSE Then(getIdentifier(skipWhiteSpace(At("domain"))), LAMBDA name :
               IF name.value # s.domain.name THEN throw(name)
               ELSE IF positions["requirements"] = Unset THEN expect(name, <<")">>)
               ELSE Then(expect(name, <<")">>), LAMBDA close :
                      Then(Requirements(At("requirements"), <<>>), LAMBDA t :
                        [t EXCEPT !.problem[1].requirements = t.value]))), "objects")
  /\ UNCHANGED <<written, positions, actions, results>>

ParseObjectSection ==
  ReadSection("objects",
    Then(parseAndAddConstantDeclarations(At("objects"), <<>>), LAMBDA t :
    Then(expect(t, <<")">>), LAMBDA close : [close EXCEPT !.problem[1].objects = t.value])), "init")

ParseInitialStateSection ==
  ReadSection("init",
    Then(InitialState(At("init")), LAMBDA t :
    Then(skipSection(expect(t, <<")">>)), LAMBDA close : [close EXCEPT !.problem[1].initialState = t.value])),
    "goal")

\* An initial state and a goal must not be missing.
ParseGoalSection ==
  /\ stage = "goal"
  /\ Go(IF positions["init"] = Unset \/ positions["goal"] = Unset THEN throw(s)
        ELSE Then(Parse("parsePrecondition", At("goal")), LAMBDA t :
             Then(skipSection(expect(t, <<")">>)), LAMBDA close : [close EXCEPT !.problem[1].goal = t.value])),
        "accepted")
  /\ UNCHANGED <<written, positions, actions, results>>

-----------------------------------------------------------------------------
Finish ==
  /\ stage \in {"accepted", "failed"} /\ stage' = "finished"
  /\ results' = Append(results, IF stage = "failed" THEN <<>>
                                ELSE <<[domain |-> s.domain, problem |-> s.problem]>>)
  /\ UNCHANGED <<written, s, positions, actions>>

Restart(text, mode) ==
  /\ s' = Context(text, mode) /\ stage' = "description" /\ positions' = NoPositions /\ actions' = <<>>
  /\ UNCHANGED <<written, results>>

\* The option --parsing-mode=compatibility, on the same text.
Compatibility == stage = "finished" /\ Len(results) = 1 /\ Restart(Text(written), "compatibility")

\* The command "beautify", whose output is read in the mode its input was.
Beautify ==
  /\ stage = "finished" /\ Len(results) = 2 /\ results[2] # <<>>
  /\ Restart(printDescription(results[2][1].domain, results[2][1].problem),
             IF results[1] # <<>> THEN "strict" ELSE "compatibility")

Next ==
  \/ FindSection \/ BeginDomain \/ FindDomainSection \/ ParseRequirementSection \/ ParseTypeSection
  \/ ParseConstantSection \/ ParsePredicateSection \/ ParseActionSection \/ EndDomain
  \/ BeginProblem \/ FindProblemSection \/ ParseDomainSection \/ ParseObjectSection
  \/ ParseInitialStateSection \/ ParseGoalSection \/ Finish \/ Compatibility \/ Beautify
Spec == Init /\ [][Next]_vars

-----------------------------------------------------------------------------
\* The order of types and requirements is of no consequence.
Unordered(result) ==
  [i \in DOMAIN result |->
     [domain  |-> [result[i].domain EXCEPT !.types = ToSet(@), !.requirements = ToSet(@)],
      problem |-> [j \in DOMAIN result[i].problem |->
                     [result[i].problem[j] EXCEPT !.requirements = ToSet(@)]]]]

\* In each mode a description is accepted if and only if it is well-formed for it,
\* and read as it was meant, whatever the order of its sections: every name refers
\* to its innermost declaration, every atom to the first declaration its arguments
\* fit.  Only an undeclared variable just before a constant is passed over.
OrElse(meaning, alternative) == IF meaning # <<>> THEN meaning ELSE alternative
Reads(result, mode) ==
  Unordered(result) = OrElse(Meaning(written, mode, FALSE), Meaning(written, mode, TRUE))
ReadAsWritten ==
  /\ results # <<>> => Reads(results[1], "strict")
  /\ Len(results) >= 2 => Reads(results[2], "compatibility")

\* What strict mode accepts, compatibility mode reads in the same way.
ModesAgree == Len(results) >= 2 /\ results[1] # <<>> => results[2] = results[1]

\* What the printed text does not give back: a type without parents printed before
\* one with parents gets these as well, an empty initial state is not printed, and
\* a type that came without the requirement :typing is refused or adds it.
Tidy(description) ==
  LET types == description.domain.types
  IN  /\ \A i, j \in DOMAIN types : i < j /\ types[i].parents = <<>> => types[j].parents = <<>>
      /\ types # <<>> => hasRequirement(description.domain.requirements, "typing")
      /\ description.problem # <<>> => description.problem[1].initialState # <<>>

\* Printing a description and reading the text gives the description back, except
\* in exactly these cases.
BeautifiedReadsBack ==
  Len(results) = 3 =>
    (results[3] # <<>> /\ Unordered(results[3]) = Unordered(results[2])) = Tidy(results[2][1])
=============================================================================
