--------------------------- MODULE SASDescription ---------------------------
(***************************************************************************)
(* sas/Description.cpp and the classes it is made of: a text in the SAS    *)
(* format is read in one pass; a step is one section.                      *)
(*                                                                         *)
(* What is read refers to variables and values by index, the description   *)
(* by pointers into its variables: a fact is <<index of variable, value>>. *)
(***************************************************************************)
EXTENDS Tokenizer, SASWritten

CONSTANT Descriptions   \* what has been written

\* What Fast Downward may write; no text needs to be well-formed.
ASSUME DescriptionsAssumption ==
  \A w \in Descriptions : WrittenType(w) /\ (WellFormed(w) => WellNamed(w) /\ AssignsOne(w))

VARIABLES written,   \* the task
          s,         \* the tokenizer and the description read so far
          stage      \* the section to be read next
dvars == <<written, s, stage>>

Empty == [usesActionCosts |-> FALSE, variables |-> <<>>, mutexGroups |-> <<>>, initialState |-> <<>>,
          goal |-> <<>>, operators |-> <<>>, axiomRules |-> <<>>]

Expect(t, text) == expect(t, <<text>>)
\* The text that ends what has been read.
Close(t, text)  == Return(Expect(t, text), t.value)

\* What has been read becomes a part of the description.
Store(t, part) == Then(t, LAMBDA u : [u EXCEPT !.description[part] = u.value])

\* A number, then as many items, each read by Item; the value is their list.
Collect(items, t) == Return(t, Append(items, t.value))
Repeat(t, n, Item(_)) ==
  FoldLeft(LAMBDA u, i : Then(u, LAMBDA v : Collect(v.value, Item(v))), Return(t, <<>>),
           [i \in 1 .. n |-> i])
Many(t, Item(_)) == Then(getUnsigned(t), LAMBDA u : Repeat(u, u.value, Item))

-----------------------------------------------------------------------------
\* Value.cpp, lines 86-91: the last two characters go wherever "()" stands.
WithoutParentheses(v) ==
  IF \E i \in 1 .. Len(v.name) - 1 : v.name[i] = "(" /\ v.name[i + 1] = ")"
  THEN Value(v.positive, SubSeq(v.name, 1, Len(v.name) - 2), FALSE) ELSE v

ValueFromSAS(t) ==
  Then(getString(t), LAMBDA sign :
    IF sign.value = <<"<none">> THEN Return(Expect(Expect(sign, "of"), "those>"), None)
    ELSE IF sign.value \notin {<<"Atom">>, <<"NegatedAtom">>} THEN throw(sign)
    ELSE Then(getLine(skipWhiteSpace(sign)), LAMBDA line :
           Return(line, WithoutParentheses(Value(sign.value = <<"Atom">>, line.value, TRUE)))))

NoneIsLast(values) == \A j \in DOMAIN values : values[j] = None => j = Len(values)

VariableFromSAS(t) ==
  Then(getString(Expect(Expect(t, "begin_variable"), "var")), LAMBDA name :
  Then(getInt(name), LAMBDA layer :
  Then(Many(layer, ValueFromSAS), LAMBDA values :
    IF ~NoneIsLast(values.value) THEN throw(values)
    ELSE Return(Expect(values, "end_variable"),
                [name |-> name.value, axiomLayer |-> layer.value, values |-> values.value]))))

\* An index as size_t; the value is the index.
VariableReference(t) ==
  Then(getUnsigned(t), LAMBDA u : IF u.value < Len(u.description.variables) THEN u ELSE throw(u))

\* An index as int: -1 stands for any value, wherever it is read.
ValueReference(t, variable) ==
  LET values == t.description.variables[variable + 1].values
  IN  Then(getInt(t), LAMBDA u :
        IF u.value = -1 THEN Return(u, AnyValue)
        ELSE IF u.value \notin 0 .. Len(values) - 1 THEN throw(u) ELSE Return(u, values[u.value + 1]))

AssignedValue(t, variable) ==
  Then(ValueReference(t, variable), LAMBDA u : Return(u, <<variable, u.value>>))
AssignedVariable(t) == Then(VariableReference(t), LAMBDA u : AssignedValue(u, u.value))

\* fromAny says that the value before is the object Value::Any itself.
VariableTransition(t) ==
  Then(AssignedVariable(t), LAMBDA before : Then(AssignedValue(before, before.value[1]), LAMBDA after :
    Return(after, [before  |-> before.value, after |-> after.value,
                   fromAny |-> getInt(VariableReference(t)).value = -1])))

MutexGroupFromSAS(t) ==
  Then(Many(Expect(t, "begin_mutex_group"), AssignedVariable), LAMBDA facts :
    IF \E j \in DOMAIN facts.value : facts.value[j][2] = None THEN throw(facts)
    ELSE Close(facts, "end_mutex_group"))

\* Predicate.cpp: the rest of the line is skipped first.  An argument may be
\* followed by a carriage return, after which the next line would be read on.
Arguments(t) ==
  LET read[n \in 0 .. Len(t.content)] ==
        skipBlankSpace(IF n = 0 THEN Return(t, <<>>)
                       ELSE Then(read[n - 1], LAMBDA u : Collect(u.value, getString(u))))
      Stops(u) == u.threw \/ atEnd(u) \/ Current(u) = "\n"
      last == CHOOSE n \in 0 .. Len(t.content) : Stops(read[n]) /\ \A m \in 0 .. n - 1 : ~Stops(read[m])
  IN  IF atEnd(read[last]) THEN throw(read[last]) ELSE read[last]
PredicateFromSAS(t) ==
  Then(getString(skipLine(t)), LAMBDA name : Then(Arguments(name), LAMBDA u :
    Return(u, [name |-> name.value, arguments |-> u.value])))

EffectFromSAS(t) ==
  Then(Many(t, AssignedVariable), LAMBDA conditions : Then(VariableTransition(conditions), LAMBDA u :
    Return(u, [conditions |-> conditions.value, before |-> u.value.before, after |-> u.value.after,
               fromAny |-> u.value.fromAny])))

\* Faulty variant of Starts: the value -1 is no exception.
StartsFromAny(transitions) == {t.before : t \in Range(transitions)}

\* Effect.cpp, lines 37-38, and AxiomRule.cpp, lines 38-39: the values that
\* transitions start from become conditions of the whole operator or rule.  Not a
\* value, but the address of Value::Any is compared.
Starts(transitions) == {t.before : t \in {u \in Range(transitions) : ~u.fromAny}}

OperatorFromSAS(t) ==
  Then(PredicateFromSAS(Expect(t, "begin_operator")), LAMBDA predicate :
  Then(Many(predicate, AssignedVariable), LAMBDA prevail :
  Then(Many(prevail, EffectFromSAS), LAMBDA effects :
  Then(getUnsigned(effects), LAMBDA costs :
    Return(Expect(costs, "end_operator"),
           [predicate     |-> predicate.value,
            preconditions |-> Range(prevail.value) \cup Starts(effects.value),
            effects       |-> [i \in DOMAIN effects.value |->
                                 [conditions    |-> effects.value[i].conditions,
                                  postcondition |-> effects.value[i].after]],
            costs         |-> costs.value])))))

AxiomRuleFromSAS(t) ==
  Then(Many(Expect(t, "begin_rule"), AssignedVariable), LAMBDA conditions :
  Then(VariableTransition(conditions), LAMBDA u :
    Return(Expect(u, "end_rule"),
           [conditions |-> Range(conditions.value) \cup Starts(<<u.value>>), postcondition |-> u.value.after])))

-----------------------------------------------------------------------------
\* The sections of the text.
VersionFromSAS(t) ==
  Then(getUnsigned(Expect(t, "begin_version")), LAMBDA u :
    IF u.value # 3 THEN throw(u) ELSE Expect(u, "end_version"))
MetricFromSAS(t) ==
  Store(Close(getBool(Expect(t, "begin_metric")), "end_metric"), "usesActionCosts")
VariablesFromSAS(t)   == Store(Many(t, VariableFromSAS), "variables")
MutexGroupsFromSAS(t) == Store(Many(t, MutexGroupFromSAS), "mutexGroups")
\* One value for each variable, in their order.
InitialStateFromSAS(t) ==
  Store(Close(FoldLeft(LAMBDA u, i : Then(u, LAMBDA v : Collect(v.value, AssignedValue(v, i - 1))),
                       Return(Expect(t, "begin_state"), <<>>),
                       [i \in DOMAIN t.description.variables |-> i]), "end_state"), "initialState")
GoalFromSAS(t) ==
  Store(Close(Many(Expect(t, "begin_goal"), AssignedVariable), "end_goal"), "goal")
OperatorsFromSAS(t) == Store(Many(t, OperatorFromSAS), "operators")
AxiomRulesFromSAS(t) ==
  Then(skipWhiteSpace(Store(Many(t, AxiomRuleFromSAS), "axiomRules")), LAMBDA u :
    IF atEnd(u) THEN u ELSE throw(u))

-----------------------------------------------------------------------------
Init ==
  /\ written \in Descriptions /\ stage = "version"
  /\ s = [content |-> Text(written), position |-> 0, threw |-> FALSE, value |-> FALSE,
          description |-> Empty]

\* Reads a section; an exception ends the program.
Section(name, t, next) ==
  /\ stage = name /\ s' = t /\ stage' = IF t.threw THEN "failed" ELSE next
  /\ UNCHANGED written

ParseVersion      == Section("version", VersionFromSAS(s), "metric")
ParseMetric       == Section("metric", MetricFromSAS(s), "variables")
ParseVariables    == Section("variables", VariablesFromSAS(s), "mutexGroups")
ParseMutexGroups  == Section("mutexGroups", MutexGroupsFromSAS(s), "initialState")
ParseInitialState == Section("initialState", InitialStateFromSAS(s), "goal")
ParseGoal         == Section("goal", GoalFromSAS(s), "operators")
ParseOperators    == Section("operators", OperatorsFromSAS(s), "axiomRules")
ParseAxiomRules   == Section("axiomRules", AxiomRulesFromSAS(s), "read")

Parse == \/ ParseVersion \/ ParseMetric \/ ParseVariables \/ ParseMutexGroups \/ ParseInitialState
         \/ ParseGoal \/ ParseOperators \/ ParseAxiomRules

-----------------------------------------------------------------------------
\* A text is refused (sas/Description.cpp, 162-177) if and only if it is not
\* well-formed, and otherwise every index in it has become the variable and the
\* value it was written for, effects and their starting values included.
SASReadAsWritten ==
  /\ stage = "failed" => ~WellFormed(written)
  /\ stage = "read" => WellFormed(written) /\ s.description = Meaning(written)
=============================================================================
