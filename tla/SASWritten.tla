----------------------------- MODULE SASWritten -----------------------------
(***************************************************************************)
(* What Fast Downward's translator has written: a planning task in which   *)
(* variables and values are indices, its text in the SAS format, whether   *)
(* that text is well-formed, and what it has to be read as.  This is the   *)
(* reference that the parser is compared with, not a model of code.        *)
(*                                                                         *)
(* A fact is <<variable, value>>, an operator's effect [conditions,        *)
(* variable, before, after]; the value -1 stands for any value.  cut takes *)
(* characters off the end of the text, trailing is what comes after it.    *)
(***************************************************************************)
EXTENDS Integers, SequencesExt

\* What the numbers and names in a text may be.
Fact       == Int \X Int
Transition == [conditions : Seq(Fact), variable : Int, before : Int, after : Int]
Values     == Seq([positive : BOOLEAN, name : Seq(STRING), hasArguments : BOOLEAN])
Variable   == [name : Seq(STRING), axiomLayer : Int, values : Values]
Operator   == [name : Seq(STRING), arguments : Seq(Seq(STRING)), prevail : Seq(Fact),
               effects : Seq(Transition), costs : Nat]
\* The shape of what is written, well-formed or not.
WrittenType(w) ==
  /\ w.variables \in Seq(Variable) /\ w.mutexGroups \in Seq(Seq(Fact))
  /\ w.initialState \in Seq(Int) /\ w.goal \in Seq(Fact)
  /\ w.operators \in Seq(Operator) /\ w.axiomRules \in Seq(Transition)

\* Value.h: a value, and the two reserved ones.
Value(positive, name, hasArguments) ==
  [positive |-> positive, name |-> name, hasArguments |-> hasArguments]
AnyValue  == Value(TRUE, <<"(any)">>, TRUE)
None     == Value(TRUE, <<"(none)">>, TRUE)

-----------------------------------------------------------------------------
Digits   == <<"0", "1", "2", "3", "4", "5", "6", "7", "8", "9">>
Number(n) ==
  LET decimal[k \in Nat] == (IF k < 10 THEN <<>> ELSE decimal[k \div 10]) \o <<Digits[(k % 10) + 1]>>
  IN  IF n < 0 THEN <<"-">> \o decimal[-n] ELSE decimal[n]

Line(words) == FoldLeft(LAMBDA line, w : IF line = <<>> THEN w ELSE line \o <<" ">> \o w, <<>>, words)
                 \o <<"\n">>
Numbers(ns) == Line([i \in DOMAIN ns |-> Number(ns[i])])
Lines(items, Text(_)) == Numbers(<<Len(items)>>) \o FlattenSeq([i \in DOMAIN items |-> Text(items[i])])
Block(name, lines)    == <<"begin_" \o name, "\n">> \o lines \o <<"end_" \o name, "\n">>

ValueText(v) ==
  IF v = None THEN Line(<< <<"<none">>, <<"of">>, <<"those>">> >>)
  ELSE Line(<< <<IF v.positive THEN "Atom" ELSE "NegatedAtom">>,
               v.name \o IF v.hasArguments THEN <<>> ELSE <<"(", ")">> >>)
VariableText(v) ==
  Block("variable", Line(<< <<"var">> \o v.name >>) \o Numbers(<<v.axiomLayer>>) \o Lines(v.values, ValueText))
FactsText(facts) == Lines(facts, Numbers)
EffectText(e) ==
  Numbers(<<Len(e.conditions)>> \o FlattenSeq(e.conditions) \o <<e.variable, e.before, e.after>>)
OperatorText(o) ==
  Block("operator", Line(<<o.name>> \o o.arguments \o << <<>> >>) \o FactsText(o.prevail)
                      \o Lines(o.effects, EffectText) \o Numbers(<<o.costs>>))
RuleText(r) == Block("rule", FactsText(r.conditions) \o Numbers(<<r.variable, r.before, r.after>>))

Whole(w) ==
  Block("version", Numbers(<<w.version>>)) \o Block("metric", Numbers(<<w.metric>>))
    \o Lines(w.variables, VariableText)
    \o Lines(w.mutexGroups, LAMBDA g : Block("mutex_group", FactsText(g)))
    \o Block("state", FlattenSeq([i \in DOMAIN w.initialState |-> Numbers(<<w.initialState[i]>>)]))
    \o Block("goal", FactsText(w.goal))
    \o Lines(w.operators, OperatorText) \o Lines(w.axiomRules, RuleText) \o w.trailing
Text(w) == SubSeq(Whole(w), 1, Len(Whole(w)) - w.cut)

-----------------------------------------------------------------------------
ValueOf(w, f) == IF f[2] = -1 THEN AnyValue ELSE w.variables[f[1] + 1].values[f[2] + 1]

InRange(w, f) == /\ f[1] \in 0 .. Len(w.variables) - 1
                 /\ f[2] \in -1 .. Len(w.variables[f[1] + 1].values) - 1
TransitionInRange(w, t) == InRange(w, <<t.variable, t.before>>) /\ InRange(w, <<t.variable, t.after>>)
AllInRange(w, facts)    == \A i \in DOMAIN facts : InRange(w, facts[i])

\* Indices refer to what there is, and a mutex group to no value(none).
IndicesInRange(w) ==
  /\ \A i \in DOMAIN w.mutexGroups :
       /\ AllInRange(w, w.mutexGroups[i])
       /\ \A j \in DOMAIN w.mutexGroups[i] : ValueOf(w, w.mutexGroups[i][j]) # None
  /\ Len(w.initialState) = Len(w.variables)
  /\ \A i \in DOMAIN w.initialState : InRange(w, <<i - 1, w.initialState[i]>>)
  /\ AllInRange(w, w.goal)
  /\ \A i \in DOMAIN w.operators :
       /\ AllInRange(w, w.operators[i].prevail)
       /\ \A j \in DOMAIN w.operators[i].effects :
            LET e == w.operators[i].effects[j] IN AllInRange(w, e.conditions) /\ TransitionInRange(w, e)
  /\ \A i \in DOMAIN w.axiomRules :
       AllInRange(w, w.axiomRules[i].conditions) /\ TransitionInRange(w, w.axiomRules[i])

\* The last newline may be missing.
WellFormed(w) ==
  /\ w.version = 3 /\ w.metric \in {0, 1} /\ w.cut \in 0 .. 1 /\ w.trailing \in {<<>>, <<"\n", " ">>}
  /\ \A i \in DOMAIN w.variables :
       LET values == w.variables[i].values IN \A j \in DOMAIN values : values[j] = None => j = Len(values)
  /\ IndicesInRange(w)

\* Variables, the values of one variable, and operators go by different names.
SameName(u, v) == u.name = v.name /\ u.positive = v.positive
WellNamed(w) ==
  /\ \A i, j \in DOMAIN w.variables : w.variables[i].name = w.variables[j].name => i = j
  /\ \A i \in DOMAIN w.variables :
       LET values == w.variables[i].values
       IN  \A j \in DOMAIN values :
             /\ ~SameName(values[j], AnyValue)
             /\ \A k \in DOMAIN values : SameName(values[j], values[k]) => j = k
  /\ \A i, j \in DOMAIN w.operators :
       w.operators[i].name = w.operators[j].name /\ w.operators[i].arguments = w.operators[j].arguments
         => i = j

\* Where an effect assigns any value, no other one assigns a value.
AssignsOne(w) ==
  \A o \in Range(w.operators) : \A e, f \in Range(o.effects) :
    e.variable = f.variable /\ e.after = -1 => f.after = -1

FactOf(w, f)    == <<f[1], ValueOf(w, f)>>
Facts(w, facts) == [i \in DOMAIN facts |-> FactOf(w, facts[i])]
\* What a transition starts from, where it says so.
Before(w, transitions) ==
  {FactOf(w, <<t.variable, t.before>>) : t \in {u \in Range(transitions) : u.before # -1}}
After(w, t) == FactOf(w, <<t.variable, t.after>>)

Meaning(w) ==
  [usesActionCosts |-> w.metric = 1,
   variables    |-> w.variables,
   mutexGroups  |-> [i \in DOMAIN w.mutexGroups |-> Facts(w, w.mutexGroups[i])],
   initialState |-> Facts(w, [i \in DOMAIN w.initialState |-> <<i - 1, w.initialState[i]>>]),
   goal         |-> Facts(w, w.goal),
   operators    |->
     [i \in DOMAIN w.operators |->
       LET o == w.operators[i]
       IN  [predicate     |-> [name |-> o.name, arguments |-> o.arguments],
            preconditions |-> Range(Facts(w, o.prevail)) \cup Before(w, o.effects),
            effects       |-> [j \in DOMAIN o.effects |->
                                 [conditions    |-> Facts(w, o.effects[j].conditions),
                                  postcondition |-> After(w, o.effects[j])]],
            costs         |-> o.costs]],
   axiomRules   |->
     [i \in DOMAIN w.axiomRules |->
       LET r == w.axiomRules[i]
       IN  [conditions    |-> Range(Facts(w, r.conditions)) \cup Before(w, <<r>>),
            postcondition |-> After(w, r)]]]
=============================================================================
