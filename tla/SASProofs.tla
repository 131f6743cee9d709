------------------------------ MODULE SASProofs ------------------------------
(***************************************************************************)
(* What the solver does with the facts printed for a SAS task is what the  *)
(* task allows, as far as it has been read as it was written: every fact   *)
(* in use is one that is printed for an index fact of the task, no two of  *)
(* which are printed in the same way.                                      *)
(***************************************************************************)
EXTENDS SASTranslation, FiniteSetTheorems, TLAPS

\* A task with a well-formed text.
Task(w) == w \in Descriptions /\ WellFormed(w)

\* The facts that a text may refer to by indices; the value may be left open.
IndexFacts(w) == {f \in Fact : InRange(w, f)}

\* The name under which an index fact is printed.
Printed(w, f) == <<w.variables[f[1] + 1].name, printValue(ValueOf(w, f))>>

\* A state gives every variable one of its values.
States(w) == {st \in [DOMAIN w.variables -> Nat] :
                \A i \in DOMAIN w.variables : st[i] < Len(w.variables[i].values)}

\* What holds in a state.
HoldsIn(w, st) == {Printed(w, <<i - 1, st[i]>>) : i \in DOMAIN w.variables}

-----------------------------------------------------------------------------
\* A well-formed text has its indices in range.
LEMMA TaskInRange ==
  ASSUME NEW w, Task(w)
  PROVE  IndicesInRange(w)
BY Zenon DEF Task, WellFormed

\* An index fact refers to a variable and one of its values, or any.
LEMMA IndexFact ==
  ASSUME NEW w, Task(w), NEW f \in IndexFacts(w)
  PROVE  /\ f[1] \in Int /\ f[2] \in Int /\ f = <<f[1], f[2]>> /\ f[1] + 1 \in DOMAIN w.variables
         /\ f[2] = -1 \/ f[2] + 1 \in DOMAIN w.variables[f[1] + 1].values
<1>1. f \in Int \X Int /\ InRange(w, f)
  BY DEF IndexFacts, Fact
<1>2. WrittenType(w)
  BY DescriptionsAssumption DEF Task
<1>3. DOMAIN w.variables = 1 .. Len(w.variables) /\ Len(w.variables) \in Nat
  BY <1>2 DEF WrittenType
<1>4. f[1] + 1 \in DOMAIN w.variables
  BY <1>1, <1>3 DEF InRange
<1>5. w.variables[f[1] + 1] \in Variable
  BY <1>2, <1>4 DEF WrittenType
<1>6. DOMAIN w.variables[f[1] + 1].values = 1 .. Len(w.variables[f[1] + 1].values)
      /\ Len(w.variables[f[1] + 1].values) \in Nat
  BY <1>5 DEF Variable, Values
<1> QED BY <1>1, <1>3, <1>4, <1>5, <1>6 DEF InRange

\* Values of a variable are printed differently, and any value like none of them.
LEMMA ValuesDiffer ==
  ASSUME NEW w, Task(w), NEW i \in DOMAIN w.variables, NEW j \in DOMAIN w.variables[i].values
  PROVE  /\ printValue(w.variables[i].values[j]) # printValue(AnyValue)
         /\ \A k \in DOMAIN w.variables[i].values :
              printValue(w.variables[i].values[j]) = printValue(w.variables[i].values[k]) => j = k
<1> DEFINE values == w.variables[i].values
<1>1. ~SameName(values[j], AnyValue)
  BY DescriptionsAssumption DEF Task, WellNamed
<1>2. \A k \in DOMAIN values : SameName(values[j], values[k]) => j = k
  BY DescriptionsAssumption DEF Task, WellNamed
<1>3. AnyValue # None /\ <<>> # printValue(AnyValue)
  BY DEF AnyValue, None, Value, printValue
<1>4. values[j] = None => printValue(values[j]) = <<>>
  BY DEF printValue
<1>5. \A v : v # None => printValue(v) = <<v.name, v.positive>>
  BY DEF printValue
<1>6. \A u, v : u # None /\ v # None /\ printValue(u) = printValue(v) => SameName(u, v)
  BY <1>5 DEF SameName
<1>7. \A u, v : u = None /\ v # None => printValue(u) # printValue(v)
  BY DEF printValue
<1>8. SameName(None, None)
  BY DEF SameName
<1> QED BY <1>1, <1>2, <1>3, <1>4, <1>6, <1>7, <1>8

\* Different facts of a task are printed differently.
LEMMA PrintedDiffer ==
  ASSUME NEW w, Task(w), NEW f \in IndexFacts(w), NEW g \in IndexFacts(w)
  PROVE  /\ Printed(w, f) = Printed(w, g) => f = g
         /\ Printed(w, f)[1] = Printed(w, g)[1] <=> f[1] = g[1]
<1>1. \A i, j \in DOMAIN w.variables : w.variables[i].name = w.variables[j].name => i = j
  BY DescriptionsAssumption DEF Task, WellNamed
<1>2. /\ f[1] \in Int /\ f[2] \in Int /\ f = <<f[1], f[2]>> /\ f[1] + 1 \in DOMAIN w.variables
      /\ f[2] = -1 \/ f[2] + 1 \in DOMAIN w.variables[f[1] + 1].values
  BY IndexFact
<1>3. /\ g[1] \in Int /\ g[2] \in Int /\ g = <<g[1], g[2]>> /\ g[1] + 1 \in DOMAIN w.variables
      /\ g[2] = -1 \/ g[2] + 1 \in DOMAIN w.variables[g[1] + 1].values
  BY IndexFact
<1>4. Printed(w, f)[1] = Printed(w, g)[1] <=> f[1] = g[1]
  BY <1>1, <1>2, <1>3 DEF Printed
<1>5. ASSUME Printed(w, f) = Printed(w, g) PROVE f = g
  <2>1. f[1] = g[1]
    BY <1>4, <1>5
  <2>2. PICK i \in DOMAIN w.variables : i = f[1] + 1
    BY <1>2
  <2>3. printValue(ValueOf(w, f)) = printValue(ValueOf(w, g))
    BY <1>5 DEF Printed
  <2>4. f[2] # -1 => f[2] + 1 \in DOMAIN w.variables[i].values /\ ValueOf(w, f) = w.variables[i].values[f[2] + 1]
    BY <1>2, <2>2 DEF ValueOf
  <2>5. g[2] # -1 => g[2] + 1 \in DOMAIN w.variables[i].values /\ ValueOf(w, g) = w.variables[i].values[g[2] + 1]
    BY <1>3, <2>1, <2>2 DEF ValueOf
  <2>6. /\ f[2] = -1 => ValueOf(w, f) = AnyValue
        /\ g[2] = -1 => ValueOf(w, g) = AnyValue
    BY DEF ValueOf
  <2>7. f[2] = -1 <=> g[2] = -1
    BY <2>3, <2>4, <2>5, <2>6, ValuesDiffer
  <2>8. f[2] # -1 /\ g[2] # -1 => f[2] + 1 = g[2] + 1
    BY <2>3, <2>4, <2>5, ValuesDiffer
  <2>9. f[2] = g[2]
    BY <1>2, <1>3, <2>7, <2>8
  <2> QED BY <1>2, <1>3, <2>1, <2>9
<1> QED BY <1>4, <1>5

\* A well-formed text refers to variables and values only.
LEMMA InTask ==
  ASSUME NEW w, Task(w)
  PROVE  /\ DOMAIN w.variables = 1 .. Len(w.variables) /\ Len(w.variables) \in Nat
         /\ \A i \in DOMAIN w.goal : w.goal[i] \in IndexFacts(w)
         /\ \A i \in DOMAIN w.mutexGroups : \A j \in DOMAIN w.mutexGroups[i] :
              w.mutexGroups[i][j] \in IndexFacts(w)
         /\ DOMAIN w.initialState = DOMAIN w.variables
         /\ \A i \in DOMAIN w.variables : <<i - 1, w.initialState[i]>> \in IndexFacts(w)
<1>1. WrittenType(w)
  BY DescriptionsAssumption DEF Task
<1>2. /\ w.goal \in Seq(Fact) /\ w.mutexGroups \in Seq(Seq(Fact)) /\ w.initialState \in Seq(Int)
  BY <1>1 DEF WrittenType
<1>3. DOMAIN w.variables = 1 .. Len(w.variables) /\ Len(w.variables) \in Nat
  BY <1>1 DEF WrittenType
<1>4. \A i \in DOMAIN w.goal : w.goal[i] \in IndexFacts(w)
  BY <1>2, TaskInRange DEF IndicesInRange, AllInRange, IndexFacts
<1>5. ASSUME NEW i \in DOMAIN w.mutexGroups, NEW j \in DOMAIN w.mutexGroups[i]
      PROVE  w.mutexGroups[i][j] \in IndexFacts(w)
  <2>1. w.mutexGroups[i] \in Seq(Fact)
    BY <1>2
  <2>2. w.mutexGroups[i][j] \in Fact
    BY <2>1
  <2> QED BY <2>2, TaskInRange DEF IndicesInRange, AllInRange, IndexFacts
<1>6. DOMAIN w.initialState = DOMAIN w.variables
  BY <1>2, <1>3, TaskInRange DEF IndicesInRange
<1>7. ASSUME NEW i \in DOMAIN w.variables PROVE <<i - 1, w.initialState[i]>> \in IndexFacts(w)
  <2>1. <<i - 1, w.initialState[i]>> \in Fact
    BY <1>2, <1>3, <1>6 DEF Fact
  <2>2. InRange(w, <<i - 1, w.initialState[i]>>)
    BY <1>6, TaskInRange DEF IndicesInRange
  <2> QED BY <2>1, <2>2 DEF IndexFacts
<1> QED BY <1>3, <1>4, <1>5, <1>6, <1>7

\* So do its operators.
LEMMA InOperator ==
  ASSUME NEW w, Task(w), NEW k \in DOMAIN w.operators
  PROVE  /\ \A f \in Range(w.operators[k].prevail) : f \in IndexFacts(w)
         /\ \A j \in DOMAIN w.operators[k].effects :
              LET e == w.operators[k].effects[j]
              IN  /\ <<e.variable, e.before>> \in IndexFacts(w)
                  /\ <<e.variable, e.after>> \in IndexFacts(w)
                  /\ e.conditions \in Seq(Fact)
                  /\ \A l \in DOMAIN e.conditions : e.conditions[l] \in IndexFacts(w)
<1>1. WrittenType(w)
  BY DescriptionsAssumption DEF Task
<1>2. w.operators[k] \in Operator
  BY <1>1 DEF WrittenType
<1>3. w.operators[k].prevail \in Seq(Fact) /\ w.operators[k].effects \in Seq(Transition)
  BY <1>2 DEF Operator
<1>4. \A f \in Range(w.operators[k].prevail) : f \in IndexFacts(w)
  BY <1>3, TaskInRange DEF IndicesInRange, AllInRange, IndexFacts, Range
<1>5. ASSUME NEW j \in DOMAIN w.operators[k].effects,
             NEW e \in Transition, e = w.operators[k].effects[j]
      PROVE  /\ <<e.variable, e.before>> \in IndexFacts(w)
             /\ <<e.variable, e.after>> \in IndexFacts(w)
             /\ e.conditions \in Seq(Fact)
             /\ \A l \in DOMAIN e.conditions : e.conditions[l] \in IndexFacts(w)
  <2>1. e.variable \in Int /\ e.before \in Int /\ e.after \in Int /\ e.conditions \in Seq(Fact)
    BY DEF Transition
  <2>2. AllInRange(w, e.conditions) /\ TransitionInRange(w, e)
    BY <1>5, TaskInRange DEF IndicesInRange
  <2>3. \A l \in DOMAIN e.conditions : e.conditions[l] \in Fact
    BY <2>1
  <2>4. <<e.variable, e.before>> \in Fact /\ <<e.variable, e.after>> \in Fact
    BY <2>1 DEF Fact
  <2> QED BY <2>1, <2>2, <2>3, <2>4 DEF AllInRange, TransitionInRange, IndexFacts
<1>6. \A j \in DOMAIN w.operators[k].effects : w.operators[k].effects[j] \in Transition
  BY <1>3
<1> QED BY <1>4, <1>5, <1>6

\* The value of a variable in a state is one of its values.
LEMMA StateFact ==
  ASSUME NEW w, Task(w), NEW st \in States(w), NEW i \in DOMAIN w.variables
  PROVE  <<i - 1, st[i]>> \in IndexFacts(w)
<1>1. i \in 1 .. Len(w.variables) /\ Len(w.variables) \in Nat /\ st[i] \in Nat /\ st[i] < Len(w.variables[i].values)
  BY InTask DEF States
<1>2. Len(w.variables[i].values) \in Nat
  <2>1. w.variables[i] \in Variable
    BY DescriptionsAssumption DEF Task, WrittenType
  <2> QED BY <2>1 DEF Variable, Values
<1>3. PICK f1 \in Int : f1 = i - 1
  BY <1>1
<1>4. f1 + 1 = i
  BY <1>1, <1>3
<1>5. PICK f2 \in Int : f2 = st[i]
  BY <1>1
<1>6. f1 \in 0 .. Len(w.variables) - 1
  BY <1>1, <1>3
<1>7. f2 \in -1 .. Len(w.variables[f1 + 1].values) - 1
  BY <1>1, <1>2, <1>4, <1>5
<1> QED BY <1>3, <1>5, <1>6, <1>7 DEF IndexFacts, Fact, InRange

\* In a state, the facts that hold are those of the values its variables have.
LEMMA HoldsIff ==
  ASSUME NEW w, Task(w), NEW st \in States(w), NEW f \in IndexFacts(w)
  PROVE  Printed(w, f) \in HoldsIn(w, st) <=> st[f[1] + 1] = f[2]
<1>1. \A i \in DOMAIN w.variables : <<i - 1, st[i]>> \in IndexFacts(w)
  BY StateFact
<1>2. /\ f[1] \in Int /\ f[2] \in Int /\ f = <<f[1], f[2]>> /\ f[1] + 1 \in DOMAIN w.variables
  BY IndexFact
<1>3. DOMAIN w.variables \subseteq Int
  BY InTask
<1>4. ASSUME NEW i \in DOMAIN w.variables, Printed(w, f) = Printed(w, <<i - 1, st[i]>>)
      PROVE  st[f[1] + 1] = f[2]
  <2>1. f = <<i - 1, st[i]>>
    BY <1>1, <1>4, PrintedDiffer
  <2> QED BY <1>2, <1>3, <2>1
<1>5. ASSUME st[f[1] + 1] = f[2] PROVE Printed(w, f) \in HoldsIn(w, st)
  <2>1. PICK i \in DOMAIN w.variables : i = f[1] + 1
    BY <1>2
  <2>2. f = <<i - 1, st[i]>>
    BY <1>2, <1>3, <1>5, <2>1
  <2> QED BY <2>2 DEF HoldsIn
<1> QED BY <1>4, <1>5 DEF HoldsIn

-----------------------------------------------------------------------------
\* The task has been read as it was written, and translated.
Translated ==
  /\ Task(written) /\ s.description = Meaning(written)
  /\ facts = translate(Meaning(written))

\* A fact is printed by the names of what its index fact refers to.
LEMMA PrintFact ==
  ASSUME Translated, NEW f
  PROVE  printFact(Meaning(written), FactOf(written, f)) = Printed(written, f)
<1>1. Meaning(written).variables = written.variables
  BY DEF Translated, Meaning
<1>2. FactOf(written, f)[1] = f[1] /\ FactOf(written, f)[2] = ValueOf(written, f)
  BY DEF FactOf
<1> QED BY <1>1, <1>2, Zenon DEF printFact, Printed

\* So are sequences of them.
LEMMA PrintFacts ==
  ASSUME Translated, NEW fs
  PROVE  printFacts(Meaning(written), Range(Facts(written, fs))) = {Printed(written, fs[i]) : i \in DOMAIN fs}
<1>1. DOMAIN Facts(written, fs) = DOMAIN fs /\ \A i \in DOMAIN fs : Facts(written, fs)[i] = FactOf(written, fs[i])
  BY DEF Facts
<1>2. \A f : printFact(Meaning(written), FactOf(written, f)) = Printed(written, f)
  BY PrintFact
<1> QED BY <1>1, <1>2 DEF printFacts, Range

\* The values of variables are printed as facts that may hold.
LEMMA ContainsPrinted ==
  ASSUME Translated
  PROVE  /\ facts.variable = {written.variables[i].name : i \in DOMAIN written.variables}
         /\ facts.contains = {Printed(written, f) : f \in {g \in IndexFacts(written) : g[2] # -1}}
<1>1. PICK w : w = written
  OBVIOUS
<1>2. Task(w) /\ Meaning(w).variables = w.variables
  BY <1>1 DEF Translated, Meaning
<1>3. facts.variable = {w.variables[i].name : i \in DOMAIN w.variables}
  BY <1>1, <1>2 DEF Translated, translate
<1>4. facts.contains = UNION {{<<w.variables[i].name, printValue(v)>> : v \in Range(w.variables[i].values)} :
                                i \in DOMAIN w.variables}
  BY <1>1, <1>2 DEF Translated, translate
<1>5. ASSUME NEW i \in DOMAIN w.variables, NEW v \in Range(w.variables[i].values)
      PROVE  \E f \in IndexFacts(w) : f[2] # -1 /\ <<w.variables[i].name, printValue(v)>> = Printed(w, f)
  <2>1. PICK j \in DOMAIN w.variables[i].values : v = w.variables[i].values[j]
    BY DEF Range
  <2>2. i \in 1 .. Len(w.variables) /\ Len(w.variables) \in Nat
    BY <1>2, InTask
  <2>3. j \in 1 .. Len(w.variables[i].values) /\ Len(w.variables[i].values) \in Nat
    <3>1. w.variables[i] \in Variable
      BY <1>2, DescriptionsAssumption DEF Task, WrittenType
    <3> QED BY <3>1 DEF Variable, Values
  <2>4. PICK f1 \in Int, f2 \in Int : f1 = i - 1 /\ f2 = j - 1 /\ f1 + 1 = i /\ f2 + 1 = j
    BY <2>2, <2>3
  <2>5. f1 \in 0 .. Len(w.variables) - 1
    BY <2>2, <2>4
  <2>6. f2 \in 0 .. Len(w.variables[f1 + 1].values) - 1
    BY <2>3, <2>4
  <2>7. <<f1, f2>> \in IndexFacts(w)
    BY <2>5, <2>6 DEF IndexFacts, Fact, InRange
  <2>8. <<f1, f2>>[2] # -1 /\ Printed(w, <<f1, f2>>) = <<w.variables[i].name, printValue(v)>>
    BY <2>1, <2>4, <2>6 DEF Printed, ValueOf
  <2> QED BY <2>7, <2>8
<1>6. ASSUME NEW f \in IndexFacts(w), f[2] # -1
      PROVE  \E i \in DOMAIN w.variables : \E v \in Range(w.variables[i].values) :
               Printed(w, f) = <<w.variables[i].name, printValue(v)>>
  <2>1. f[1] + 1 \in DOMAIN w.variables /\ f[2] + 1 \in DOMAIN w.variables[f[1] + 1].values
    BY <1>2, <1>6, IndexFact
  <2>2. ValueOf(w, f) \in Range(w.variables[f[1] + 1].values)
    BY <1>6, <2>1 DEF ValueOf, Range
  <2> QED BY <2>1, <2>2 DEF Printed
<1>7. \A x : x \in facts.contains <=>
              \E i \in DOMAIN w.variables : \E v \in Range(w.variables[i].values) :
                x = <<w.variables[i].name, printValue(v)>>
  BY <1>4
<1>8. \A x : x \in facts.contains <=> \E f \in IndexFacts(w) : f[2] # -1 /\ x = Printed(w, f)
  BY <1>5, <1>6, <1>7
<1>9. facts.contains = {Printed(w, f) : f \in {g \in IndexFacts(w) : g[2] # -1}}
  BY <1>8
<1> QED BY <1>1, <1>3, <1>9

\* The goal, the initial state and the mutex groups are printed fact by fact.
LEMMA TaskPrinted ==
  ASSUME Translated
  PROVE  /\ facts.goal = {Printed(written, written.goal[i]) : i \in DOMAIN written.goal}
         /\ facts.initialState =
              {Printed(written, <<i - 1, written.initialState[i]>>) : i \in DOMAIN written.initialState}
         /\ \A m : m \in facts.mutexGroups <=>
              \E i \in DOMAIN written.mutexGroups :
                m = <<i, {Printed(written, written.mutexGroups[i][j]) : j \in DOMAIN written.mutexGroups[i]}>>
<1> DEFINE initial == [i \in DOMAIN written.initialState |-> <<i - 1, written.initialState[i]>>]
<1>2. /\ Meaning(written).goal = Facts(written, written.goal) /\ Meaning(written).initialState = Facts(written, initial)
      /\ Meaning(written).mutexGroups = [i \in DOMAIN written.mutexGroups |-> Facts(written, written.mutexGroups[i])]
  BY DEF Meaning
<1>3. /\ facts.goal = printFacts(Meaning(written), Range(Meaning(written).goal))
      /\ facts.initialState = printFacts(Meaning(written), Range(Meaning(written).initialState))
      /\ facts.mutexGroups = translateMutexes(Meaning(written))
  BY DEF Translated, translate
<1>4. facts.goal = {Printed(written, written.goal[i]) : i \in DOMAIN written.goal}
  BY <1>2, <1>3, PrintFacts
<1>5. facts.initialState = {Printed(written, initial[i]) : i \in DOMAIN initial}
  <2> HIDE DEF initial
  <2> QED BY <1>2, <1>3, PrintFacts
<1>6. facts.initialState = {Printed(written, <<i - 1, written.initialState[i]>>) : i \in DOMAIN written.initialState}
  BY <1>5
<1>7. facts.mutexGroups = {<<i, printFacts(Meaning(written), Range(Facts(written, written.mutexGroups[i])))>> : i \in DOMAIN written.mutexGroups}
  BY <1>2, <1>3 DEF translateMutexes
<1>8. \A i : printFacts(Meaning(written), Range(Facts(written, written.mutexGroups[i]))) =
              {Printed(written, written.mutexGroups[i][j]) : j \in DOMAIN written.mutexGroups[i]}
  BY PrintFacts
<1>9. \A m : m \in facts.mutexGroups <=>
             \E i \in DOMAIN written.mutexGroups : m = <<i, printFacts(Meaning(written), Range(Facts(written, written.mutexGroups[i])))>>
  BY <1>7
<1>10. \A m : m \in facts.mutexGroups <=>
             \E i \in DOMAIN written.mutexGroups :
               m = <<i, {Printed(written, written.mutexGroups[i][j]) : j \in DOMAIN written.mutexGroups[i]}>>
  BY <1>8, <1>9, Zenon
<1> HIDE DEF initial
<1> QED BY <1>4, <1>6, <1>10, Zenon

-----------------------------------------------------------------------------
\* What an operator is called by in the facts.
Predicate(o) == [name |-> o.name, arguments |-> o.arguments]

\* What an operator needs: its prevail conditions, and what its effects start from.
Needs(o) == Range(o.prevail) \cup {<<e.variable, e.before>> : e \in {u \in Range(o.effects) : u.before # -1}}

\* The operators of the description, piece by piece.
LEMMA OperatorsRead ==
  ASSUME NEW w
  PROVE  /\ DOMAIN Meaning(w).operators = DOMAIN w.operators
         /\ \A k \in DOMAIN w.operators :
              LET o == w.operators[k]
                  p == Meaning(w).operators[k]
              IN  /\ p.predicate = Predicate(o)
                  /\ p.preconditions = Range(Facts(w, o.prevail)) \cup Before(w, o.effects)
                  /\ DOMAIN p.effects = DOMAIN o.effects
BY DEF Meaning, Predicate

\* So are their effects.
LEMMA EffectRead ==
  ASSUME NEW w, NEW k \in DOMAIN w.operators, NEW j \in DOMAIN w.operators[k].effects
  PROVE  LET e == w.operators[k].effects[j]
             p == Meaning(w).operators[k].effects[j]
         IN  /\ p.conditions = Facts(w, e.conditions)
             /\ p.postcondition = FactOf(w, <<e.variable, e.after>>)
BY DEF Meaning, After

\* Operators have different predicates.
LEMMA PredicatesDiffer ==
  ASSUME NEW w, Task(w), NEW i \in DOMAIN w.operators, NEW k \in DOMAIN w.operators,
         Predicate(w.operators[i]) = Predicate(w.operators[k])
  PROVE  i = k
<1>1. /\ w.operators[i].name = w.operators[k].name
      /\ w.operators[i].arguments = w.operators[k].arguments
  BY DEF Predicate
<1> QED BY <1>1, DescriptionsAssumption DEF Task, WellNamed

\* An operator's preconditions are printed.
LEMMA PreconditionsPrinted ==
  ASSUME Translated
  PROVE  /\ facts.actions.action = {Predicate(written.operators[k]) : k \in DOMAIN written.operators}
         /\ \A p : p \in facts.actions.precondition <=>
              \E k \in DOMAIN written.operators : \E f \in Needs(written.operators[k]) :
                p = <<Predicate(written.operators[k]), Printed(written, f)>>
<1> DEFINE d == Meaning(written)
<1>1. facts.actions = translateActions(d)
  BY DEF Translated, translate
<1>2. /\ DOMAIN d.operators = DOMAIN written.operators
      /\ \A k \in DOMAIN written.operators :
           /\ d.operators[k].predicate = Predicate(written.operators[k])
           /\ d.operators[k].preconditions = Range(Facts(written, written.operators[k].prevail))
                                               \cup Before(written, written.operators[k].effects)
  BY OperatorsRead
<1> HIDE DEF d
<1>3. facts.actions.action = {Predicate(written.operators[k]) : k \in DOMAIN written.operators}
  BY <1>1, <1>2 DEF translateActions, Range
<1>4. \A p : p \in facts.actions.precondition <=>
        \E k \in DOMAIN written.operators :
          \E x \in printFacts(d, d.operators[k].preconditions) : p = <<Predicate(written.operators[k]), x>>
  <2>1. facts.actions.precondition =
          UNION {{<<o.predicate, x>> : x \in printFacts(d, o.preconditions)} : o \in Range(d.operators)}
    BY <1>1 DEF translateActions
  <2>2. \A p : p \in facts.actions.precondition <=>
          \E o \in Range(d.operators) : \E x \in printFacts(d, o.preconditions) : p = <<o.predicate, x>>
    BY <2>1
  <2> QED BY <1>2, <2>2 DEF Range
<1>5. ASSUME NEW k \in DOMAIN written.operators
      PROVE  \A x : x \in printFacts(d, d.operators[k].preconditions) <=>
                      \E f \in Needs(written.operators[k]) : x = Printed(written, f)
  <2> DEFINE o == written.operators[k]
             B == {<<e.variable, e.before>> : e \in {u \in Range(o.effects) : u.before # -1}}
  <2>1. Before(written, o.effects) = {FactOf(written, f) : f \in B}
    BY DEF Before
  <2>2. Range(Facts(written, o.prevail)) = {FactOf(written, f) : f \in Range(o.prevail)}
    BY DEF Facts, Range
  <2>3. Needs(o) = Range(o.prevail) \cup B
    BY DEF Needs
  <2>4. d.operators[k].preconditions = Range(Facts(written, o.prevail)) \cup Before(written, o.effects)
    BY <1>2
  <2> HIDE DEF o, B
  <2>5. d.operators[k].preconditions = {FactOf(written, f) : f \in Needs(o)}
    BY <2>1, <2>2, <2>3, <2>4
  <2>6. \A f : printFact(d, FactOf(written, f)) = Printed(written, f)
    BY PrintFact DEF d
  <2>7. \A x : x \in printFacts(d, d.operators[k].preconditions) <=> \E f \in Needs(o) : x = Printed(written, f)
    BY <2>5, <2>6 DEF printFacts
  <2> QED BY <2>7 DEF o
<1>6. \A p : p \in facts.actions.precondition <=>
        \E k \in DOMAIN written.operators : \E f \in Needs(written.operators[k]) :
          p = <<Predicate(written.operators[k]), Printed(written, f)>>
  BY <1>4, <1>5
<1> QED BY <1>3, <1>6

\* Effects by their positions.
LEMMA EffectsRead ==
  ASSUME NEW w, Task(w)
  PROVE  /\ \A e : e \in effectsOf(Meaning(w)) <=>
              \E k \in DOMAIN w.operators : \E j \in DOMAIN w.operators[k].effects : e = <<k, j>>
         /\ \A e \in effectsOf(Meaning(w)) : e = <<e[1], e[2]>> /\ e[1] \in Nat /\ e[2] \in Nat
         /\ IsFiniteSet(effectsOf(Meaning(w)))
<1> DEFINE n == Len(w.operators)
           d == Meaning(w)
           S == {{k} \X DOMAIN d.operators[k].effects : k \in DOMAIN d.operators}
           f == [k \in DOMAIN d.operators |-> {k} \X DOMAIN d.operators[k].effects]
<1>1. WrittenType(w)
  BY DescriptionsAssumption DEF Task
<1>2. w.operators \in Seq(Operator) /\ DOMAIN w.operators = 1 .. n /\ n \in Nat
  BY <1>1 DEF WrittenType
<1>3. \A k \in DOMAIN w.operators : \E m \in Nat : DOMAIN w.operators[k].effects = 1 .. m
  <2>1. ASSUME NEW k \in DOMAIN w.operators PROVE w.operators[k].effects \in Seq(Transition)
    <3>1. w.operators[k] \in Operator
      BY <1>2
    <3> QED BY <3>1 DEF Operator
  <2> QED BY <2>1
<1>4. /\ DOMAIN d.operators = DOMAIN w.operators
      /\ \A k \in DOMAIN w.operators : DOMAIN d.operators[k].effects = DOMAIN w.operators[k].effects
  BY OperatorsRead
<1> HIDE DEF d, n
<1>5. \A e : e \in effectsOf(d) <=>
        \E k \in DOMAIN w.operators : \E j \in DOMAIN w.operators[k].effects : e = <<k, j>>
  <2>1. effectsOf(d) = UNION S
    BY DEF effectsOf
  <2>2. \A e : e \in UNION S <=> \E k \in DOMAIN d.operators : e \in {k} \X DOMAIN d.operators[k].effects
    OBVIOUS
  <2> QED BY <1>4, <2>1, <2>2
<1>6. \A e \in effectsOf(d) : e = <<e[1], e[2]>> /\ e[1] \in Nat /\ e[2] \in Nat
  BY <1>2, <1>3, <1>5
<1>7. IsFiniteSet(effectsOf(d))
  <2>1. IsFiniteSet(DOMAIN d.operators)
    BY <1>2, <1>4, FS_Interval
  <2>2. f \in Surjection(DOMAIN d.operators, S)
    BY DEF Surjection
  <2>3. IsFiniteSet(S)
    <3> HIDE DEF S, f
    <3> QED BY <2>1, <2>2, FS_Surjection
  <2>4. ASSUME NEW k \in DOMAIN d.operators PROVE IsFiniteSet({k} \X DOMAIN d.operators[k].effects)
    <3>1. IsFiniteSet(DOMAIN d.operators[k].effects)
      BY <1>3, <1>4, FS_Interval
    <3>2. IsFiniteSet({k})
      BY FS_Singleton
    <3> QED BY <3>1, <3>2, FS_Product
  <2>5. \A T \in S : IsFiniteSet(T)
    BY <2>4
  <2>6. IsFiniteSet(UNION S)
    <3> HIDE DEF S
    <3> QED BY <2>3, <2>5, FS_UNION
  <2> QED BY <2>6 DEF effectsOf
<1> QED BY <1>5, <1>6, <1>7 DEF d

\* Two conditional effects, of whichever operators, have different numbers.
LEMMA NumbersDiffer ==
  ASSUME NEW w, Task(w), NEW e \in effectsOf(Meaning(w)), NEW f \in effectsOf(Meaning(w)),
         conditionsOf(Meaning(w), e) # <<>>, conditionsOf(Meaning(w), f) # <<>>,
         currentEffectID(Meaning(w), e) = currentEffectID(Meaning(w), f)
  PROVE  e = f
<1> DEFINE d == Meaning(w)
           before(x) == {g \in effectsOf(d) : /\ conditionsOf(d, g) # <<>>
                                              /\ g[1] < x[1] \/ (g[1] = x[1] /\ g[2] < x[2])}
<1>1. \A x \in effectsOf(d) : x = <<x[1], x[2]>> /\ x[1] \in Nat /\ x[2] \in Nat
  BY EffectsRead
<1>2. IsFiniteSet(effectsOf(d))
  BY EffectsRead
<1> HIDE DEF d
<1>3. ASSUME NEW x \in effectsOf(d), NEW y \in effectsOf(d), conditionsOf(d, x) # <<>>,
             x[1] < y[1] \/ (x[1] = y[1] /\ x[2] < y[2])
      PROVE  Cardinality(before(x)) # Cardinality(before(y))
  <2>1. before(x) \in SUBSET before(y)
    BY <1>1, <1>3
  <2>2. x \in before(y) /\ x \notin before(x)
    BY <1>1, <1>3
  <2>3. before(y) \in SUBSET effectsOf(d)
    OBVIOUS
  <2> HIDE DEF before
  <2>4. IsFiniteSet(before(y))
    BY <1>2, <2>3, FS_Subset
  <2> QED BY <2>1, <2>2, <2>4, FS_Subset
<1>4. \A x : currentEffectID(d, x) = Cardinality(before(x))
  BY DEF currentEffectID
<1>5. Cardinality(before(e)) = Cardinality(before(f))
  <2> HIDE DEF before
  <2> QED BY <1>4 DEF d
<1>6. ~(e[1] < f[1] \/ (e[1] = f[1] /\ e[2] < f[2])) /\ ~(f[1] < e[1] \/ (f[1] = e[1] /\ f[2] < e[2]))
  <2> HIDE DEF before
  <2> QED BY <1>3, <1>5 DEF d
<1> QED BY <1>1, <1>6 DEF d

\* No number is that of the unconditional effects.
LEMMA NumberType ==
  ASSUME NEW w, Task(w), NEW e
  PROVE  currentEffectID(Meaning(w), e) \in Nat
<1> DEFINE before == {g \in effectsOf(Meaning(w)) : /\ conditionsOf(Meaning(w), g) # <<>>
                                                    /\ g[1] < e[1] \/ (g[1] = e[1] /\ g[2] < e[2])}
<1>1. before \in SUBSET effectsOf(Meaning(w)) /\ IsFiniteSet(effectsOf(Meaning(w)))
  BY EffectsRead
<1>2. currentEffectID(Meaning(w), e) = Cardinality(before)
  BY DEF currentEffectID
<1> HIDE DEF before
<1> QED BY <1>1, <1>2, FS_Subset, FS_CardinalityType

-----------------------------------------------------------------------------
\* The number an effect is printed with.
EffectNumber(w, k, j) == IF w.operators[k].effects[j].conditions = <<>> THEN -1
                    ELSE currentEffectID(Meaning(w), <<k, j>>)

\* The conditions of an effect, piece by piece.
LEMMA ConditionsRead ==
  ASSUME NEW w, Task(w), NEW k \in DOMAIN w.operators, NEW j \in DOMAIN w.operators[k].effects
  PROVE  /\ <<k, j>> \in effectsOf(Meaning(w))
         /\ conditionsOf(Meaning(w), <<k, j>>) = Facts(w, w.operators[k].effects[j].conditions)
         /\ conditionsOf(Meaning(w), <<k, j>>) = <<>> <=> w.operators[k].effects[j].conditions = <<>>
<1>1. <<k, j>> \in effectsOf(Meaning(w))
  BY EffectsRead
<1>2. conditionsOf(Meaning(w), <<k, j>>) = Facts(w, w.operators[k].effects[j].conditions)
  BY EffectRead DEF conditionsOf
<1>3. PICK c \in Seq(Fact) : c = w.operators[k].effects[j].conditions
  BY InOperator
<1>4. Facts(w, c) = <<>> <=> c = <<>>
  <2>1. Facts(w, c) \in Seq(Range(Facts(w, c))) /\ DOMAIN Facts(w, c) = DOMAIN c
    BY DEF Facts, Range
  <2>2. DOMAIN c = {} <=> c = <<>>
    OBVIOUS
  <2>3. DOMAIN Facts(w, c) = {} <=> Facts(w, c) = <<>>
    BY <2>1
  <2> QED BY <2>1, <2>2, <2>3
<1> QED BY <1>1, <1>2, <1>3, <1>4

\* The facts printed for an effect and its conditions.
EffectFact(w, k, j) ==
  <<Predicate(w.operators[k]), EffectNumber(w, k, j),
    Printed(w, <<w.operators[k].effects[j].variable, w.operators[k].effects[j].after>>)>>
\* What is printed for one of an effect's conditions.
ConditionFact(w, k, j, l) ==
  <<currentEffectID(Meaning(w), <<k, j>>), Printed(w, w.operators[k].effects[j].conditions[l])>>

\* Effects are printed with their operator, number and conditions.
LEMMA EffectsPrinted ==
  ASSUME Translated
  PROVE  /\ \A p : p \in facts.actions.postcondition <=>
              \E k \in DOMAIN written.operators : \E j \in DOMAIN written.operators[k].effects :
                p = EffectFact(written, k, j)
         /\ \A c : c \in facts.actions.condition <=>
              \E k \in DOMAIN written.operators : \E j \in DOMAIN written.operators[k].effects :
                \E l \in DOMAIN written.operators[k].effects[j].conditions : c = ConditionFact(written, k, j, l)
<1> DEFINE d == Meaning(written)
<1>1. facts.actions = translateActions(d) /\ Task(written)
  BY DEF Translated, translate
<1>2. \A e : e \in effectsOf(d) <=>
        \E k \in DOMAIN written.operators : \E j \in DOMAIN written.operators[k].effects : e = <<k, j>>
  BY <1>1, EffectsRead
<1>3. ASSUME NEW k \in DOMAIN written.operators, NEW j \in DOMAIN written.operators[k].effects
      PROVE  translatePostcondition(d, <<k, j>>) = EffectFact(written, k, j)
  <2>1. conditionsOf(d, <<k, j>>) = <<>> <=> written.operators[k].effects[j].conditions = <<>>
    BY <1>1, ConditionsRead
  <2>2. d.operators[k].predicate = Predicate(written.operators[k])
    BY OperatorsRead
  <2>3. d.operators[k].effects[j].postcondition =
          FactOf(written, <<written.operators[k].effects[j].variable, written.operators[k].effects[j].after>>)
    BY EffectRead
  <2>4. printFact(d, d.operators[k].effects[j].postcondition) =
          Printed(written, <<written.operators[k].effects[j].variable, written.operators[k].effects[j].after>>)
    BY <2>3, PrintFact
  <2> HIDE DEF d
  <2>5. translatePostcondition(d, <<k, j>>) =
          <<d.operators[k].predicate, IF conditionsOf(d, <<k, j>>) = <<>> THEN -1 ELSE currentEffectID(d, <<k, j>>),
            printFact(d, d.operators[k].effects[j].postcondition)>>
    BY DEF translatePostcondition
  <2> QED BY <2>1, <2>2, <2>4, <2>5 DEF EffectFact, EffectNumber, d
<1>4. ASSUME NEW k \in DOMAIN written.operators, NEW j \in DOMAIN written.operators[k].effects
      PROVE  \A c : c \in translateConditions(d, <<k, j>>) <=>
               \E l \in DOMAIN written.operators[k].effects[j].conditions :
                 c = ConditionFact(written, k, j, l)
  <2> DEFINE conditions == written.operators[k].effects[j].conditions
  <2>1. conditionsOf(d, <<k, j>>) = Facts(written, conditions)
    BY <1>1, ConditionsRead
  <2>2. printFacts(d, Range(conditionsOf(d, <<k, j>>))) = {Printed(written, conditions[l]) : l \in DOMAIN conditions}
    <3> HIDE DEF conditions
    <3> QED BY <2>1, PrintFacts
  <2> HIDE DEF conditions, d
  <2>3. \A c : c \in translateConditions(d, <<k, j>>) <=>
          \E l \in DOMAIN conditions : c = <<currentEffectID(d, <<k, j>>), Printed(written, conditions[l])>>
    BY <2>2 DEF translateConditions
  <2> QED BY <2>3 DEF ConditionFact, conditions, d
<1> HIDE DEF d
<1>5. \A p : p \in facts.actions.postcondition <=> \E e \in effectsOf(d) : p = translatePostcondition(d, e)
  BY <1>1 DEF translateActions
<1>6. \A c : c \in facts.actions.condition <=> \E e \in effectsOf(d) : c \in translateConditions(d, e)
  BY <1>1 DEF translateActions
<1>7. \A p : p \in facts.actions.postcondition <=>
        \E k \in DOMAIN written.operators : \E j \in DOMAIN written.operators[k].effects :
          p = EffectFact(written, k, j)
  <2> SUFFICES ASSUME NEW p
               PROVE  p \in facts.actions.postcondition <=>
                        \E k \in DOMAIN written.operators : \E j \in DOMAIN written.operators[k].effects :
                          p = EffectFact(written, k, j)
    OBVIOUS
  <2>1. ASSUME p \in facts.actions.postcondition
        PROVE  \E k \in DOMAIN written.operators : \E j \in DOMAIN written.operators[k].effects :
                 p = EffectFact(written, k, j)
    <3>1. PICK e \in effectsOf(d) : p = translatePostcondition(d, e)
      BY <1>5, <2>1
    <3>2. PICK k \in DOMAIN written.operators : \E j \in DOMAIN written.operators[k].effects : e = <<k, j>>
      BY <1>2
    <3>3. PICK j \in DOMAIN written.operators[k].effects : e = <<k, j>>
      BY <3>2
    <3>4. p = translatePostcondition(d, <<k, j>>)
      BY <3>1, <3>3
    <3> QED BY <1>3, <3>4
  <2>2. ASSUME NEW k \in DOMAIN written.operators, NEW j \in DOMAIN written.operators[k].effects,
               p = EffectFact(written, k, j)
        PROVE  p \in facts.actions.postcondition
    <3>1. <<k, j>> \in effectsOf(d) /\ p = translatePostcondition(d, <<k, j>>)
      BY <1>2, <1>3, <2>2
    <3> QED BY <1>5, <3>1
  <2> QED BY <2>1, <2>2
<1>8. \A c : c \in facts.actions.condition <=>
        \E k \in DOMAIN written.operators : \E j \in DOMAIN written.operators[k].effects :
          \E l \in DOMAIN written.operators[k].effects[j].conditions : c = ConditionFact(written, k, j, l)
  <2> SUFFICES ASSUME NEW c
               PROVE  c \in facts.actions.condition <=>
                        \E k \in DOMAIN written.operators : \E j \in DOMAIN written.operators[k].effects :
                          \E l \in DOMAIN written.operators[k].effects[j].conditions : c = ConditionFact(written, k, j, l)
    OBVIOUS
  <2>1. ASSUME c \in facts.actions.condition
        PROVE  \E k \in DOMAIN written.operators : \E j \in DOMAIN written.operators[k].effects :
                 \E l \in DOMAIN written.operators[k].effects[j].conditions : c = ConditionFact(written, k, j, l)
    <3>1. PICK e \in effectsOf(d) : c \in translateConditions(d, e)
      BY <1>6, <2>1
    <3>2. PICK k \in DOMAIN written.operators : \E j \in DOMAIN written.operators[k].effects : e = <<k, j>>
      BY <1>2
    <3>3. PICK j \in DOMAIN written.operators[k].effects : e = <<k, j>>
      BY <3>2
    <3>4. c \in translateConditions(d, <<k, j>>)
      BY <3>1, <3>3
    <3> QED BY <1>4, <3>4
  <2>2. ASSUME NEW k \in DOMAIN written.operators, NEW j \in DOMAIN written.operators[k].effects,
               \E l \in DOMAIN written.operators[k].effects[j].conditions : c = ConditionFact(written, k, j, l)
        PROVE  c \in facts.actions.condition
    <3>1. <<k, j>> \in effectsOf(d) /\ c \in translateConditions(d, <<k, j>>)
      BY <1>2, <1>4, <2>2
    <3> QED BY <1>6, <3>1
  <2> QED BY <2>1, <2>2
<1> QED BY <1>7, <1>8

-----------------------------------------------------------------------------
\* What holds is what a state of the task says.
HoldsState(st) == Translated /\ st \in States(written) /\ holds = HoldsIn(written, st)

\* An effect takes place if its own conditions hold, and regardless of those of
\* other effects.
LEMMA ConditionsChecked ==
  ASSUME NEW st, HoldsState(st), NEW k \in DOMAIN written.operators, NEW j \in DOMAIN written.operators[k].effects
  PROVE  (\A c \in facts.actions.condition : c[1] = EffectNumber(written, k, j) => c[2] \in holds)
           <=> SAS!AllHold(st, written.operators[k].effects[j].conditions)
<1> DEFINE conditions == written.operators[k].effects[j].conditions
           n == EffectNumber(written, k, j)
<1>1. Translated /\ Task(written) /\ st \in States(written) /\ holds = HoldsIn(written, st)
  BY DEF HoldsState, Translated
<1>2. \A l \in DOMAIN conditions : conditions[l] \in IndexFacts(written)
  BY <1>1, InOperator
<1>3. \A l \in DOMAIN conditions :
        Printed(written, conditions[l]) \in holds <=> st[conditions[l][1] + 1] = conditions[l][2]
  BY <1>1, <1>2, HoldsIff
<1>4. ASSUME conditions = <<>>, NEW c \in facts.actions.condition PROVE c[1] # n
  <2>1. n = -1
    BY <1>4 DEF EffectNumber
  <2>2. PICK k2 \in DOMAIN written.operators : \E j2 \in DOMAIN written.operators[k2].effects :
          \E l \in DOMAIN written.operators[k2].effects[j2].conditions : c = ConditionFact(written, k2, j2, l)
    BY <1>1, <1>4, EffectsPrinted
  <2>3. PICK j2 \in DOMAIN written.operators[k2].effects :
          \E l \in DOMAIN written.operators[k2].effects[j2].conditions : c = ConditionFact(written, k2, j2, l)
    BY <2>2
  <2>4. c[1] = currentEffectID(Meaning(written), <<k2, j2>>)
    BY <2>3 DEF ConditionFact
  <2>5. c[1] \in Nat
    BY <1>1, <2>4, NumberType
  <2> QED BY <2>1, <2>5
<1>5. ASSUME NEW l \in DOMAIN conditions, conditions # <<>>
      PROVE  \E c \in facts.actions.condition : c[1] = n /\ c[2] = Printed(written, conditions[l])
  <2>1. ConditionFact(written, k, j, l) \in facts.actions.condition
    BY <1>1, EffectsPrinted
  <2>2. /\ ConditionFact(written, k, j, l)[1] = n
        /\ ConditionFact(written, k, j, l)[2] = Printed(written, conditions[l])
    BY <1>5 DEF ConditionFact, EffectNumber
  <2> QED BY <2>1, <2>2
<1>6. ASSUME NEW c \in facts.actions.condition, c[1] = n, conditions # <<>>
      PROVE  \E l \in DOMAIN conditions : c[2] = Printed(written, conditions[l])
  <2>2. PICK k2 \in DOMAIN written.operators : \E j2 \in DOMAIN written.operators[k2].effects :
          \E l \in DOMAIN written.operators[k2].effects[j2].conditions : c = ConditionFact(written, k2, j2, l)
    BY <1>1, <1>6, EffectsPrinted
  <2>3. PICK j2 \in DOMAIN written.operators[k2].effects :
          \E l \in DOMAIN written.operators[k2].effects[j2].conditions : c = ConditionFact(written, k2, j2, l)
    BY <2>2
  <2>4. PICK l \in DOMAIN written.operators[k2].effects[j2].conditions : c = ConditionFact(written, k2, j2, l)
    BY <2>3
  <2>5. /\ c[1] = currentEffectID(Meaning(written), <<k2, j2>>)
        /\ c[2] = Printed(written, written.operators[k2].effects[j2].conditions[l])
    BY <2>4 DEF ConditionFact
  <2>6. n = currentEffectID(Meaning(written), <<k, j>>)
    BY <1>6 DEF EffectNumber
  <2>7. written.operators[k2].effects[j2].conditions # <<>>
    BY <2>4
  <2>8. /\ <<k, j>> \in effectsOf(Meaning(written)) /\ <<k2, j2>> \in effectsOf(Meaning(written))
        /\ conditionsOf(Meaning(written), <<k, j>>) # <<>> /\ conditionsOf(Meaning(written), <<k2, j2>>) # <<>>
    BY <1>1, <1>6, <2>7, ConditionsRead
  <2>9. <<k, j>> = <<k2, j2>>
    BY <1>1, <1>6, <2>5, <2>6, <2>8, NumbersDiffer
  <2>10. k = k2 /\ j = j2
    BY <2>9
  <2> QED BY <2>4, <2>5, <2>10
<1>7. SAS!AllHold(st, conditions) <=> \A l \in DOMAIN conditions : st[conditions[l][1] + 1] = conditions[l][2]
  BY DEF SAS!AllHold
<1>8. CASE conditions = <<>>
  BY <1>4, <1>7, <1>8
<1>9. CASE conditions # <<>>
  <2>1. ASSUME \A c \in facts.actions.condition : c[1] = n => c[2] \in holds, NEW l \in DOMAIN conditions
        PROVE  st[conditions[l][1] + 1] = conditions[l][2]
    <3>1. PICK c \in facts.actions.condition : c[1] = n /\ c[2] = Printed(written, conditions[l])
      BY <1>5, <1>9
    <3>2. c[2] \in holds
      BY <2>1, <3>1
    <3> QED BY <1>3, <3>1, <3>2
  <2>2. ASSUME \A l \in DOMAIN conditions : st[conditions[l][1] + 1] = conditions[l][2],
               NEW c \in facts.actions.condition, c[1] = n
        PROVE  c[2] \in holds
    <3>1. PICK l \in DOMAIN conditions : c[2] = Printed(written, conditions[l])
      BY <1>6, <1>9, <2>2
    <3> QED BY <1>3, <2>2, <3>1
  <2> QED BY <1>7, <2>1, <2>2
<1> QED BY <1>8, <1>9

\* What is caused are the changes that the operator makes.
LEMMA CausedChanges ==
  ASSUME NEW st, HoldsState(st), NEW k \in DOMAIN written.operators
  PROVE  caused(Predicate(written.operators[k])) =
           {Printed(written, c) : c \in SAS!Changes(st, written.operators[k])}
<1> DEFINE o == written.operators[k]
           Caused(j) == \A c \in facts.actions.condition : c[1] = EffectNumber(written, k, j) => c[2] \in holds
<1>1. Translated /\ Task(written)
  BY DEF HoldsState, Translated
<1>2. \A p : p \in facts.actions.postcondition /\ p[1] = Predicate(o) <=>
               \E j \in DOMAIN o.effects : p = EffectFact(written, k, j)
  <2>1. ASSUME NEW p \in facts.actions.postcondition, p[1] = Predicate(o)
        PROVE  \E j \in DOMAIN o.effects : p = EffectFact(written, k, j)
    <3>1. PICK k2 \in DOMAIN written.operators :
            \E j \in DOMAIN written.operators[k2].effects : p = EffectFact(written, k2, j)
      BY <1>1, <2>1, EffectsPrinted
    <3>2. p[1] = Predicate(written.operators[k2])
      BY <3>1 DEF EffectFact
    <3>3. k = k2
      BY <1>1, <2>1, <3>2, PredicatesDiffer
    <3> QED BY <3>1, <3>3
  <2>2. ASSUME NEW j \in DOMAIN o.effects
        PROVE  EffectFact(written, k, j) \in facts.actions.postcondition /\ EffectFact(written, k, j)[1] = Predicate(o)
    <3>1. EffectFact(written, k, j) \in facts.actions.postcondition
      BY <1>1, EffectsPrinted
    <3> QED BY <3>1 DEF EffectFact
  <2> QED BY <2>1, <2>2
<1>3. \A x : x \in caused(Predicate(o)) <=>
        \E p \in facts.actions.postcondition :
          /\ p[1] = Predicate(o) /\ x = p[3]
          /\ \A c \in facts.actions.condition : c[1] = p[2] => c[2] \in holds
  BY DEF caused
<1>4. \A j \in DOMAIN o.effects :
        /\ EffectFact(written, k, j)[2] = EffectNumber(written, k, j)
        /\ EffectFact(written, k, j)[3] = Printed(written, <<o.effects[j].variable, o.effects[j].after>>)
  BY DEF EffectFact
<1>5. \A x : x \in caused(Predicate(o)) <=>
        \E j \in DOMAIN o.effects :
          Caused(j) /\ x = Printed(written, <<o.effects[j].variable, o.effects[j].after>>)
  <2>1. ASSUME NEW x \in caused(Predicate(o))
        PROVE  \E j \in DOMAIN o.effects :
                 Caused(j) /\ x = Printed(written, <<o.effects[j].variable, o.effects[j].after>>)
    <3>1. PICK p \in facts.actions.postcondition :
            /\ p[1] = Predicate(o) /\ x = p[3]
            /\ \A c \in facts.actions.condition : c[1] = p[2] => c[2] \in holds
      BY <1>3
    <3>2. PICK j \in DOMAIN o.effects : p = EffectFact(written, k, j)
      BY <1>2, <3>1
    <3>3. p[2] = EffectNumber(written, k, j)
      BY <1>4, <3>2
    <3>4. Caused(j)
      BY <3>1, <3>3
    <3> QED BY <1>4, <3>1, <3>2, <3>4
  <2>2. ASSUME NEW j \in DOMAIN o.effects, Caused(j)
        PROVE  Printed(written, <<o.effects[j].variable, o.effects[j].after>>) \in caused(Predicate(o))
    <3>1. PICK p \in facts.actions.postcondition : p = EffectFact(written, k, j) /\ p[1] = Predicate(o)
      BY <1>2
    <3>2. p[2] = EffectNumber(written, k, j)
          /\ p[3] = Printed(written, <<o.effects[j].variable, o.effects[j].after>>)
      BY <1>4, <3>1
    <3>3. \A c \in facts.actions.condition : c[1] = p[2] => c[2] \in holds
      BY <2>2, <3>2
    <3> QED BY <1>3, <3>1, <3>2, <3>3
  <2> QED BY <2>1, <2>2
<1>6. \A j \in DOMAIN o.effects : Caused(j) <=> SAS!AllHold(st, o.effects[j].conditions)
  BY ConditionsChecked
<1>7. \A c : c \in SAS!Changes(st, o) <=>
        \E j \in DOMAIN o.effects :
          SAS!AllHold(st, o.effects[j].conditions) /\ c = <<o.effects[j].variable, o.effects[j].after>>
  BY DEF SAS!Changes
<1>8. \A x : x \in caused(Predicate(o)) <=> \E c \in SAS!Changes(st, o) : x = Printed(written, c)
  <2> HIDE DEF o, Caused
  <2> QED BY <1>5, <1>6, <1>7
<1>9. caused(Predicate(o)) = {Printed(written, c) : c \in SAS!Changes(st, o)}
  <2> HIDE DEF o
  <2> QED BY <1>8
<1> QED BY <1>9

-----------------------------------------------------------------------------
\* What is printed for a set of index facts.
PrintedAll(w, F) == {Printed(w, f) : f \in F}

\* The index facts of a state.
FactsIn(w, st) == {<<i - 1, st[i]>> : i \in DOMAIN w.variables}

\* One of the facts is the value of variable i.
OneValue(F, i) ==
  \E f \in F : f[1] = i - 1 /\ f[2] # -1 /\ \A g \in F : g[1] = i - 1 /\ g[2] # -1 => g = f

\* The check for unique values sees to it that each variable has one.
LEMMA UniqueIsOne ==
  ASSUME Translated, NEW F \in SUBSET IndexFacts(written)
  PROVE  UniqueValues(PrintedAll(written, F)) <=> \A i \in DOMAIN written.variables : OneValue(F, i)
<1> DEFINE Of(i) == {x \in PrintedAll(written, F) \cap facts.contains : x[1] = written.variables[i].name}
<1>1. Task(written)
  BY DEF Translated
<1>2. UniqueValues(PrintedAll(written, F)) <=> \A i \in DOMAIN written.variables : Cardinality(Of(i)) = 1
  <2>1. facts.variable = {written.variables[i].name : i \in DOMAIN written.variables}
    BY ContainsPrinted
  <2> QED BY <2>1 DEF UniqueValues
<1>3. ASSUME NEW i \in DOMAIN written.variables, NEW f \in F
      PROVE  Printed(written, f) \in Of(i) <=> f[1] = i - 1 /\ f[2] # -1
  <2>1. f \in IndexFacts(written) /\ f[1] \in Int /\ f[1] + 1 \in DOMAIN written.variables
    BY <1>1, IndexFact
  <2>2. i \in Nat
    BY <1>1, InTask
  <2>3. Printed(written, f)[1] = written.variables[f[1] + 1].name
    BY DEF Printed
  <2>4. \A j \in DOMAIN written.variables : written.variables[i].name = written.variables[j].name => i = j
    BY <1>1, DescriptionsAssumption DEF Task, WellNamed
  <2>5. Printed(written, f)[1] = written.variables[i].name <=> f[1] = i - 1
    BY <2>1, <2>2, <2>3, <2>4
  <2>6. Printed(written, f) \in facts.contains <=> f[2] # -1
    <3>1. Printed(written, f) \in facts.contains <=>
            \E g \in IndexFacts(written) : g[2] # -1 /\ Printed(written, f) = Printed(written, g)
      BY ContainsPrinted
    <3>2. \A g \in IndexFacts(written) : Printed(written, f) = Printed(written, g) => f = g
      BY <1>1, <2>1, PrintedDiffer
    <3> QED BY <2>1, <3>1, <3>2
  <2> QED BY <2>5, <2>6 DEF PrintedAll
<1>4. ASSUME NEW i \in DOMAIN written.variables PROVE Cardinality(Of(i)) = 1 <=> OneValue(F, i)
  <2>1. \A f, g \in F : Printed(written, f) = Printed(written, g) => f = g
    BY <1>1, PrintedDiffer
  <2>2. \A x \in Of(i) : \E f \in F : x = Printed(written, f)
    BY DEF PrintedAll
  <2>3. ASSUME Cardinality(Of(i)) = 1 PROVE OneValue(F, i)
    <3> DEFINE m == Len(written.variables[i].values)
               P == {i - 1} \X (0 .. m - 1)
               G == {f \in F : f[1] = i - 1 /\ f[2] # -1}
               print == [f \in G |-> Printed(written, f)]
    <3>1. \A f \in G : f \in P
      <4>1. ASSUME NEW f \in G PROVE f \in P
        <5>1. f = <<f[1], f[2]>> /\ f[1] = i - 1 /\ f[2] # -1 /\ f[2] \in -1 .. Len(written.variables[f[1] + 1].values) - 1
          BY <1>1, IndexFact DEF IndexFacts, InRange
        <5>2. f[1] + 1 = i
          BY <1>1, <5>1, InTask
        <5>3. f[2] \in 0 .. m - 1
          BY <5>1, <5>2
        <5> QED BY <5>1, <5>3
      <4> QED BY <4>1
    <3>2. IsFiniteSet(P)
      <4>1. IsFiniteSet({i - 1}) /\ IsFiniteSet(0 .. m - 1)
        <5>1. m \in Nat
          BY <1>1, DescriptionsAssumption DEF Task, WrittenType, Variable, Values
        <5> HIDE DEF m
        <5>2. PICK r \in Int : r = m - 1
          BY <5>1
        <5>3. IsFiniteSet(0 .. r)
          BY FS_Interval
        <5>4. IsFiniteSet({i - 1})
          BY FS_Singleton, Zenon
        <5> QED BY <5>2, <5>3, <5>4
      <4> QED BY <4>1, FS_Product
    <3>3. IsFiniteSet(G)
      <4> HIDE DEF G, P
      <4> QED BY <3>1, <3>2, FS_Subset
    <3>4. print \in Surjection(G, Of(i))
      <4>1. \A f \in G : Printed(written, f) \in Of(i)
        BY <1>3
      <4>2. \A x \in Of(i) : \E f \in G : x = Printed(written, f)
        BY <1>3, <2>2
      <4> HIDE DEF Of, G
      <4> QED BY <4>1, <4>2 DEF Surjection
    <3>5. IsFiniteSet(Of(i))
      <4> HIDE DEF Of, G, print
      <4> QED BY <3>3, <3>4, FS_Surjection
    <3>6. PICK x : Of(i) = {x}
      <4> HIDE DEF Of
      <4> QED BY <2>3, <3>5, FS_Singleton
    <3>7. PICK f \in F : x = Printed(written, f)
      BY <2>2, <3>6
    <3>8. f[1] = i - 1 /\ f[2] # -1
      BY <1>3, <3>6, <3>7
    <3>9. ASSUME NEW g \in F, g[1] = i - 1, g[2] # -1 PROVE g = f
      <4>1. Printed(written, g) \in Of(i)
        BY <1>3, <3>9
      <4> QED BY <2>1, <3>6, <3>7, <4>1
    <3> QED BY <3>8, <3>9 DEF OneValue
  <2>4. ASSUME OneValue(F, i) PROVE Cardinality(Of(i)) = 1
    <3>1. PICK f \in F : f[1] = i - 1 /\ f[2] # -1 /\ \A g \in F : g[1] = i - 1 /\ g[2] # -1 => g = f
      BY <2>4 DEF OneValue
    <3>2. Of(i) = {Printed(written, f)}
      <4> HIDE DEF Of
      <4> QED BY <1>3, <2>2, <3>1
    <3> QED BY <3>2, FS_Singleton
  <2> QED BY <2>3, <2>4
<1> QED BY <1>2, <1>4

\* In a state, every variable has one value.
LEMMA StateIsUnique ==
  ASSUME NEW w, Task(w), NEW st \in States(w)
  PROVE  /\ FactsIn(w, st) \in SUBSET IndexFacts(w)
         /\ HoldsIn(w, st) = PrintedAll(w, FactsIn(w, st))
         /\ \A i \in DOMAIN w.variables : OneValue(FactsIn(w, st), i)
<1>1. FactsIn(w, st) \in SUBSET IndexFacts(w)
  BY StateFact DEF FactsIn
<1>2. HoldsIn(w, st) = PrintedAll(w, FactsIn(w, st))
  BY DEF HoldsIn, PrintedAll, FactsIn
<1>3. ASSUME NEW i \in DOMAIN w.variables PROVE OneValue(FactsIn(w, st), i)
  <2>1. st[i] \in Nat
    BY DEF States
  <2>2. DOMAIN w.variables \subseteq Int
    BY InTask
  <2>3. PICK f \in FactsIn(w, st) : f = <<i - 1, st[i]>>
    BY DEF FactsIn
  <2>4. ASSUME NEW g \in FactsIn(w, st), g[1] = i - 1 PROVE g = f
    <3>1. PICK j \in DOMAIN w.variables : g = <<j - 1, st[j]>>
      BY DEF FactsIn
    <3>2. j = i
      BY <2>2, <2>4, <3>1
    <3> QED BY <2>3, <3>1, <3>2
  <2>5. f[1] = i - 1 /\ f[2] # -1
    BY <2>1, <2>3
  <2> QED BY <2>4, <2>5 DEF OneValue
<1> QED BY <1>1, <1>2, <1>3

\* The index facts after changes.
NewFacts(w, st, changes) == changes \cup {f \in FactsIn(w, st) : \A c \in changes : c[1] # f[1]}

\* Changes are facts of the task.
LEMMA ChangesInTask ==
  ASSUME NEW w, Task(w), NEW st, NEW k \in DOMAIN w.operators
  PROVE  SAS!Changes(st, w.operators[k]) \in SUBSET IndexFacts(w)
BY InOperator DEF SAS!Changes

\* An occurrence of an operator changes what is printed for its changes, and
\* leaves the other variables' facts alone.
LEMMA InertiaFacts ==
  ASSUME NEW st, HoldsState(st), NEW k \in DOMAIN written.operators
  PROVE  LET changes == SAS!Changes(st, written.operators[k])
         IN  /\ NewFacts(written, st, changes) \in SUBSET IndexFacts(written)
             /\ Inertia(Predicate(written.operators[k])) = PrintedAll(written, NewFacts(written, st, changes))
<1> DEFINE C == SAS!Changes(st, written.operators[k])
           F == FactsIn(written, st)
           a == Predicate(written.operators[k])
<1>1. Translated /\ Task(written) /\ st \in States(written) /\ holds = HoldsIn(written, st)
  BY DEF HoldsState, Translated
<1>2. C \in SUBSET IndexFacts(written)
  BY <1>1, ChangesInTask
<1>3. F \in SUBSET IndexFacts(written) /\ holds = PrintedAll(written, F)
  BY <1>1, StateIsUnique
<1>4. caused(a) = PrintedAll(written, C)
  BY CausedChanges DEF PrintedAll
<1>5. NewFacts(written, st, C) = C \cup {f \in F : \A c \in C : c[1] # f[1]}
  BY DEF NewFacts
<1> HIDE DEF C, F, a
<1>6. \A f, c \in IndexFacts(written) : Printed(written, f)[1] = Printed(written, c)[1] <=> f[1] = c[1]
  BY <1>1, PrintedDiffer
<1>7. \A f \in F : Printed(written, f)[1] \in modified(a) <=> \E c \in C : c[1] = f[1]
  <2>1. modified(a) = {x[1] : x \in PrintedAll(written, C)}
    BY <1>4 DEF modified
  <2>2. \A v : v \in modified(a) <=> \E c \in C : v = Printed(written, c)[1]
    BY <2>1 DEF PrintedAll
  <2> QED BY <1>2, <1>3, <1>6, <2>2
<1>8. Inertia(a) = PrintedAll(written, C) \cup {x \in PrintedAll(written, F) : x[1] \notin modified(a)}
  BY <1>3, <1>4 DEF Inertia
<1>9. {x \in PrintedAll(written, F) : x[1] \notin modified(a)} =
        PrintedAll(written, {f \in F : \A c \in C : c[1] # f[1]})
  BY <1>7 DEF PrintedAll
<1>10. Inertia(a) = PrintedAll(written, NewFacts(written, st, C))
  BY <1>5, <1>8, <1>9 DEF PrintedAll
<1>11. NewFacts(written, st, C) \in SUBSET IndexFacts(written)
  BY <1>2, <1>3, <1>5
<1> QED BY <1>10, <1>11 DEF C, a

\* Changes that do not contradict each other lead to the resulting state.
LEMMA ResultFacts ==
  ASSUME NEW w, Task(w), NEW st \in States(w), NEW C \in SUBSET IndexFacts(w),
         SAS!Consistent(C), \A c \in C : c[2] # -1
  PROVE  /\ SAS!Result(st, C) \in States(w)
         /\ NewFacts(w, st, C) = FactsIn(w, SAS!Result(st, C))
<1> DEFINE r == SAS!Result(st, C)
           F == FactsIn(w, st)
<1>1. DOMAIN st = DOMAIN w.variables /\ DOMAIN w.variables \subseteq Int
  BY InTask DEF States
<1>2. /\ DOMAIN r = DOMAIN w.variables
      /\ \A i \in DOMAIN w.variables :
           r[i] = IF \E c \in C : c[1] = i - 1 THEN (CHOOSE c \in C : c[1] = i - 1)[2] ELSE st[i]
  BY <1>1 DEF SAS!Result
<1> HIDE DEF r
<1>3. ASSUME NEW i \in DOMAIN w.variables, NEW c \in C, c[1] = i - 1
      PROVE  r[i] = c[2] /\ c = <<i - 1, r[i]>> /\ r[i] \in Nat /\ r[i] < Len(w.variables[i].values)
  <2>1. (CHOOSE d \in C : d[1] = i - 1) = c
    BY <1>3 DEF SAS!Consistent
  <2>2. r[i] = c[2]
    BY <1>2, <1>3, <2>1
  <2>3. c = <<c[1], c[2]>> /\ c[2] \in Int /\ c[2] + 1 \in DOMAIN w.variables[c[1] + 1].values
    BY IndexFact
  <2>4. c[1] + 1 = i
    BY <1>1, <1>3
  <2>5. c[2] + 1 \in 1 .. Len(w.variables[i].values) /\ Len(w.variables[i].values) \in Nat
    <3>1. w.variables[i] \in Variable
      BY DescriptionsAssumption DEF Task, WrittenType
    <3> QED BY <2>3, <2>4, <3>1 DEF Variable, Values
  <2> QED BY <1>3, <2>2, <2>3, <2>5
<1>4. ASSUME NEW i \in DOMAIN w.variables, ~\E c \in C : c[1] = i - 1
      PROVE  r[i] = st[i] /\ r[i] \in Nat /\ r[i] < Len(w.variables[i].values)
  BY <1>2, <1>4 DEF States
<1>5. r \in States(w)
  <2>1. r = [i \in DOMAIN w.variables |-> r[i]]
    BY <1>1 DEF r, SAS!Result
  <2>2. \A i \in DOMAIN w.variables : r[i] \in Nat /\ r[i] < Len(w.variables[i].values)
    BY <1>3, <1>4
  <2> QED BY <2>1, <2>2 DEF States
<1>6. ASSUME NEW i \in DOMAIN w.variables PROVE <<i - 1, r[i]>> \in NewFacts(w, st, C)
  <2>1. CASE \E c \in C : c[1] = i - 1
    BY <1>3, <2>1 DEF NewFacts
  <2>2. CASE ~\E c \in C : c[1] = i - 1
    <3>1. <<i - 1, r[i]>> \in F /\ <<i - 1, r[i]>>[1] = i - 1
      BY <1>4, <2>2 DEF FactsIn
    <3> QED BY <2>2, <3>1 DEF NewFacts
  <2> QED BY <2>1, <2>2
<1>7. ASSUME NEW f \in NewFacts(w, st, C) PROVE f \in FactsIn(w, r)
  <2>1. CASE f \in C
    <3>1. PICK i \in DOMAIN w.variables : f[1] = i - 1
      BY <2>1, <1>1, IndexFact
    <3> QED BY <1>3, <2>1, <3>1 DEF FactsIn
  <2>2. CASE f \notin C
    <3>1. f \in F /\ \A c \in C : c[1] # f[1]
      BY <2>2 DEF NewFacts
    <3>2. PICK i \in DOMAIN w.variables : f = <<i - 1, st[i]>>
      BY <3>1 DEF FactsIn
    <3>3. ~\E c \in C : c[1] = i - 1
      BY <3>1, <3>2
    <3>4. r[i] = st[i]
      BY <1>4, <3>3
    <3> QED BY <3>2, <3>4 DEF FactsIn
  <2> QED BY <2>1, <2>2
<1>8. NewFacts(w, st, C) = FactsIn(w, r)
  BY <1>6, <1>7 DEF FactsIn
<1> QED BY <1>5, <1>8 DEF r

\* Where values are unique after an occurrence, its changes do not contradict each
\* other, and assign values.
LEMMA ChangesAgree ==
  ASSUME NEW st, HoldsState(st), NEW k \in DOMAIN written.operators,
         UniqueValues(Inertia(Predicate(written.operators[k])))
  PROVE  LET changes == SAS!Changes(st, written.operators[k])
         IN  SAS!Consistent(changes) /\ \A c \in changes : c[2] # -1
<1> DEFINE o == written.operators[k]
           C == SAS!Changes(st, o)
           F == NewFacts(written, st, C)
<1>1. Translated /\ Task(written)
  BY DEF HoldsState, Translated
<1>2. \A i \in DOMAIN written.variables : OneValue(F, i)
  <2>1. F \in SUBSET IndexFacts(written) /\ UniqueValues(PrintedAll(written, F))
    BY InertiaFacts
  <2> HIDE DEF F
  <2> QED BY <1>1, <2>1, UniqueIsOne
<1>3. C \in SUBSET IndexFacts(written)
  BY <1>1, ChangesInTask
<1>4. ASSUME NEW c \in C
      PROVE  \E f \in C : f[1] = c[1] /\ f[2] # -1 /\ \A g \in C : g[1] = c[1] /\ g[2] # -1 => g = f
  <2> HIDE DEF C
  <2>1. PICK i \in DOMAIN written.variables : c[1] = i - 1
    <3>1. c[1] \in Int /\ c[1] + 1 \in DOMAIN written.variables
      BY <1>1, <1>3, IndexFact
    <3> QED BY <3>1
  <2>2. PICK f \in F : f[1] = c[1] /\ f[2] # -1 /\ \A g \in F : g[1] = c[1] /\ g[2] # -1 => g = f
    BY <1>2, <2>1 DEF OneValue
  <2>3. f \in C /\ C \subseteq F
    BY <2>2 DEF NewFacts
  <2> QED BY <2>2, <2>3
<1>5. ASSUME NEW c \in C, NEW f \in C, c[1] = f[1], c[2] = -1 PROVE f[2] = -1
  <2>1. PICK j \in DOMAIN o.effects : c = <<o.effects[j].variable, o.effects[j].after>>
    BY DEF SAS!Changes
  <2>2. PICK l \in DOMAIN o.effects : f = <<o.effects[l].variable, o.effects[l].after>>
    BY DEF SAS!Changes
  <2>3. o.effects[j] \in Range(o.effects) /\ o.effects[l] \in Range(o.effects) /\ o \in Range(written.operators)
    BY DEF Range
  <2>4. AssignsOne(written)
    BY <1>1, DescriptionsAssumption DEF Task
  <2>5. o.effects[j].variable = o.effects[l].variable /\ o.effects[j].after = -1
    BY <1>5, <2>1, <2>2
  <2>6. o.effects[l].after = -1
    BY <2>3, <2>4, <2>5 DEF AssignsOne
  <2> QED BY <2>2, <2>6
<1> HIDE DEF C
<1>6. \A c \in C : c[2] # -1
  BY <1>4, <1>5
<1>7. \A c, d \in C : c[1] = d[1] => c = d
  BY <1>4, <1>6
<1> QED BY <1>6, <1>7 DEF SAS!Consistent, C

\* An operator that is possible is applicable, and the other way round.
LEMMA PossibleIsApplicable ==
  ASSUME NEW st, HoldsState(st), NEW k \in DOMAIN written.operators
  PROVE  Possible(Predicate(written.operators[k])) <=> SAS!Applicable(st, written.operators[k])
<1> DEFINE o == written.operators[k]
<1>1. Translated /\ Task(written) /\ st \in States(written) /\ holds = HoldsIn(written, st)
  BY DEF HoldsState, Translated
<1>2. Possible(Predicate(o)) <=> \A f \in Needs(o) : Printed(written, f) \in holds
  <2>1. ASSUME Possible(Predicate(o)), NEW f \in Needs(o) PROVE Printed(written, f) \in holds
    <3>1. <<Predicate(o), Printed(written, f)>> \in facts.actions.precondition
      BY <1>1, <2>1, PreconditionsPrinted
    <3> QED BY <2>1, <3>1 DEF Possible
  <2>2. ASSUME \A f \in Needs(o) : Printed(written, f) \in holds,
               NEW p \in facts.actions.precondition, p[1] = Predicate(o)
        PROVE  p[2] \in holds
    <3>1. PICK i \in DOMAIN written.operators : \E f \in Needs(written.operators[i]) :
            p = <<Predicate(written.operators[i]), Printed(written, f)>>
      BY <1>1, <2>2, PreconditionsPrinted
    <3>2. PICK f \in Needs(written.operators[i]) : p = <<Predicate(written.operators[i]), Printed(written, f)>>
      BY <3>1
    <3>3. i = k
      BY <1>1, <2>2, <3>2, PredicatesDiffer
    <3> QED BY <2>2, <3>2, <3>3
  <2> QED BY <2>1, <2>2 DEF Possible
<1>3. \A f \in Needs(o) : f \in IndexFacts(written)
  <2>1. \A f \in Range(o.prevail) : f \in IndexFacts(written)
    BY <1>1, InOperator
  <2>2. \A e \in Range(o.effects) : <<e.variable, e.before>> \in IndexFacts(written)
    BY <1>1, InOperator DEF Range
  <2> QED BY <2>1, <2>2 DEF Needs
<1>4. Possible(Predicate(o)) <=> \A f \in Needs(o) : st[f[1] + 1] = f[2]
  <2> HIDE DEF o
  <2> QED BY <1>1, <1>2, <1>3, HoldsIff
<1>5. (\A f \in Needs(o) : st[f[1] + 1] = f[2]) <=>
        /\ \A f \in Range(o.prevail) : st[f[1] + 1] = f[2]
        /\ \A e \in Range(o.effects) : e.before # -1 => st[e.variable + 1] = e.before
  <2> HIDE DEF o
  <2>1. \A f : f \in Needs(o) <=>
               \/ f \in Range(o.prevail)
               \/ \E e \in Range(o.effects) : e.before # -1 /\ f = <<e.variable, e.before>>
    BY DEF Needs
  <2>2. ASSUME \A f \in Needs(o) : st[f[1] + 1] = f[2], NEW e \in Range(o.effects), e.before # -1
        PROVE  st[e.variable + 1] = e.before
    <3>1. PICK f \in Needs(o) : f = <<e.variable, e.before>>
      BY <2>1, <2>2
    <3> QED BY <2>2, <3>1
  <2> QED BY <2>1, <2>2
<1>6. SAS!Applicable(st, o) <=>
        /\ \A f \in Range(o.prevail) : st[f[1] + 1] = f[2]
        /\ \A e \in Range(o.effects) : e.before # -1 => st[e.variable + 1] = e.before
  <2> HIDE DEF o
  <2> QED BY DEF SAS!Applicable, SAS!AllHold, SAS!HasValue, Range
<1> QED BY <1>4, <1>5, <1>6

\* The state that is read off what holds.
StateIn(w, h) ==
  [i \in DOMAIN w.variables |->
     CHOOSE j \in 0 .. Len(w.variables[i].values) - 1 :
       <<w.variables[i].name, printValue(w.variables[i].values[j + 1])>> \in h]

\* It is the one which what holds is printed for.
LEMMA StateReadOff ==
  ASSUME NEW w, Task(w), NEW st \in States(w)
  PROVE  StateIn(w, HoldsIn(w, st)) = st
<1>1. ASSUME NEW i \in DOMAIN w.variables
      PROVE  st[i] = CHOOSE j \in 0 .. Len(w.variables[i].values) - 1 :
                       <<w.variables[i].name, printValue(w.variables[i].values[j + 1])>> \in HoldsIn(w, st)
  <2> DEFINE Holding(j) == <<w.variables[i].name, printValue(w.variables[i].values[j + 1])>> \in HoldsIn(w, st)
             m == Len(w.variables[i].values)
  <2>1. i \in 1 .. Len(w.variables) /\ Len(w.variables) \in Nat
    BY InTask
  <2>2. m \in Nat
    <3>1. w.variables[i] \in Variable
      BY DescriptionsAssumption DEF Task, WrittenType
    <3> QED BY <3>1 DEF Variable, Values
  <2>3. st[i] \in 0 .. m - 1
    BY <2>2 DEF States
  <2>4. ASSUME NEW j \in 0 .. m - 1 PROVE Holding(j) <=> st[i] = j
    <3>1. PICK f1 \in Int : f1 = i - 1 /\ f1 + 1 = i
      BY <2>1
    <3>2. f1 \in 0 .. Len(w.variables) - 1
      BY <2>1, <3>1
    <3>3. j \in Int /\ j # -1 /\ j \in -1 .. Len(w.variables[f1 + 1].values) - 1
      BY <2>2, <3>1
    <3>4. <<f1, j>> \in IndexFacts(w)
      BY <3>1, <3>2, <3>3 DEF IndexFacts, Fact, InRange
    <3>5. Printed(w, <<f1, j>>) = <<w.variables[i].name, printValue(w.variables[i].values[j + 1])>>
      BY <3>1, <3>3 DEF Printed, ValueOf
    <3>6. Printed(w, <<f1, j>>) \in HoldsIn(w, st) <=> st[<<f1, j>>[1] + 1] = <<f1, j>>[2]
      BY <3>4, HoldsIff
    <3> QED BY <3>1, <3>5, <3>6
  <2>5. (CHOOSE j \in 0 .. m - 1 : Holding(j)) = st[i]
    <3> HIDE DEF Holding, m
    <3> QED BY <2>3, <2>4
  <2> QED BY <2>5
<1>2. st = [i \in DOMAIN w.variables |-> st[i]]
  BY DEF States
<1> QED BY <1>1, <1>2 DEF StateIn

-----------------------------------------------------------------------------
\* An initial state that gives every variable a value is printed as what holds in it.
LEMMA InitialFacts ==
  ASSUME Translated, \A i \in DOMAIN written.variables : written.initialState[i] # -1
  PROVE  /\ written.initialState \in States(written)
         /\ facts.initialState = HoldsIn(written, written.initialState)
         /\ UniqueValues(facts.initialState)
<1> DEFINE st == written.initialState
<1>1. Task(written)
  BY DEF Translated
<1>2. st \in Seq(Int) /\ DOMAIN st = DOMAIN written.variables
  BY <1>1, InTask, DescriptionsAssumption DEF Task, WrittenType
<1>3. ASSUME NEW i \in DOMAIN written.variables PROVE st[i] \in Nat /\ st[i] < Len(written.variables[i].values)
  <2>1. st[i] \in Int /\ st[i] # -1 /\ <<i - 1, st[i]>> \in IndexFacts(written)
    BY <1>1, <1>2, InTask
  <2>2. i \in 1 .. Len(written.variables) /\ Len(written.variables) \in Nat
    BY <1>1, InTask
  <2>3. Len(written.variables[i].values) \in Nat
    <3>1. written.variables[i] \in Variable
      BY <1>1, DescriptionsAssumption DEF Task, WrittenType
    <3> QED BY <3>1 DEF Variable, Values
  <2>4. PICK f1 \in Int, f2 \in Int : f1 = i - 1 /\ f2 = st[i] /\ f1 + 1 = i
    BY <2>1, <2>2
  <2>5. InRange(written, <<f1, f2>>)
    BY <2>1, <2>4 DEF IndexFacts
  <2>6. f2 \in -1 .. Len(written.variables[f1 + 1].values) - 1
    BY <2>5 DEF InRange
  <2> QED BY <2>1, <2>3, <2>4, <2>6
<1>4. st \in [DOMAIN written.variables -> Nat]
  <2>1. st = [i \in DOMAIN written.variables |-> st[i]]
    BY <1>2
  <2> HIDE DEF st
  <2> QED BY <1>3, <2>1
<1>5. st \in States(written)
  BY <1>3, <1>4 DEF States
<1>6. facts.initialState = HoldsIn(written, st)
  BY <1>2, TaskPrinted DEF HoldsIn
<1>7. UniqueValues(HoldsIn(written, st))
  <2> HIDE DEF st
  <2>1. /\ FactsIn(written, st) \in SUBSET IndexFacts(written)
        /\ HoldsIn(written, st) = PrintedAll(written, FactsIn(written, st))
        /\ \A i \in DOMAIN written.variables : OneValue(FactsIn(written, st), i)
    BY <1>1, <1>5, StateIsUnique
  <2>2. UniqueValues(PrintedAll(written, FactsIn(written, st)))
    BY <2>1, UniqueIsOne
  <2> QED BY <2>1, <2>2
<1> QED BY <1>5, <1>6, <1>7

\* The planner does not start from one that leaves a value open.
LEMMA StartsInState ==
  ASSUME Translated, UniqueValues(facts.initialState)
  PROVE  \A i \in DOMAIN written.variables : written.initialState[i] # -1
<1> DEFINE F == FactsIn(written, written.initialState)
<1>1. Task(written) /\ DOMAIN written.initialState = DOMAIN written.variables /\ DOMAIN written.variables \subseteq Int
  BY InTask DEF Translated
<1>2. facts.initialState = PrintedAll(written, F)
  BY <1>1, TaskPrinted DEF PrintedAll, FactsIn
<1>3. F \in SUBSET IndexFacts(written)
  BY <1>1, InTask DEF FactsIn
<1>4. \A i \in DOMAIN written.variables : OneValue(F, i)
  <2> HIDE DEF F
  <2> QED BY <1>2, <1>3, UniqueIsOne
<1>5. ASSUME NEW i \in DOMAIN written.variables PROVE written.initialState[i] # -1
  <2>1. PICK f \in F : f[1] = i - 1 /\ f[2] # -1
    BY <1>4 DEF OneValue
  <2>2. PICK j \in DOMAIN written.variables : f = <<j - 1, written.initialState[j]>>
    BY <2>1 DEF FactsIn
  <2>3. j = i
    BY <1>1, <2>1, <2>2
  <2> QED BY <2>1, <2>2, <2>3
<1> QED BY <1>5

\* An occurrence whose changes agree leads to what holds in the resulting state.
LEMMA OccursResult ==
  ASSUME NEW st, HoldsState(st), NEW k \in DOMAIN written.operators, NEW changes,
         changes = SAS!Changes(st, written.operators[k]),
         SAS!Consistent(changes), \A c \in changes : c[2] # -1
  PROVE  /\ SAS!Result(st, changes) \in States(written)
         /\ Inertia(Predicate(written.operators[k])) = HoldsIn(written, SAS!Result(st, changes))
         /\ UniqueValues(Inertia(Predicate(written.operators[k])))
<1> DEFINE r == SAS!Result(st, changes)
           B == Inertia(Predicate(written.operators[k]))
<1>1. Translated /\ Task(written) /\ st \in States(written)
  BY DEF HoldsState, Translated
<1>2. changes \in SUBSET IndexFacts(written)
  BY <1>1, ChangesInTask
<1>3. r \in States(written) /\ NewFacts(written, st, changes) = FactsIn(written, r)
  BY <1>1, <1>2, ResultFacts
<1>4. B = PrintedAll(written, NewFacts(written, st, changes))
  BY InertiaFacts
<1> HIDE DEF r, B
<1>5. /\ FactsIn(written, r) \in SUBSET IndexFacts(written)
      /\ HoldsIn(written, r) = PrintedAll(written, FactsIn(written, r))
      /\ \A i \in DOMAIN written.variables : OneValue(FactsIn(written, r), i)
  BY <1>1, <1>3, StateIsUnique
<1>6. B = HoldsIn(written, r) /\ UniqueValues(B)
  BY <1>1, <1>3, <1>4, <1>5, UniqueIsOne
<1> QED BY <1>3, <1>6 DEF r, B

-----------------------------------------------------------------------------
\* The planner knows about a task that has been translated, and what holds is what
\* one of the task's states says.
IInv ==
  /\ written \in Descriptions
  /\ stage # "planning" => time = 0 /\ solved = FALSE
  /\ stage \in {"translated", "planning"} => Translated
  /\ stage = "planning" => \E st : HoldsState(st)

\* A section that is read is followed by the next one, if it could be read.
LEMMA ParseSteps ==
  ASSUME SParse
  PROVE  /\ stage \notin {"read", "translated", "planning"} /\ stage' \notin {"translated", "planning"}
         /\ UNCHANGED <<written, facts, holds, time, solved>>
<1>1. \A name, next : \A t : Section(name, t, next) =>
        stage = name /\ stage' \in {"failed", next} /\ written' = written
  BY DEF Section
<1>2. Parse /\ UNCHANGED <<facts, holds, time, solved>>
  BY DEF SParse
<1> QED BY <1>1, <1>2 DEF Parse, ParseVersion, ParseMetric, ParseVariables, ParseMutexGroups, ParseInitialState,
                          ParseGoal, ParseOperators, ParseAxiomRules

\* What has been translated stays so.
LEMMA TranslatedStays ==
  ASSUME Translated, UNCHANGED <<written, s, facts>>
  PROVE  Translated'
BY DEF Translated, Task

\* What a state of the task says stays what holds as long as that does not change.
LEMMA HoldsStays ==
  ASSUME NEW st, st \in States(written), Translated', written' = written, holds' = HoldsIn(written, st)
  PROVE  HoldsState(st)'
BY DEF HoldsState, States, HoldsIn, Printed

\* What the solver starts with is the initial state.
LEMMA StartFollows ==
  ASSUME Translated, Start
  PROVE  /\ Translated' /\ stage' = "planning"
         /\ \E st : st = written.initialState /\ HoldsState(st)'
<1>1. /\ stage' = "planning" /\ UNCHANGED <<written, s, facts, time, solved>>
      /\ UniqueValues(facts.initialState) /\ holds' = facts.initialState
  BY DEF Start
<1>2. written.initialState \in States(written) /\ holds' = HoldsIn(written, written.initialState)
  BY <1>1, InitialFacts, StartsInState
<1>3. PICK st : st = written.initialState
  OBVIOUS
<1>4. Translated'
  BY <1>1, TranslatedStays
<1>5. HoldsState(st)'
  BY <1>1, <1>2, <1>3, <1>4, HoldsStays
<1> QED BY <1>1, <1>3, <1>4, <1>5

\* What occurs is an operator that is applicable, and its changes are made.
LEMMA OccursFollows ==
  ASSUME NEW st, HoldsState(st), NEW a \in facts.actions.action, Occurs(a)
  PROVE  /\ Translated'
         /\ \E k \in DOMAIN written.operators : \E r :
              /\ SAS!Applicable(st, written.operators[k])
              /\ SAS!Consistent(SAS!Changes(st, written.operators[k]))
              /\ r = SAS!Result(st, SAS!Changes(st, written.operators[k]))
              /\ HoldsState(r)'
<1>1. /\ UNCHANGED <<written, s, stage, facts, solved>> /\ holds' = Inertia(a)
      /\ Possible(a) /\ UniqueValues(Inertia(a)) /\ Translated
  BY DEF Occurs, HoldsState, dvars
<1>2. PICK k \in DOMAIN written.operators : a = Predicate(written.operators[k])
  BY <1>1, PreconditionsPrinted
<1>3. PICK changes : changes = SAS!Changes(st, written.operators[k])
  OBVIOUS
<1>4. SAS!Consistent(changes) /\ \A c \in changes : c[2] # -1
  BY <1>1, <1>2, <1>3, ChangesAgree
<1>5. PICK r : r = SAS!Result(st, changes)
  OBVIOUS
<1>6. r \in States(written) /\ Inertia(a) = HoldsIn(written, r)
  BY <1>2, <1>3, <1>4, <1>5, OccursResult
<1>7. Translated' /\ HoldsState(r)'
  BY <1>1, <1>6, TranslatedStays, HoldsStays
<1>8. SAS!Applicable(st, written.operators[k])
  BY <1>1, <1>2, PossibleIsApplicable
<1> QED BY <1>3, <1>4, <1>5, <1>7, <1>8

\* The invariant is kept, as far as the description is what was written.
LEMMA Invariant ==
  ASSUME IInv, SASReadAsWritten, [SNext]_svars
  PROVE  IInv'
<1>1. CASE SParse
  BY <1>1, ParseSteps DEF IInv
<1>2. CASE Translate
  <2>1. Task(written) /\ s.description = Meaning(written)
    BY <1>2 DEF Translate, SASReadAsWritten, IInv, Task
  <2>2. facts' = translate(Meaning(written)) /\ UNCHANGED <<written, s, holds, time, solved>>
        /\ stage = "read" /\ stage' = "translated"
    BY <1>2, <2>1 DEF Translate
  <2>3. Translated'
    BY <2>1, <2>2 DEF Translated, Task
  <2> QED BY <2>2, <2>3 DEF IInv
<1>3. CASE Start
  <2>1. /\ stage = "translated" /\ UNCHANGED <<written, time, solved>>
        /\ Translated
    BY <1>3 DEF Start, IInv
  <2> QED BY <1>3, <2>1, StartFollows DEF IInv
<1>4. CASE \E a \in facts.actions.action : Occurs(a)
  <2>1. PICK a \in facts.actions.action : Occurs(a)
    BY <1>4
  <2>2. stage = "planning" /\ UNCHANGED <<written, stage>>
    BY <2>1 DEF Occurs, dvars
  <2>3. PICK st : HoldsState(st)
    BY <2>2 DEF IInv
  <2>4. Translated' /\ \E r : HoldsState(r)'
    BY <2>1, <2>3, OccursFollows
  <2> QED BY <2>2, <2>4 DEF IInv
<1>5. CASE Solve
  <2>1. stage = "planning" /\ UNCHANGED <<dvars, facts, holds, time>>
    BY <1>5 DEF Solve
  <2>2. PICK st : HoldsState(st)
    BY <2>1 DEF IInv
  <2>3. HoldsState(st)'
    BY <2>1, <2>2, TranslatedStays, HoldsStays DEF dvars, HoldsState
  <2> QED BY <2>1, <2>3, TranslatedStays DEF IInv, dvars
<1>6. CASE UNCHANGED svars
  <2>1. UNCHANGED <<written, s, stage, facts, holds, time, solved>>
    BY <1>6 DEF svars, dvars
  <2>2. \A st : HoldsState(st) => HoldsState(st)'
    BY <2>1, TranslatedStays, HoldsStays DEF HoldsState
  <2> QED BY <2>1, <2>2, TranslatedStays DEF IInv
<1> QED BY <1>1, <1>2, <1>3, <1>4, <1>5, <1>6 DEF SNext

\* At the beginning there is nothing to know.
LEMMA InvariantInit ==
  ASSUME SInit
  PROVE  IInv
BY DEF SInit, Init, IInv

-----------------------------------------------------------------------------
\* Axioms are announced if and only if the task has them.
LEMMA AxiomsAnnounced ==
  ASSUME Translated
  PROVE  "axiomRules" \notin facts.requires <=> SAS!WithoutAxioms(written)
<1> DEFINE d == Meaning(written)
           rule(i) == [conditions    |-> Range(Facts(written, written.axiomRules[i].conditions))
                                           \cup Before(written, <<written.axiomRules[i]>>),
                       postcondition |-> After(written, written.axiomRules[i])]
<1>1. WrittenType(written)
  BY DescriptionsAssumption DEF Translated, Task
<1>2. d.variables = written.variables /\ d.axiomRules = [i \in DOMAIN written.axiomRules |-> rule(i)]
  BY DEF Meaning
<1>3. d.axiomRules = <<>> <=> written.axiomRules = <<>>
  <2> HIDE DEF d, rule
  <2>1. written.axiomRules \in Seq(Transition)
    BY <1>1 DEF WrittenType
  <2>2. DOMAIN d.axiomRules = DOMAIN written.axiomRules
    BY <1>2
  <2>3. DOMAIN written.axiomRules = 1 .. Len(written.axiomRules) /\ Len(written.axiomRules) \in Nat
    BY <2>1
  <2>4. written.axiomRules = <<>> <=> Len(written.axiomRules) = 0
    BY <2>1
  <2>5. ASSUME Len(written.axiomRules) = 0 PROVE d.axiomRules = <<>>
    BY <1>2, <2>3, <2>5
  <2>6. d.axiomRules = <<>> => DOMAIN d.axiomRules = {}
    OBVIOUS
  <2> QED BY <2>2, <2>3, <2>4, <2>5, <2>6
<1>4. facts.requires = Requirements(d)
  BY DEF Translated, translate
<1> HIDE DEF d, rule
<1>5. "axiomRules" \in Requirements(d) <=> usesAxiomRules(d)
  BY DEF Requirements
<1>6. usesAxiomRules(d) <=> ~SAS!WithoutAxioms(written)
  BY <1>2, <1>3 DEF usesAxiomRules, SAS!WithoutAxioms
<1> QED BY <1>4, <1>5, <1>6

\* The goal is met where the task's goal is.
LEMMA GoalAgrees ==
  ASSUME NEW st, HoldsState(st)
  PROVE  facts.goal \subseteq holds <=> SAS!AllHold(st, written.goal)
<1>1. Translated /\ Task(written) /\ st \in States(written) /\ holds = HoldsIn(written, st)
  BY DEF HoldsState, Translated
<1>2. facts.goal = {Printed(written, written.goal[i]) : i \in DOMAIN written.goal}
  BY <1>1, TaskPrinted
<1>3. \A i \in DOMAIN written.goal : Printed(written, written.goal[i]) \in holds
                                       <=> st[written.goal[i][1] + 1] = written.goal[i][2]
  BY <1>1, InTask, HoldsIff
<1>4. facts.goal \subseteq holds <=> \A i \in DOMAIN written.goal : Printed(written, written.goal[i]) \in holds
  BY <1>2
<1> QED BY <1>3, <1>4 DEF SAS!AllHold

\* What the planner sees of a state with a known task.
LEMMA Seen ==
  ASSUME NEW st, HoldsState(st)
  PROVE  StateWritten = st /\ st # NoState
<1>1. Task(written) /\ st \in States(written) /\ holds = HoldsIn(written, st)
  BY DEF HoldsState, Translated
<1>2. StateWritten = StateIn(written, holds)
  BY DEF StateWritten, StateIn
<1>3. StateWritten = st
  BY <1>1, <1>2, StateReadOff
<1>4. st \in [DOMAIN written.variables -> Int]
  BY <1>1 DEF States
<1> QED BY <1>1, <1>3, <1>4, PlansAssumption DEF Task

\* The same after a step.
LEMMA SeenNext ==
  ASSUME NEW st, HoldsState(st)'
  PROVE  StateWritten' = st /\ st # NoState
<1>1. Task(written') /\ st \in States(written') /\ holds' = HoldsIn(written', st)
  BY DEF HoldsState, Translated, States, HoldsIn, Printed, Task
<1>2. StateWritten' = StateIn(written', holds')
  BY DEF StateWritten, StateIn
<1>3. StateWritten' = st
  BY <1>1, <1>2, StateReadOff
<1>4. st \in [DOMAIN written'.variables -> Int]
  BY <1>1 DEF States
<1> QED BY <1>1, <1>3, <1>4, PlansAssumption DEF Task

\* What the planner sees.
seen == <<written, IF Planning THEN StateWritten ELSE NoState, IF Planning THEN time ELSE 0, Planning /\ solved>>

\* Every step is one of a plan of the task, or one that the planner does not see.
LEMMA StepFollows ==
  ASSUME IInv, IInv', [SNext]_svars
  PROVE  [SAS!Next]_seen
<1>1. CASE SParse
  <2>1. ~Planning /\ ~Planning' /\ written' = written
    BY <1>1, ParseSteps DEF Planning
  <2> QED BY <2>1 DEF seen
<1>2. CASE Translate
  <2>1. ~Planning /\ ~Planning' /\ written' = written
    BY <1>2 DEF Translate, Planning
  <2> QED BY <2>1 DEF seen
<1>3. CASE Start
  <2>1. /\ stage = "translated" /\ UNCHANGED <<written, facts, time, solved>> /\ Translated
        /\ time = 0 /\ solved = FALSE
    BY <1>3 DEF Start, IInv
  <2>2. PICK st : st = written.initialState /\ HoldsState(st)'
    BY <1>3, <2>1, StartFollows
  <2>3. ~Planning /\ (Planning' <=> "axiomRules" \notin facts.requires)
    BY <1>3, <2>1, StartFollows DEF Planning
  <2>4. CASE Planning'
    <3>1. SAS!WithoutAxioms(written)
      BY <2>1, <2>3, <2>4, AxiomsAnnounced
    <3>2. StateWritten' = written.initialState
      BY <2>2, SeenNext
    <3>3. SAS!Begin
      BY <2>1, <2>3, <2>4, <3>1, <3>2 DEF SAS!Begin
    <3> QED BY <3>3 DEF SAS!Next
  <2>5. CASE ~Planning'
    BY <2>1, <2>3, <2>5 DEF seen
  <2> QED BY <2>4, <2>5
<1>4. CASE \E a \in facts.actions.action : Occurs(a)
  <2>1. PICK a \in facts.actions.action : Occurs(a)
    BY <1>4
  <2>2. stage = "planning" /\ UNCHANGED <<written, stage, facts, solved>> /\ ~solved /\ time < Horizon /\ time' = time + 1
    BY <2>1 DEF Occurs, dvars
  <2>3. PICK st : HoldsState(st)
    BY <2>2 DEF IInv
  <2>4. PICK k \in DOMAIN written.operators : \E r :
          /\ SAS!Applicable(st, written.operators[k])
          /\ SAS!Consistent(SAS!Changes(st, written.operators[k]))
          /\ r = SAS!Result(st, SAS!Changes(st, written.operators[k]))
          /\ HoldsState(r)'
    BY <2>1, <2>3, OccursFollows
  <2>5. PICK r : /\ SAS!Applicable(st, written.operators[k])
                 /\ SAS!Consistent(SAS!Changes(st, written.operators[k]))
                 /\ r = SAS!Result(st, SAS!Changes(st, written.operators[k]))
                 /\ HoldsState(r)'
    BY <2>4
  <2>6. StateWritten = st /\ st # NoState /\ StateWritten' = r
    BY <2>3, <2>5, Seen, SeenNext
  <2>7. Planning' <=> Planning
    BY <2>2 DEF Planning
  <2>8. CASE Planning
    <3>1. SAS!Occurs(written.operators[k])
      BY <2>2, <2>5, <2>6, <2>7, <2>8 DEF SAS!Occurs
    <3> QED BY <3>1 DEF SAS!Next
  <2>9. CASE ~Planning
    BY <2>2, <2>7, <2>9 DEF seen
  <2> QED BY <2>8, <2>9
<1>5. CASE Solve
  <2>1. /\ stage = "planning" /\ UNCHANGED <<written, stage, facts, holds, time>> /\ ~solved /\ solved' = TRUE
        /\ facts.goal \subseteq holds
    BY <1>5 DEF Solve, dvars
  <2>2. PICK st : HoldsState(st)
    BY <2>1 DEF IInv
  <2>3. Planning' <=> Planning
    BY <2>1 DEF Planning
  <2>4. StateWritten = st /\ st # NoState /\ StateWritten' = StateWritten
    BY <2>1, <2>2, Seen DEF StateWritten
  <2>5. CASE Planning
    <3>1. SAS!AllHold(st, written.goal)
      BY <2>1, <2>2, GoalAgrees
    <3>2. SAS!Solve
      BY <2>1, <2>3, <2>4, <2>5, <3>1 DEF SAS!Solve
    <3> QED BY <3>2 DEF SAS!Next
  <2>6. CASE ~Planning
    BY <2>1, <2>3, <2>6 DEF seen
  <2> QED BY <2>5, <2>6
<1>6. CASE UNCHANGED svars
  <2>1. UNCHANGED <<written, s, stage, facts, holds, time, solved>>
    BY <1>6 DEF svars, dvars
  <2>2. (Planning' <=> Planning) /\ StateWritten' = StateWritten
    BY <2>1 DEF Planning, StateWritten
  <2> QED BY <2>1, <2>2 DEF seen
<1> QED BY <1>1, <1>2, <1>3, <1>4, <1>5, <1>6 DEF SNext

\* Whatever the solver does with the facts that are printed for a task without
\* axioms, is a plan of the task, if the task has been read as it was written.
THEOREM SolverFollowsTask == SSpec /\ []SASReadAsWritten => ImplementsSAS
<1>1. SInit => IInv
  BY InvariantInit
<1>2. IInv /\ SASReadAsWritten /\ [SNext]_svars => IInv'
  BY Invariant
<1>3. SInit => SAS!Init
  BY DEF SInit, Init, SAS!Init, Planning
<1>4. IInv /\ IInv' /\ [SNext]_svars => [SAS!Next]_seen
  BY StepFollows
<1> QED BY <1>1, <1>2, <1>3, <1>4, PTL DEF SSpec, ImplementsSAS, SAS!Spec, seen

-----------------------------------------------------------------------------
\* A mutex group of which at most one fact is true of a state is no obstacle.
LEMMA MutexGroupsAgree ==
  ASSUME Translated, NEW st \in States(written), MutexGroupsHold(st)
  PROVE  MutexGroups(HoldsIn(written, st))
<1>1. Task(written)
  BY DEF Translated
<1>2. SUFFICES ASSUME NEW i \in DOMAIN written.mutexGroups,
                      NEW g, g = written.mutexGroups[i]
               PROVE  Cardinality({Printed(written, g[j]) : j \in DOMAIN g} \cap HoldsIn(written, st)) <= 1
  <2>1. \A m : m \in facts.mutexGroups <=>
          \E i \in DOMAIN written.mutexGroups :
            m = <<i, {Printed(written, written.mutexGroups[i][j]) : j \in DOMAIN written.mutexGroups[i]}>>
    BY TaskPrinted
  <2>2. \A i \in DOMAIN written.mutexGroups :
          Cardinality({Printed(written, written.mutexGroups[i][j]) : j \in DOMAIN written.mutexGroups[i]}
                        \cap HoldsIn(written, st)) <= 1
    BY <1>2
  <2> QED BY <2>1, <2>2 DEF MutexGroups
<1> DEFINE G == {f \in Range(g) : st[f[1] + 1] = f[2]}
           P == {Printed(written, g[j]) : j \in DOMAIN g} \cap HoldsIn(written, st)
           print == [f \in G |-> Printed(written, f)]
<1>3. g \in Seq(Fact)
  BY <1>1, <1>2, DescriptionsAssumption DEF Task, WrittenType
<1>4. IsFiniteSet(G)
  <2>1. IsFiniteSet(DOMAIN g)
    BY <1>3, FS_Interval
  <2>2. g \in Surjection(DOMAIN g, Range(g))
    BY <1>3 DEF Surjection, Range
  <2>3. IsFiniteSet(Range(g))
    BY <2>1, <2>2, FS_Surjection
  <2> QED BY <2>3, FS_Subset
<1>5. \A f \in Range(g) : Printed(written, f) \in HoldsIn(written, st) <=> st[f[1] + 1] = f[2]
  <2>1. \A f \in Range(g) : f \in IndexFacts(written)
    BY <1>1, <1>2, InTask DEF Range
  <2> QED BY <1>1, <2>1, HoldsIff
<1>6. print \in Surjection(G, P)
  <2>1. \A f \in G : Printed(written, f) \in P
    BY <1>5 DEF Range
  <2>2. \A x \in P : \E f \in G : x = Printed(written, f)
    BY <1>5 DEF Range
  <2> HIDE DEF G, P
  <2> QED BY <2>1, <2>2 DEF Surjection
<1>7. Cardinality(P) <= Cardinality(G) /\ IsFiniteSet(P)
  <2> HIDE DEF G, P, print
  <2> QED BY <1>4, <1>6, FS_Surjection
<1>8. Cardinality(G) <= 1
  BY <1>2 DEF MutexGroupsHold, Range
<1>9. Cardinality(G) \in Nat /\ Cardinality(P) \in Nat
  <2> HIDE DEF G, P
  <2> QED BY <1>4, <1>7, FS_CardinalityType
<1> HIDE DEF G
<1> QED BY <1>7, <1>8, <1>9

\* What the invariant says is enough for no plan to be lost.
LEMMA NothingIsLost ==
  ASSUME IInv
  PROVE  PlansNotLost
<1>1. ASSUME stage = "translated", -1 \notin Range(written.initialState), MutexGroupsHold(written.initialState)
      PROVE  UniqueValues(facts.initialState) /\ MutexGroups(facts.initialState)
  <2>1. Translated
    BY <1>1 DEF IInv
  <2>2. DOMAIN written.initialState = DOMAIN written.variables
    BY <2>1, InTask DEF Translated
  <2>3. \A i \in DOMAIN written.variables : written.initialState[i] # -1
    BY <1>1, <2>2 DEF Range
  <2> QED BY <1>1, <2>1, <2>3, InitialFacts, MutexGroupsAgree
<1>2. ASSUME stage = "planning", NEW st, HoldsState(st), NEW k \in DOMAIN written.operators,
             NEW changes, changes = SAS!Changes(st, written.operators[k]),
             SAS!Applicable(st, written.operators[k]), SAS!Consistent(changes), \A c \in changes : c[2] # -1,
             MutexGroupsHold(SAS!Result(st, changes)),
             NEW a, a = Predicate(written.operators[k])
      PROVE  Possible(a) /\ UniqueValues(Inertia(a)) /\ MutexGroups(Inertia(a))
  <2>1. Possible(a)
    BY <1>2, PossibleIsApplicable
  <2>2. /\ SAS!Result(st, changes) \in States(written)
        /\ Inertia(a) = HoldsIn(written, SAS!Result(st, changes))
        /\ UniqueValues(Inertia(a))
    BY <1>2, OccursResult
  <2>3. Translated
    BY <1>2 DEF HoldsState
  <2> QED BY <1>2, <2>1, <2>2, <2>3, MutexGroupsAgree
<1>3. ASSUME stage = "planning"
      PROVE  /\ Translated
             /\ \E st : HoldsState(st) /\ StateWritten = st
  <2>1. PICK st : HoldsState(st)
    BY <1>3 DEF IInv
  <2> QED BY <1>3, <2>1, Seen DEF IInv
<1>4. ASSUME stage = "planning" PROVE SAS!AllHold(StateWritten, written.goal) => facts.goal \subseteq holds
  BY <1>3, <1>4, GoalAgrees
<1>5. ASSUME stage = "planning", NEW k \in DOMAIN written.operators
      PROVE  s.description.operators[k].predicate = Predicate(written.operators[k])
  <2>1. s.description = Meaning(written)
    BY <1>3, <1>5 DEF Translated
  <2> QED BY <2>1, OperatorsRead
<1>6. ASSUME stage = "planning", NEW k \in DOMAIN written.operators
      PROVE  LET o       == written.operators[k]
                 a       == s.description.operators[k].predicate
                 changes == SAS!Changes(StateWritten, o)
             IN  /\ SAS!Applicable(StateWritten, o) /\ SAS!Consistent(changes)
                 /\ \A c \in changes : c[2] # -1
                 /\ MutexGroupsHold(SAS!Result(StateWritten, changes))
                 => Possible(a) /\ UniqueValues(Inertia(a)) /\ MutexGroups(Inertia(a))
  BY <1>2, <1>3, <1>5, <1>6
<1> QED BY <1>1, <1>4, <1>6 DEF PlansNotLost

\* Nothing of a task without axioms that has been read as it was written is lost.
THEOREM NothingLost == SSpec /\ []SASReadAsWritten => []PlansNotLost
<1>1. SInit => IInv
  BY InvariantInit
<1>2. IInv /\ SASReadAsWritten /\ [SNext]_svars => IInv'
  BY Invariant
<1>3. IInv => PlansNotLost
  BY NothingIsLost
<1> QED BY <1>1, <1>2, <1>3, PTL DEF SSpec
=============================================================================
