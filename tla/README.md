# A specification of plasp

plasp translates classical planning problems, written in PDDL or in Fast Downward's SAS format, into facts
for answer set programming; logic programs under `encodings/` then find plans with clingo. These TLA+
modules follow a problem all the way: files read into one stream, the PDDL and the SAS parser, the normalization of
nested conditions, the translation to facts, and the encodings that prune, parallelize and sequence plans. TLC checks
them on small instances. TLAPS proves the theorems about the encodings, the reduction and normalization of conditions, the translation of
conditions, actions and effects, and the reading of the input for every task, every formula, every file and every set of constants; those
about the SAS translation are for every SAS task whose text the parser reads as it was written, which TLC checks of the texts of one run.

## The system

| component | where | state | operations | what makes it correct |
|---|---|---|---|---|
| tokenizer | `lib/tokenize` | content, stream position, newline table, case policy | `get`, `testAndSkip`, `testAndReturn`, `probe`, `expect`, comment removal | a failed test leaves the position alone; locations survive seeking; reading stops |
| PDDL parser | `lib/pddl` `detail/parsing` | token stream, saved section positions, requirements, variable stack, tables of types, constants and predicates | two passes over sections in any order, alternatives with backtracking | each section is read once; references point to the declaration in scope; what fails leaves nothing behind |
| requirements, signature matching | `detail/Requirements`, `detail/SignatureMatching` | declared requirements, parent types | checks that may add a requirement in compatibility mode; assignability along parents | implied requirements are accepted; matching ends |
| syntax trees | `pddl/AST.h` | variants of formulas, effects and declarations, as unique pointers with raw back references | moving, copying | no reference outlives what it points to |
| reduction | `detail/normalization/Reduction.cpp` | the tree, rewritten in place | `eliminateImply`, `eliminateForAll`, `negationNormalize` | meaning; each pass leaves what the next one can handle |
| normalization | `detail/normalization` | derived predicates declared so far, a context for the domain and one for the problem | `normalize` for each action, effect and goal | meaning; numbering; no unbound variable; no cycle of references |
| PDDL to ASP | `src/plasp/pddl` | counters of effects | facts for types, variables, actions, derived predicates, initial state, goal | the facts mean to the encodings what the formulas meant |
| SAS parser and translator | `src/plasp/sas` | variables, mutex groups, operators, axioms | reading by index, facts | indices in range; conditional effects keep their conditions |
| language detection | `src/plasp/LanguageDetection.h` | the tokenizer's position | tests the first tokens | goes back to the start |
| `strips/preprocess.lp` | encodings | the atoms `feasible`, `possible`, `produce`, `persist`, `active` | forward chaining and backward regression to a fixpoint | no plan is lost |
| `strips/strips-incremental.lp` | encodings | `holds/3`, `occurs/2` for every time step | several actions in one step, in six modes of `_parallel` | a step can be put in sequence |
| `strips/postprocess.lp` | encodings | `done/3`, `hold/3` | picks one action after the other | the output is a sequential plan |
| `strips/redundancy.lp` | encodings | as above | optional constraints | some plan remains |
| `sequential-horizon.lp`, `incmode` | encodings | `holds/3` including derived variables | one action per step, conditional effects, derived predicates | derived variables follow the state |
| outdated encodings, command line, `colorlog`, pretty printing | `encodings/outdated`, `src/plasp-app`, `lib/colorlog`, `pddl/ASTOutput.h`, `pddl/NormalizedASTOutput.h` | options, streams | wiring, layout | output only, except that `beautify` prints what can be read again |

A description goes from tokenizer to parser (calls on one shared position), from parser to normalization
(trees moved, not copied), from there to the translator, and leaves the process as facts. clingo grounds them
with an encoding; `preprocess.lp`, `strips-incremental.lp` and `postprocess.lp` share predicates, and
`postprocess.lp` reads the steps that the solver has accepted. Nothing runs in parallel inside plasp and
nothing is persisted, so the hard behaviours are not crashes or lost messages. They are:

* *parallel actions*: which sets of actions may share a time step, and the interleavings they stand for,
* *circular definitions* of the relevance analysis, where each rule relies on all others,
* *trees rewritten by passes that rely on each other*, with subtrees moved away under the reader,
* *names handed out in two contexts*, referred to from earlier and later conditions,
* *backtracking over a shared stream position* in the parser, and *sections parsed in another order than they are written*,
* *references by index or by name* that have to mean the same thing in parser, translator and encoding.

`PROJECT.json` lists the hazards at their lines, with the properties that would catch each one.

## Modules

| module | models | state and actions |
|---|---|---|
| `PlanningTask` | the facts about ground actions that all encodings read | a task is constant; `Applicable` and `Result` are one action's effect on a state |
| `SequentialPlanner` | abstract specification: what a plan is (`sequential-horizon.lp` without conditional effects and derived predicates) | `state`; `Occurs(a)` |
| `Preprocess` | `preprocess.lp` | derived atoms are sets; `Ground` applies all rules once, `Grounded` ends at the fixpoint and applies the goal constraint; `Perform` and `Skip` then run two planners side by side, one of them without inactive actions |
| `Redundancy` | `redundancy.lp`, on top of the step that `Postprocess` has under way | no state of its own: `defeated`, and the least closed sets `disabledBy`, `simulate`, `perform` it rests on |
| `StripsIncremental` | the base and step programs of `strips-incremental.lp` | no state: `ActionsAllowed` and `StateAllowed` are the constraints of one time step, one definition for each group of rules |
| `Postprocess` | a plan being found and sequenced, step by step | `before`, `after`, `occurs` are the solver's `holds(_,_,t-1)`, `holds(_,_,t)`, `occurs(_,t)`; `done`, `hold` are `postprocess.lp`'s. `Solve(S)` chooses a step, `Select(a)` places the first applicable action in gringo's term order, `NextStep` goes on |
| `Formula` | syntax trees of conditions up to a depth, before and after normalization, and when one is true | constant level |
| `Effect` | syntax trees of effects, with the conditions in them, and what an effect changes in a state | constant level |
| `Reduction` | the three passes, one recursive function each over the trees up to a depth | constant level |
| `ReductionPasses` | `reduce` as a program | `source`, `precondition`, `pass`; one action per pass |
| `Normalization` | a description, action by action, then the problem | `domain`, `problem` with the declarations of each context; `NormalizeAction`, `NormalizeProblem`. What the code does to a tree takes a context and returns a result and the context left behind: `normalizeNested`, `normalizeEffect` and `collectFreeVariables` are functions defined by recursion over trees |
| `ConditionTranslation` | the translator's facts for conditions and derived predicates, and what lines 16-27 of `sequential-horizon.lp` derive from them | `facts`, `state`, `holds`; `Translate`, `Consider(S)` |
| `PDDLPlanner` | abstract specification: what a plan is for a PDDL description | `actions`, `state`, `time`; `Read`, `Begin`, `Occurs` |
| `ActionTranslation` | the translator's facts for actions, effects and the initial state, and the rules of `sequential-horizon.lp` that move from state to state | `output`, and `holds` from `ConditionTranslation`; `TranslateAll`, `Start`, `Occurs`. An effect is taken as the row of its parts without "and" and "forall", in the order the code meets them (`Placed`), each with the objects that the variables around it may have |
| `Tokenizer` | `Tokenizer.h`, `Stream.h`: each call takes and returns a record with `content`, `position`, a thrown exception and the value read | constant level |
| `InputReading` | the commands' files read into one stream, language detection, comment removal | `tokenizer`, `stage`, `language`; one action per file, per comment line skipped by the detection, per comment removed; `FileMissing` is the exception for a path that is no regular file, which may come in place of any file |
| `SignatureMatching`, `Declarations`, `Expressions` | the parsers in `detail/parsing`, one operator each, threading the tokenizer's record with the declarations made so far and the stack of variables | constant level |
| `DescriptionParser` | `DescriptionParser`, `DomainParser`, `ProblemParser`: sections are found in a first pass and read in a second | the parser's record, `stage`, the saved positions, `results`; one action per section found or read, then again in compatibility mode, then again on the printed text |
| `ASTOutput` | `ASTOutput.h`, the printed text of a description | constant level |
| `Written` | reference for the parser: how a description is written, when it is well-formed, what it means | constant level |
| `TypeTranslation` | the translator's facts for types, constants and variables, and the variables its rules mention | constant level, on the parser's results |
| `SASDescription` | the SAS parser, one action per section | `s`, `stage` |
| `SASWritten`, `SASPlanner` | reference and abstract specification: a task in which everything is an index, and its plans | `state`, `time`, `solved` |
| `SASTranslation` | `sas/TranslatorASP.cpp`, and `sequential-horizon.lp` on its facts, mutex groups included. Pre- and postconditions are sets of facts, as the encoding takes them; `currentEffectID` is the number of conditional effects printed so far | `facts`, `holds`, `time`, `solved`; `Translate`, `Start`, `Occurs`, `Solve` |
| `PreprocessProofs`, `PostprocessProofs`, `ReductionPassesProofs`, `NormalizationProofs`, `InputReadingProofs`, `SASProofs` | the theorems; those about `Redundancy` are in `PostprocessProofs`, those about `ConditionTranslation` and `ActionTranslation` in `NormalizationProofs`, on whose invariants they rest | |
| `ReductionProofs` | lemmas about trees and what the three passes do to one, for the two modules of theorems that need them | |
| `Recursion` | that functions defined by recursion exist, a theorem about any such definition | `Def`, a constant operator, is the definition's body |

`ConditionTranslation` extends `Normalization`, which extends `Reduction` and `Formula`: together they follow a
condition from the parser's tree to the solver's verdict. `ActionTranslation` extends them by actions, and is shown
to implement `PDDLPlanner`, where a state is the set of ground atoms that the solver's `holds` makes true. `Postprocess` composes the solver's step with the
sequencing program, and is shown to implement `SequentialPlanner` with `hold` as its state.

`DescriptionParser` extends the parsers, which extend `Tokenizer`; `TypeTranslation` extends it by the translator, so what is checked
of types is checked of descriptions that went through the parser. `SASTranslation` composes parser, translator and encoding in
the same way, and is shown to implement `SASPlanner`. A parser is compared with a reference that does not parse: `Written` and
`SASWritten` start from a tree of names or indices, give its text, and say from the tree alone whether the text is well-formed and
what it should be read as. Their definitions model no code.

Definitions named after the source keep the source's names. Those whose comment begins with "Faulty variant of"
are not part of the models: each is a plausible bug in one definition, named in `PROJECT.json` under "mutants",
with the property that finds it. Every checked property has at least one.

How the data is abstracted: a variable with its arguments is a single `Variable`, a ground action one `Action`,
with pre- and postconditions as the sets of facts the encodings receive. Formulas are records with an operator,
bound variables, terms and arguments. An action is a record of parameters, precondition and effect; types
only select objects and are left out there, so every variable ranges over every object; `TypeTranslation` has them.
In the parsers' texts one character may stand for a keyword or a name, which the code takes as a whole; two of them side by side are
one longer identifier, which is how a name can begin with a keyword. Layout of printed text is a single space.
A derived predicate is a number, as in `derivedPredicate(N)`.

## Runs

| run | question | states | bounds |
|---|---|---|---|
| `preprocess` | does pruning ever lose a plan, or leave the solver without a variable it needs? | 51,414 | three actions out of 28, over two variables with two values, two goals, `_closure` 0 to 3 |
| `postprocess` | can every accepted step be sequenced, into the solver's state, and are the modes as strict as needed and no stricter? | 59,320 | 13 actions over four variables, at most three in a step, `_parallel` 0 to 5, both values of the other options |
| `reduction` | do the passes keep the meaning, in order, with no subtree lost or moved twice? | 51,808 | formulas with four nested levels, two arguments, two objects |
| `normalization` | do the derived predicates mean what the nested conditions meant? | 35,710 | two actions, two conditional effects each, one of them under "forall", a goal; quantifiers nested two deep under other connectives |
| `condition_translation` | does the solver accept a condition only where it is true, and wherever it is true? | 19,131 | one action, one goal, all states over seven ground atoms |
| `action_translation` | are the solver's sequences plans of the PDDL description, and is no possible action refused? | 20,048 | at most four time steps (`Horizon`, the encoding's `#const horizon`; counting the steps also keeps an action without an effect from passing as a stuttering step of the refinement); two actions out of 33, three initial states and a contradictory one; at most two conditional effects in an action |
| `input_reading` | does the parser get the files' text, without comments and with usable positions, in the language it was written in? | 157,391 | all files of up to four characters out of seven, and all pairs of files of up to three characters out of four |
| `parser` | is a description accepted if and only if it is well-formed, and read as it was meant; does its printed form read back; do its types mean the same in the facts? | 39,072 | descriptions that differ from a typed one in one or two places, over every kind of expression and declaration, with sections in both orders, and every prefix of one text |
| `sas` | is a SAS text read as it was written, and planned for as it was meant? | 2,947 | three variables, pairs of effects in one operator or in two, seven mutex groups, the index -1, indices out of range, numbers of several digits, every prefix of one text; plans of up to three steps |
| `nullary_derived_predicate` | refuted: is every derived predicate typed? | | as before |
| `negated_derived_predicate` | refuted: does every derived variable get a value? | | as before |
| `shared_conditional_effect` | refuted: is a conditional effect applied where its condition holds? | | one action of two |

Why the bounds suffice to be of interest. In `preprocess` the actions include inconsistent, redundant, unreachable,
irrelevant and goal-destroying ones, and any two of 25 combine with one that undoes an initial value on its way,
one that restores it, or one that can never occur; three actions make the circle produce, persist, active run around more than once. In `postprocess` three actions are
the fewest that disable each other in a circle that is not a pair, the fewest where two achieve what a third needs, and
leave a choice after the first selection; the term order is neither ascending nor descending. A variable that is
only written (`w`) and a mutex group exercise `_shallow` and the fluents that are kept for divergence alone. In
`reduction` four levels place every connective under every other with a negation between; quantifiers at different
levels bind different variables. In `normalization` two actions are the fewest that show a context carried from one to
the next, and variables `a`, `x`, `y` come from the action, an outer and an inner quantifier.
Truth is compared in selected states (all, none or one atom different from these) there, and in every state in
`reduction` and `condition_translation`.

`input_reading` has the characters on which reading decides: white space, a newline, a comment, parentheses, the words that
detection looks for. Pairs of files are the fewest that show the newline tables of one stream mixed up. The parser's properties quantify over descriptions
rather than over texts, so that most of what is read is nearly well-formed; the prefixes are the texts that end too early.

Liveness is a question where loops run over input: `Terminates` says that the command reaches the parser or an error for
every input. It assumes `WF_vars(Next)`, weak fairness of the one thread that runs the command, which the operating system grants:
nothing in plasp waits for anything. The other programs end after a number of steps that their Init fixes, and their properties are safety properties without fairness.
Since the programs do stop, the
configurations switch off the deadlock check; that the sequencing does not stop too early is the invariant
`NeverStuck`, and that normalization does not is part of `PassesInOrder` (the only exceptions it could meet); that parsing
does not is part of `ReadAsWritten` and `SASReadAsWritten`, which say what the result is when there is none.

### What the properties say

* `GoalPreserved`, `RefusalSound`, `QueriesAreFluents`, `PrunedStepsLegal`: `preprocess.lp` may drop actions
  freely, because whatever reaches the goal with them reaches it without; a task it refuses has no plan.
* `NeverStuck`, `EndsInSolverState`, `AnySequence`, `ImplementsSequential`: a step of a checked mode can always be
  sequenced greedily, into the solver's state; `_parallel=1` allows any order.
* `ModesNested`, `ForallComplete`, `ExistsComplete`: the modes 1, 3, 4, 2 are ordered by strictness, 3 and 4 agree,
  and 1 and 3 refuse no step that has all its orders, or one order.
* `RedundancyExact`: `redundancy.lp` refuses a step for the lack of an action exactly if the step with that action is accepted,
  between the same states. A step can therefore be filled up until nothing is missing: the constraints lose no plan.
* `MeaningKept`, `PassesInOrder`, `AtomsKept`: reduction.
* `NamesConsecutive`, `ReferencesAscend`, `BodiesClosed`, `NormalizedMeaningKept`, `DeclarationsStable`: normalization.
* `ImplementsPDDL`, `PlainActionsPossible`: the translated actions do what PDDL says, and can.
* `ConditionalEffectsPlain` delimits the descriptions of which the first is true: however often a conditional effect is placed, by its
  action's parameters or by "forall" effects around it, the facts for its condition are the same, and the encoding can decide it. It is
  the CONSTRAINT of the run, whose actions include some that do not meet it: TLC goes no further from a description with one of these. That the
  restriction is necessary is shown below.
* `CommentsRemoved`, `LocationsPointIntoFiles`: the stream the parser gets is the files' text without comments, and a position
  in it still leads to the file, line and column, through blanking and case conversion. `DetectionAgreesWithParser`, `PDDLIsRecognized`,
  `Terminates`: detection takes for PDDL what the parser expects, and, once all files have been found, refuses no other than those listed below.
* `ReadAsWritten`: in both modes, what is accepted is what is well-formed, and every name refers to the declaration in scope,
  whatever order the sections have and whatever the alternatives tried before have consumed. `ModesAgree`: compatibility mode reads
  whatever strict mode accepts in the same way. `BeautifiedReadsBack`: printing and reading again gives the same description, except in
  exactly three cases, listed below.
* `AtomsAreVariables`: subtyping in the parser and inheritance in the facts agree, so that every atom in a rule is a declared variable.
  The one exception, shown to be the only one, is an argument for a parameter of type `object` whose own type does not inherit from `object`.
* `SASReadAsWritten`, `ImplementsSAS`, `PlansNotLost`: a SAS text is read as written (the newline at its end may be missing), the solver's plans are plans of that task, and
  nothing but contradictory effects, "any value" and a mutex group that is not one makes an applicable operator impossible.
  Tasks with axioms are outside of the last two: their rules are announced and printed, and the encoding has no rule for them.
* `AcceptedIsTrue`: no nested condition is accepted where it is false. `PlainTrueIsAccepted` is the converse
  for conditions with no negated and no nullary derived predicate; the two refuted runs show why it needs the restriction.

### Disagreements with the documentation

1. `TranslatorASP.cpp:246` returns early for a derived predicate without variables and omits
   `type(and)` or `type(or)`, which `doc/output-format.md:212` says every derived predicate has. The encoding's rules
   for derived predicates then never apply, and such a condition is never satisfied (`nullary_derived_predicate`).
2. `sequential-horizon.lp:27` wraps a term that already is `derivedVariable(...)` in `derivedVariable` again, so a derived
   variable that is not true is not false either, against `doc/output-format.md:210`. A negated
   derived predicate, as universal quantifiers produce it, never holds (`negated_derived_predicate`).

3. One `effect(N)` stands for all groundings of a "when" (`Effect.h:119`), so `sequential-horizon.lp:42` requires the
   conditions of all of them at once. For an action with parameters, or a "when" under "forall", the effect is left out
   although its condition holds (`shared_conditional_effect`), against `doc/output-format.md:175`. The documents
   disagree about this feature: `doc/pddl-feature-support.md:18` says it is supported, `doc/output-format.md:181` that it is
   not, for PDDL input.

The first two of these make no precondition or goal hold that is false (`AcceptedIsTrue`): in preconditions and goals
they cost plans, and only as the condition of a conditional effect they, like the third, lead to wrong states.

### Behaviour to know about

Found while modelling, and part of the models; a reader of the code may not expect it. No run refutes anything here.

* An undeclared variable is consumed before it is refused (`Variable.cpp:27`), and if a constant follows, the constant is read as
  the argument. `ReadAsWritten` allows for this one deviation.
* Strict mode refuses types in a domain that only requires `:adl` (`Domain.cpp:74` comes too late); `(:requirements )` with a
  blank before the parenthesis; an explicit type `object` in a domain without `:typing` when its printed form is read again.
* Requirements implied in the problem are never computed; the test for `at` in `Fact.cpp:45` never succeeds, since
  the alternatives before it have gone back to the parenthesis.
* `beautify` prints types without parents first-come: followed by one with parents, they get these as well on reading again. An empty `(:init)` is accepted but not printed, and its absence refused.
* `SignatureMatching.cpp:16-18` takes anything for a parameter of type `object`, since "all objects inherit from “object”". The printed facts have
  no such inheritance: with `(:types t - u)`, a constant of type `t` is no `object` there. An atom about it has no variable, so it is neither true nor
  false unless the initial state lists it (`doc/output-format.md:123` says "each variable has exactly one value"). `AtomsAreVariables` makes an exception for these atoms and for no others.
* An argument with several types fits no parameter with one. "=" is refused by the normalization, parameters of several types by the translator.
* Language detection refuses a comment between `(` and `define`, and `(DEFINE`.
* In SAS, an index of 4294967295 is read as -1, any value; "()" anywhere in a value's name costs its last two characters;
  operators with the same name share their facts; lines that end in "\r\n" are read with the "\r" in operators' names.

## Proofs

The theorems hold for every set of variables, values and actions, of any size, for every combination of
options, and for files of every length; the two of `SASProofs` hold for every SAS task under the hypothesis that it is read as it was written. They rest on the assumptions stated in the modules:

* `TaskAssumption`: pre- and postconditions are sets of facts, the initial state gives every variable a value.
* `PreprocessAssumption`: tasks and goals are made of these actions and facts.
* `StripsAssumption`: active actions name no variable twice (line 27 of `preprocess.lp`) and what they ask about is
  relevant; the latter is what `FluentsSuffice` of `PreprocessProofs` establishes.
* `PostprocessAssumption`: options are integers, and gringo's term order is total (an injective rank).
* `DepthAssumption`, `ParsedAssumption`: preconditions are finite trees, nested at most `Depth` deep, for any natural number
  `Depth`; those from the parser use no derived predicates, which the code has a separate type for (`NormalizedAST.h`). A quantifier
  names no variable twice.
* `InputAssumption`: the conditions in actions, their effects and goals are like that; effects, too, are nested at most `Depth` deep. There may be
  any number of actions, each of any size.
* `SupportedAssumption`, for the translation only: no condition uses "=", on which normalization throws. An atom has as many arguments as
  its predicate has parameters (`Predicate`, `Atomic`), since the parser takes no other.
* `EnvironmentAssumption`: meanings are compared under environments that give each variable an object.
* `InterpretationAssumption`: a state is a set of ground atoms, none of them a derived predicate's: those get their meaning from their
  declarations.
* `ObjectAssumption`, `InitialAssumption`, `NoStateAssumption`, for plans: there is an object (without one there would be no environment to evaluate
  a formula in); the initial state lists literals without variables, which is what `Fact.cpp` parses; the placeholder for "no state" is none.
* `InputsAssumption`: an input is a sequence of named files, a file a sequence of characters.
* `DescriptionsAssumption`: a written SAS task has the shape of the format, and where it is well-formed, no two
  variables, values of one variable, or operators have one name. Where an effect of an operator assigns "any value" to a variable,
  no other effect of it assigns that variable a value. Fast Downward
  numbers variables and names operators by their ground actions; with two operators of one name the facts of both would be
  shared (see "Behaviour to know about"), which is why the assumption cannot be dropped.
* `PlansAssumption`: the horizon is a natural number, and the placeholder for "no state" is none.

`PreprocessProofs`: an inductive invariant `IInv` strengthens `TypeOK` by what holds of the derived atoms in every round
(each has support in the rules), and after grounding by the agreement of the two planners: on every fact that an
active action or the goal asks about, if the full planner has it, so does the pruned one. Agreement is not
inductive without the fixpoint equations, since a skipped action may change a value that nobody has asked for *yet*: it is
the restoring rule (line 44) that makes every action that could bring the value back active. From `IInv` follow
`PruningComplete`, `RefusalCorrect`, `FluentsSuffice` and, as an action property, `PrunedPlanLegal`.

`PostprocessProofs`: `IInv` says that the step under way was accepted (all constraints of its mode still hold of it) and
that `hold` is `before` overridden by the postconditions of the actions done so far. It is needed because neither
`EndsInSolverState` nor `NeverStuck` says anything about the middle of a step. `SequenceEndsInSolverState` is the case where
all are done. `GreedyNeverStuck` has a case for each kind of mode. For modes 2 and 3, the actions done form a
closed set of the perform rule, so if none of the rest were applicable, the least closed set would not be all of the
step; for mode 4, acyclicity gives an action among the undone ones that disables none of the others; for mode 1,
the postconditions that are pinned rule out any precedence. `Refinement` maps `Select` to a step of `SequentialPlanner` and
everything else to stuttering. `ModesOrdered`, `ForallExact` and `ExistsExact` compare the modes.

`RedundancyIsExact`, also there, compares, mode by mode, what `redundancy.lp` derives about a step and one more
action with what `strips-incremental.lp` would derive about the larger step. It uses the same invariant, since the
step under way was accepted. In mode 4 the larger step is cyclic if and only if the action is disabled by way of one
that it disables, so the least closed set `disabledBy` has to contain nothing but what a path reaches; in the modes 2 and 3 the
two programs derive least closed sets over different domains, and each is shown to be closed under the rules of the other.

`ReductionPassesProofs`, on the lemmas of `ReductionProofs`: `IInv` says that the precondition is what the passes run so far make of the source; the work is in what each
pass does to a tree. The passes, the meaning of a tree and its leaves are functions defined by recursion, and what makes a
recursive definition usable is that some function satisfies it. `Recursion` proves this once for all definitions, whose body is its
constant operator `Def`, by approximations that are right below a rank, from the fact that sets of natural numbers have least elements (a
hypothesis there, so that instances do not import a library; `LeastNatural` proves it); each function is then an instance with its own body. For trees the rank is
`Height`, the least depth that allows the tree, and by induction over the depth, `ImplyPass`, `ForAllPass` and `NegationPass` show of each pass that it keeps meaning and
leaves, what operators it leaves behind, and that it makes a tree at most twice, three times and no higher. The last is why all of them
are defined on what they are applied to: `Formulas` are the trees nested at most `6 * Depth` deep. `NegationPass` needs more than
the induction hypothesis for subtrees, as De Morgan's rules build new trees: these are at least one lower than the one they replace. That
a "not" ends over an atom or an "exists" holds only of what the passes before have left, so it is one half of an implication in the induction, `Normalized`.

`InputReadingProofs`: `IInv` says that there is a text, the concatenation
of the files read so far, of which the stream's content is a copy with some characters blanked or in lower case; that
nothing but the characters of a comment has ever been blanked, and every comment before the position has been; and that the stream's
newline tables list the newlines of each of the files, in ascending order. Without the ghost text nothing relates a position in the
stream to a file, since blanking destroys the text that the position is about. From it follow `ReadingTypes`, `CommentsAreRemoved`,
`LocationsPoint`, and, comparing detection's tests with the parser's, `DetectionAgrees` and `PDDLRecognized`.
Loops over the content (the end of a line, the next character that is not white space) are defined by the least position with a
property; induction over positions is by the least counterexample.

`SASProofs`: what follows is about everything between the parser's tables and the solver's states, under the hypothesis
`[]SASReadAsWritten`, that the tables are the ones that the text was written from. They say nothing of a text that is read
differently: numbers, for instance, that do not fit into the code's integers (an index of 4294967295, a cost of 2^64). This part is checked by TLC, for the texts of `sas`: parsing is the
only place that recurses over the text. `IInv` says that the facts are those of a task translated as a whole, and that
what holds in a time step is what a state says, one value for each variable. It is needed because the encoding knows no states, only atoms:
an operator whose effects contradict one another must be impossible, rather than lead to a variable with two values. The lemmas say
that facts with different indices are printed differently (this is where distinct names enter), that a conditional effect's number is
not that of another, and so that each rule of the encoding gives on the printed facts what the operator means. `SolverFollowsTask` is
the refinement of `SASPlanner` by the solver's sequences, `NothingLost` the converse, that no plan is refused but for
contradictions, "any value" and mutex groups that are none.

`NormalizationProofs`: the work is again in what the code makes of one tree, stated for every context it may be met in. `Related(f, g, c, d)`
says that g is what f becomes on the way from the context c to d: in every interpretation where the predicates declared on the way are
true of what their bodies say (`FulfilsNew`), g and f are true in the same environments; g's variables are f's free ones, and g
refers to nothing but those declarations. `Grown(c, d)` says that d continues c: no declaration is changed, the new ones are numbered on,
closed, and refer only to later ones (`Proper`). `NestedSound` shows both of `normalizeNested` by induction over trees. The declaration is added *before* its body
is normalized, so the induction hypothesis is applied in a context whose last declaration still has no body (`Added`), and the body is
put in when others may follow it (`Defined`); `RelatedOn` and `TranslatedOn` then carry what holds on a part of the way to all of it. `Collects` says that `collectFreeVariables`
returns each free variable once and no bound one, whatever is bound around the formula, and `Coincidence` that nothing else decides
a formula's truth. Together they are why the reference that replaces a subformula means the same in every environment (`DerivedMeaning`), which is the point where
a variable collected too much or too little would show. Lists (`EachMeets`), effects (`EffectsSound`) and actions (`ActionSound`) follow.

`IInv` then says of a whole description that both contexts have grown from their start, the problem's from the number after the domain's last,
and that every action and the goal are paired, condition by condition, with what they became. `NormalizedMeaningKept` alone is not inductive: a further action changes the declarations
that earlier conditions are read with, so those conditions must be known to refer only to declarations that stay. `IInv` speaks of all
interpretations and of sets of trees of any size; TLC cannot evaluate it, and checks the six properties that follow from it. `UnfoldedFulfils` connects the two ways to read declarations: unfolding them
one by one, the last first, as `NormalizedMeaningKept` does, makes every one true of what its body says, since a body only refers to later ones.

The theorems about `ConditionTranslation`, there as well, continue from the unfolded declarations to the solver's `holds`. `TInv` carries what normalization
has established (`Described`, the part of `IInv` that does not depend on the stage) through translation and says which facts were printed and
computed with. `Faithful(H, J)` says that everything in H is so in J, `Complete(H, J, N)` that all that is so in J of atoms and of the derived predicates N
is in H. `Derivation` takes the encoding's computation apart, declaration by declaration, and by induction from the last
to the first, `DerivesTrue` keeps the one and `RuleApplies` extends the other. For the one it does not matter that line 27 of the encoding gives no derived variable the value
false and that a declaration without variables has no type: both only take facts away, and a negated literal over a derived predicate is never satisfied.
For the other they matter, and `Needed` excludes just these two; it also takes that a rule's name tells its
instance (`NameTells`), or one instance would have to satisfy the conditions of another. `AcceptedConditionsTrue` and `PlainConditionsAccepted` follow with `TranslationKeeps`,
the lemma behind `NormalizationKeepsMeaning`.

The theorems about `ActionTranslation` continue to plans. `AInv` says, stage by stage, that the description is what normalization leaves of
the source, that `facts` and `output` are what is printed for it, and that in each time step `holds` is what follows from the ground atoms that are true:
`holds = WithDerived(VariableFacts(AtomsTrue))`. The last conjunct is what makes the solver's set of facts a state, and is inductive because
`UniqueValues` leaves each atom with one value (`ValuesOfState`) and inertia changes just what is caused (`InertiaValues`). With it, the verdict on an action's
precondition is that of `AcceptedTrue` and `PlainAccepted`, the lemmas behind the theorems on conditions; `PlainActionsMayOccur` follows once
effects without contradictions are shown to leave one value each (`OneValueEach`).

What an action does is compared in three stages. `EffectChanges`, by induction over effects, says that an effect changes what its placed parts set, each in its
scope. `PlacedTwins` pairs the placed parts before and after normalization: the scope and the literals are the same, and only the condition has
become another. `CausedSound` then needs no more than that accepted conditions are true: nothing is caused that the description does not say. The converse,
`CausedComplete`, needs to know which facts the encoding reads for an effect: those with its number. `NumberTells` says that no other
"when" of any action has it and that no unconditional effect does (`WhensGrow`, `NumbersGrowOn`: the count goes on from part to part and from action to action).
What is left are the facts printed under this number for other objects, and here `ConditionalEffectsPlain` enters: they must be the same.
`PlansAreDescribed` is the refinement of `PDDLPlanner` under the hypothesis `[]ConditionalEffectsPlain`. It cannot be dropped: `shared_conditional_effect` is a
description without it for which the solver's states are wrong. Descriptions without conditional effects meet it trivially. In the run `action_translation`, where it
is the constraint, those that meet it have effects with nested and quantified conditions, placed once or under a parameter or "forall" that the
condition does not mention; without the constraint, the refinement is violated there.

Model-checked only:

* `Terminates`, a liveness property under fairness, which the prover does not handle.
* `SASReadAsWritten`, and the properties of `DescriptionParser` and `TypeTranslation`: the parsers recurse over nested text, and their references
  over trees.

## Not modelled

Not modelled: `colorlog` (terminal escape sequences), the outdated encodings (superseded), the iterative driver (one include of a
program that is part of clingo), and what gringo and clasp do inside; an answer set is taken to be what the rules define. Of the command
line, option parsing, `help`, `version`, `check-syntax` and `normalize`: they call parts that are modelled, or print. `NormalizedASTOutput.h`
and `sas/Debugging.cpp` print for people; nothing reads their output. In the tokenizer, `probeNumber`, which nothing calls (its loop never
advances). The search for a type's ancestors is modelled by what it finds; on cyclic declarations the code recurses without end, and no instance has them.
Warnings, and the text of messages, are left out.
Lines 13-15 of `preprocess.lp`, which refuse input with features the encodings do not cover, and the search order of
the solver are left out.
