------------------------------- MODULE MCSAS -------------------------------
(***************************************************************************)
(* Tasks over three variables, two of which share the names of values: all *)
(* pairs of some effects, conditional or not, in one operator or in two,   *)
(* mutex groups, axioms, the index -1 and indices out of range, and texts  *)
(* that end too early or go on.                                            *)
(***************************************************************************)
EXTENDS SASTranslation

MCPunctuation == {"(", ")"}
MCWide == 256
MCNarrow == 64
MCNoState == <<>>

P == Value(TRUE, <<"p", "(", "x", ")">>, TRUE)
NotP == [P EXCEPT !.positive = FALSE]
Q == Value(TRUE, <<"q">>, FALSE)
R == Value(TRUE, <<"r", "(", "x", ",", " ", "y", ")">>, TRUE)
VariableOf(name, layer, values) == [name |-> name, axiomLayer |-> layer, values |-> values]
Variables == <<VariableOf(<<"0">>, -1, <<P, NotP>>), VariableOf(<<"1">>, -1, <<Q, R, None>>),
               VariableOf(<<"1", "2">>, -1, <<P, None>>)>>

Effect(conditions, v, before, after) ==
  [conditions |-> conditions, variable |-> v, before |-> before, after |-> after]
OperatorOf(name, arguments, prevail, effects) ==
  [name |-> name, arguments |-> arguments, prevail |-> prevail, effects |-> effects, costs |-> 1]

Base ==
  [version |-> 3, metric |-> 0, variables |-> Variables, mutexGroups |-> <<>>, initialState |-> <<0, 1, 0>>,
   goal |-> << <<1, 2>>, <<0, 1>> >>, axiomRules |-> <<>>, cut |-> 0, trailing |-> <<>>,
   operators |-> <<OperatorOf(<<"a">>, <<<<"x">>, <<"y">>>>, << <<2, 0>> >>, <<Effect(<<>>, 0, 0, 1)>>),
                   OperatorOf(<<"b">>, <<>>, <<>>, <<Effect(<< <<0, 1>> >>, 1, -1, 0),
                                                   Effect(<< <<0, 1>>, <<2, 0>> >>, 2, 0, 1)>>)>>]

Effects == {Effect(<<>>, 0, 0, 1), Effect(<<>>, 0, -1, 0), Effect(<< <<0, 1>> >>, 1, -1, 2),
            Effect(<< <<0, 0>>, <<2, 0>> >>, 1, 1, 0), Effect(<< <<1, 2>> >>, 2, -1, 1),
            Effect(<< <<2, 1>> >>, 1, -1, 1)}
MoreEffects == {Effect(<<>>, 1, -1, -1), Effect(<<>>, 1, 3, 0), Effect(<< <<3, 0>> >>, 0, 0, 1),
                Effect(<< <<0, -1>> >>, 0, 0, 1), Effect(<< <<0, 2>> >>, 1, 1, 1)}
InOne(effects) == <<OperatorOf(<<"a">>, <<>>, <<>>, effects)>>
InTwo(effects) == <<OperatorOf(<<"a">>, << <<"x">> >>, <<>>, <<effects[1]>>),
                    OperatorOf(<<"a">>, << <<"y">> >>, << <<2, 0>> >>, <<effects[2]>>)>>
Pairs == {<<e, f>> : e \in Effects, f \in Effects}

Groups == {<< <<0, 0>>, <<1, 1>> >>, << <<0, 1>>, <<1, 0>>, <<2, 1>> >>, << <<1, 0>>, <<1, 1>> >>,
           << <<0, 1>>, <<1, 2>> >>, << <<0, 2>> >>, << <<0, -1>>, <<0, 0>> >>, <<>>}
Rules == {Effect(<< <<1, 1>> >>, 0, 1, 0), Effect(<<>>, 2, -1, 1), Effect(<<>>, 2, 2, 1)}

MCDescriptions ==
  {[Base EXCEPT !.operators = InOne(es)] : es \in Pairs} \cup {[Base EXCEPT !.operators = InTwo(es)] : es \in Pairs}
  \cup {[Base EXCEPT !.operators = InOne(<<e>>)] : e \in MoreEffects}
  \cup {[Base EXCEPT !.mutexGroups = <<g>>, !.initialState = st] : g \in Groups, st \in {<<0, 1, 0>>, <<1, 1, 0>>}}
  \cup {[Base EXCEPT !.mutexGroups = <<g, << <<0, 0>>, <<0, 1>> >> >>] : g \in Groups}
  \cup {[Base EXCEPT !.axiomRules = <<r>>] : r \in Rules} \cup {[Base EXCEPT !.variables[3].axiomLayer = 0]}
  \cup {[Base EXCEPT !.initialState = st] : st \in {<<0, -1, 0>>, <<0, 2, 2>>, <<0, 1>>, <<0, 1, 0, 1>>}}
  \cup {[Base EXCEPT !.goal = g] : g \in {<<>>, << <<0, -1>> >>, << <<0, 2>> >>, << <<3, 0>> >>, << <<-1, 0>> >>}}
  \cup {[Base EXCEPT !.variables[2].values = vs] :
          vs \in {<<None, Q, R>>, <<Q, None, None>>, <<Q, R>>, <<Q, NotP, R>>, <<R>>}}
  \cup {[Base EXCEPT !.version = 2], [Base EXCEPT !.metric = 1], [Base EXCEPT !.metric = 2],
        [Base EXCEPT !.trailing = Text(Base)], [Base EXCEPT !.trailing = <<"\n", " ">>]}
  \cup {[Base EXCEPT !.cut = n] : n \in 1 .. Len(Text(Base)) - 1}
  \cup {[Base EXCEPT !.axiomRules = <<r>>, !.cut = n] : r \in Rules, n \in 1 .. 2}
  \cup {[Base EXCEPT !.trailing = <<"\n", " ">>, !.cut = 1]}
  \cup {[Base EXCEPT !.operators[1].costs = n] : n \in {0, 10, 37, 205}}
  \cup {[Base EXCEPT !.goal = << <<f, v>> >>] : f \in {0, 10}, v \in {-10, 1, 11}}
=============================================================================
