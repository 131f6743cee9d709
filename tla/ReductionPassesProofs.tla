------------------------ MODULE ReductionPassesProofs ------------------------
(***************************************************************************)
(* The three properties of reduce as a state machine, from what            *)
(* ReductionProofs shows of each pass.                                     *)
(***************************************************************************)
EXTENDS ReductionPasses, ReductionProofs

\* ReductionKept, of a precondition the parser may deliver.
LEMMA ParsedKept ==
  ASSUME NEW f \in Parsed
  PROVE  /\ Kept(f, NoImply(f)) /\ Without(NoImply(f), {"derived", "imply"})
         /\ Kept(f, NoForAll(f)) /\ Without(NoForAll(f), Earlier)
         /\ Kept(f, Reduced(f)) /\ Without(Reduced(f), Earlier) /\ Negative(Reduced(f))
<1>1. f \in Trees[Depth] /\ Without(f, {"derived"})
  BY ParsedAssumption DEF Without
<1> QED BY <1>1, ReductionKept

\* The precondition is what the passes run so far make of the source.
IInv ==
  /\ source \in Parsed
  /\ \/ pass = "parsed" /\ precondition = source
     \/ pass = "no imply" /\ precondition = NoImply(source)
     \/ pass = "no forall" /\ precondition = NoForAll(source)
     \/ pass = "reduced" /\ precondition = Reduced(source)

\* It holds initially, each pass keeps it, and so it always holds.
LEMMA InitIInv == Init => IInv
BY DEF Init, IInv

LEMMA NextIInv == IInv /\ [Next]_vars => IInv'
<1> SUFFICES ASSUME IInv, [Next]_vars PROVE IInv'
  OBVIOUS
<1>1. CASE EliminateImply
  BY <1>1 DEF IInv, EliminateImply, NoImply
<1>2. CASE EliminateForAll
  BY <1>2 DEF IInv, EliminateForAll, NoForAll
<1>3. CASE NegationNormalize
  BY <1>3 DEF IInv, NegationNormalize, Reduced
<1>4. CASE UNCHANGED vars
  BY <1>4 DEF IInv, vars
<1> QED BY <1>1, <1>2, <1>3, <1>4 DEF Next

LEMMA SpecIInv == Spec => []IInv
BY InitIInv, NextIInv, PTL DEF Spec

\* No pass changes what a precondition says, in any interpretation and environment.
THEOREM ReductionKeepsMeaning == Spec => []MeaningKept
<1>1. IInv => MeaningKept
  <2> SUFFICES ASSUME IInv, NEW I, NEW env PROVE True(precondition, env, I) <=> True(source, env, I)
    BY DEF MeaningKept
  <2>1. Models(I)[precondition] = Models(I)[source]
    BY ParsedKept DEF IInv, Kept
  <2> QED BY <2>1 DEF True
<1> QED BY <1>1, SpecIInv, PTL

\* No pass drops, duplicates or reorders an atomic formula.
THEOREM ReductionKeepsAtoms == Spec => []AtomsKept
<1>1. IInv => AtomsKept
  BY ParsedKept DEF IInv, Kept, AtomsKept
<1> QED BY <1>1, SpecIInv, PTL

\* Each pass meets only what the passes before it leave.
THEOREM ReductionInOrder == Spec => []PassesInOrder
<1>1. IInv => PassesInOrder
  <2> SUFFICES ASSUME IInv PROVE PassesInOrder
    OBVIOUS
  <2>1. CASE pass = "parsed"
    BY <2>1 DEF PassesInOrder
  <2>2. CASE pass = "no imply"
    <3>1. Without(precondition, {"derived", "imply"})
      BY <2>2, ParsedKept DEF IInv
    <3> QED BY <2>2, <3>1 DEF PassesInOrder, Without
  <2>3. CASE pass = "no forall"
    <3>1. Without(precondition, Earlier)
      BY <2>3, ParsedKept DEF IInv
    <3> QED BY <2>3, <3>1 DEF PassesInOrder, Without, Earlier
  <2>4. CASE pass = "reduced"
    <3>1. Without(precondition, Earlier) /\ Negative(precondition)
      BY <2>4, ParsedKept DEF IInv
    <3> QED BY <2>4, <3>1 DEF PassesInOrder, Without, Earlier, Negative
  <2> QED BY <2>1, <2>2, <2>3, <2>4 DEF IInv
<1> QED BY <1>1, SpecIInv, PTL
=============================================================================
