CONSTANTS
  Var <- MCVar
  Object <- MCObject
  Predicate <- MCPredicate
  Depth = 4
  Parsed <- MCParsed
  Interpretation <- MCInterpretation
  Environment <- MCEnvironment
SPECIFICATION Spec
INVARIANTS MeaningKept PassesInOrder AtomsKept
CHECK_DEADLOCK FALSE
