CONSTANTS
  Var <- MCVar
  Object <- MCObject
  Predicate <- MCPredicate
  Depth = 5
  Actions <- MCActions
  Goals <- MCGoals
  MaxActions = 1
  Interpretation <- MCInterpretation
  Environment <- MCEnvironment
SPECIFICATION TSpec
INVARIANTS AcceptedIsTrue PlainTrueIsAccepted
CHECK_DEADLOCK FALSE
