CONSTANTS
  Var <- MCVar
  Object <- MCObject
  Predicate <- MCPredicate
  Depth = 5
  Actions <- MCActions
  Goals <- MCGoals
  MaxActions = 1
  Interpretation <- MCInterpretation
  Environment <- MCEnvironment
SPECIFICATION TSpec
INVARIANTS DerivedPredicatesTyped
CHECK_DEADLOCK FALSE
