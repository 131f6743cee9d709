CONSTANTS
  Var <- MCVar
  Object <- MCObject
  Predicate <- MCPredicate
  Depth = 4
  Actions <- SharedActions
  Goals <- MCGoals
  MaxActions = 1
  InitialStates <- MCInitialStates
  NoState = NoState
  Horizon = 4
  Interpretation <- MCInterpretation
  Environment <- MCEnvironment
SPECIFICATION ASpec
INVARIANT ConditionalEffectsApplied
CHECK_DEADLOCK FALSE
