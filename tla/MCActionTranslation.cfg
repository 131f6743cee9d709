CONSTANTS
  Var <- MCVar
  Object <- MCObject
  Predicate <- MCPredicate
  Depth = 4
  Actions <- AllActions
  Goals <- MCGoals
  MaxActions = 2
  InitialStates <- MCInitialStates
  NoState = NoState
  Horizon = 4
  Interpretation <- MCInterpretation
  Environment <- MCEnvironment
SPECIFICATION ASpec
CONSTRAINT ConditionalEffectsPlain
INVARIANT PlainActionsPossible
PROPERTY ImplementsPDDL
CHECK_DEADLOCK FALSE
