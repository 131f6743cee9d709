CONSTANTS
  Var <- MCVar
  Object <- MCObject
  Predicate <- MCPredicate
  Depth = 4
  Actions <- MCActions
  Goals <- MCGoals
  MaxActions = 2
  Interpretation <- MCInterpretation
  Environment <- MCEnvironment
SPECIFICATION Spec
INVARIANTS TypeOK NamesConsecutive ReferencesAscend BodiesClosed NormalizedMeaningKept
PROPERTY DeclarationsStable
CHECK_DEADLOCK FALSE
