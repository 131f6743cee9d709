CONSTANTS
  Variable <- MCVariable
  Value <- MCValue
  Action <- MCAction
  precondition <- MCPre
  postcondition <- MCPost
  initialState <- MCInit
  Active <- MCAction
  Relevant <- MCRelevant
  MutexGroup <- MCMutex
  Parallel <- MCParallel
  Shallow <- MCShallow
  Inertia <- MCInertia
  PlannerOn <- MCPlannerOn
  Steps <- MCSteps
  rank <- MCRank
SPECIFICATION Spec
INVARIANTS TypeOK NeverStuck EndsInSolverState AnySequence ModesNested ForallComplete ExistsComplete RedundancyExact
PROPERTY ImplementsSequential
CHECK_DEADLOCK FALSE
