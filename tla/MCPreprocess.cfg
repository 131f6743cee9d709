CONSTANTS
  Variable <- MCVariable
  Value <- MCValue
  Action <- MCAction
  precondition <- MCPre
  postcondition <- MCPost
  initialState <- MCInit
  Closure <- MCClosure
  Tasks <- MCTasks
  Goals <- MCGoals
SPECIFICATION Spec
INVARIANTS TypeOK GoalPreserved RefusalSound QueriesAreFluents
PROPERTY PrunedStepsLegal
CHECK_DEADLOCK FALSE
