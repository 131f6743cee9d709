\* The solver's steps from a SAS text are those of the task that was written.
SPECIFICATION SSpec
CHECK_DEADLOCK FALSE
CONSTANTS
  Punctuation <- MCPunctuation
  Wide <- MCWide
  Narrow <- MCNarrow
  NoState <- MCNoState
  Horizon = 3
  Descriptions <- MCDescriptions
INVARIANTS
  SASReadAsWritten
  PlansNotLost
PROPERTY ImplementsSAS
