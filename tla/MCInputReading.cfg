CONSTANTS
  Punctuation <- MCPunctuation
  Wide <- MCWide
  Narrow <- MCNarrow
  Inputs <- MCInputs
  LanguageOption <- MCLanguageOption
SPECIFICATION Spec
INVARIANTS TypeOK LocationsPointIntoFiles CommentsRemoved DetectionAgreesWithParser PDDLIsRecognized
PROPERTY Terminates
CHECK_DEADLOCK FALSE
