\* What strict mode accepts is what is well-formed, and it means what was written.
SPECIFICATION Spec
CHECK_DEADLOCK FALSE
CONSTANTS
  Punctuation <- MCPunctuation
  Wide <- MCWide
  Narrow <- MCNarrow
  Descriptions <- MCDescriptions
INVARIANTS
  ReadAsWritten
  ModesAgree
  BeautifiedReadsBack
  AtomsAreVariables
