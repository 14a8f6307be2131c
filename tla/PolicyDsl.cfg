SPECIFICATION Spec
CONSTANTS
  MaxTokens = 8
  MaxEdited = 5
INVARIANT WholeTextParsed
CHECK_DEADLOCK FALSE
