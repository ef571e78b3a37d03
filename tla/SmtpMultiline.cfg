CONSTANTS
  MaxLines = 1
  MaxTokens = 0
SPECIFICATION Spec
INVARIANT
  CompleteReplySettles
CHECK_DEADLOCK FALSE
