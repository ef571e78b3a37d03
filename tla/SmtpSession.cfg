CONSTANTS
  MaxLines = 0
  MaxTokens = 2
SPECIFICATION FairSpec
INVARIANTS
  TypeOK
  RepliesMatch
  SentMeansAccepted
  RetryUsesAnotherToken
  SessionReleased
PROPERTY
  SendEnds
CHECK_DEADLOCK FALSE
