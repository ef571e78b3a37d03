CONSTANTS
  Records = {1, 2}
  Workers = {w1, w2}
  BatchSize = 2
  MaxRetries = 2
  MaxBackoff = 1
  StaleLock = 1
  MaxClaimAge = 1
  Timely = FALSE
  MaxFaults = 1
  None = None
SYMMETRY Symmetry
SPECIFICATION Spec
INVARIANTS
  PublishedMeansAcked
  DeadLetterEarned
  ClaimExclusive
  IndInv
