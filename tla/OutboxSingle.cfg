CONSTANTS
  Records = {1, 2, 3}
  Workers = {w1}
  BatchSize = 2
  MaxRetries = 2
  MaxBackoff = 1
  StaleLock = 1
  MaxClaimAge = 1
  Timely = FALSE
  MaxFaults = 2
  None = None
SPECIFICATION FairSpec
INVARIANT
PROPERTIES
  SettledNotSentAgain
  ContractSpec
