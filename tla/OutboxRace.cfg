CONSTANTS
  Records = {1}
  Workers = {w1, w2}
  BatchSize = 1
  MaxRetries = 2
  MaxBackoff = 1
  StaleLock = 1
  MaxClaimAge = 1
  Timely = TRUE
  MaxFaults = 0
  None = None
SPECIFICATION Spec
PROPERTIES
  SettledNotSentAgain
