CONSTANTS
  Inbounds = {m1}
  Receipts = {r1}
  MaxEvents = 2
  MaxAttempts = 2
  None = None
SPECIFICATION ShutdownSpec
CHECK_DEADLOCK FALSE
INVARIANT NothingLostAtTheEnd
