CONSTANTS
  Inbounds = {m1}
  Receipts = {r1, r2}
  MaxEvents = 2
  MaxAttempts = 2
  None = None
SPECIFICATION FairLifecycle
CHECK_DEADLOCK FALSE
INVARIANTS
  LifecycleTypeOK
  EventsAccounted
  ForwardedInOrder
  LossNeedsDelay
  MirrorBeforeProducer
  QuietWhenStopped
  ServerWithinConsumers
PROPERTIES
  StartAndShutdownEnd
