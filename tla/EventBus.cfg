CONSTANTS
  Subscribers = {s1, s2}
  Events = {e1, e2}
  MaxQueue = 2
  None = None
  Done = Done
SPECIFICATION FairSpec
INVARIANTS
  IndInv
  NoLostWakeup
PROPERTIES
  ChannelsSpec
