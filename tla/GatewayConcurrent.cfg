CONSTANTS
  MessageIds = {m1, m2}
  ProviderIds = {p1, p2}
  ForeignIds = {f1}
  Requests = {r1, r2}
  Deliveries = {d1, d2}
  SerialWebhooks = FALSE
  MaxFaults = 1
  None = None
SYMMETRY Symmetry
SPECIFICATION Spec
INVARIANTS
  IndInv
  FactsHaveCause
  SentMeansStored
  StoredStatusHasFact
  ReadFactNeedsDeliveredFact
  EventFollowsStore
  SkippedReceiptReachesBus
PROPERTIES
  MappingNeverReplaced
