CONSTANTS
  MessageIds = {m1}
  ProviderIds = {p1}
  ForeignIds = {f1}
  Requests = {r1}
  Deliveries = {d1, d2, d3}
  SerialWebhooks = TRUE
  MaxFaults = 1
  None = None
SYMMETRY Symmetry
SPECIFICATION Spec
PROPERTIES
  LifecycleSpec
