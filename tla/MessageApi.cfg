CONSTANTS
  Omissible = {"INTERNAL_API_KEY", "EVOLUTION_API_KEY", "EVOLUTION_WEBHOOK_SECRET", "STALWART_HOST", "STALWART_FROM_ADDRESS", "RESEND_FROM_ADDRESS"}
  MaxMissing = 1
  Messages = {m1}
  Queries = {q1}
  Deliveries = {d1}
  MessageIds = {i1}
  ProviderIds = {p1}
  ForeignIds = {f1}
  MaxChanges = 2
  MaxFaults = 1
  MaxOdd = 2
  MaxCredentials = 2
  None = None
SPECIFICATION FairApi
CHECK_DEADLOCK FALSE
INVARIANTS
  ApiTypeOK
  FallbackEarned
  HealthyMeansEachWasUp
  AnswerTellsEffect
  FiledUnderHolder
  ValidatedConfigSends
  WebhooksAuthentic
PROPERTIES
  RequestsAnswered
