---------------------------- MODULE AnswerProofs ----------------------------
(***************************************************************************)
(* Theorems about the answers of MessageApi: for any numbers of messages,  *)
(* webhooks and faults, and for every environment, the answer to a send    *)
(* tells what became of the message (AnswerTellsEffect), an accepted       *)
(* production environment sends (ValidatedConfigSends), what is proved of  *)
(* the store alone holds behind the interface (StoreHoldsOverHttp), and    *)
(* what the interface keeps has its type (ApiTypes).                       *)
(***************************************************************************)
EXTENDS MessageApiProofs

-----------------------------------------------------------------------------
(* What the adapters answer *)

\* A response that says timeout is one of the known ones.
TimeoutKnown(r) ==
  \/ r.by = "EVOLUTION" /\ r.error = "providerText"
  \/ r.by = "RESEND" /\ r.error = "UNAVAILABLE"
  \/ r.by = "STALWART" /\ r.error \in {"SMTP_CONNECTION_FAILED", "SMTP_ERROR"}
  \/ r.by = "STALWART" /\ r.error = "EMAIL_SEND_FAILED" /\ config.oauth

\* Texts of answers that no adapter uses.
NotOfAdapters ==
  {"INTERNAL_API_KEY_NOT_CONFIGURED", "DELIVERY_STATE_PERSISTENCE_FAILED"}

LEMMA ResponseFields ==
  /\ \A p, id : /\ Success(p, id).success /\ Success(p, id).by = p
                /\ Success(p, id).error = "none"
                /\ ~Success(p, id).timeout
  /\ \A p, error, timeout :
       /\ ~Failure(p, error, timeout).success
       /\ Failure(p, error, timeout).by = p
       /\ Failure(p, error, timeout).error = error
BY DEF Success, Failure

\* Before the message is taken there are only failures.
LEMMA RefusalShown ==
  ASSUME NEW p \in Providers, NEW r \in BeforeTaking(config, p)
  PROVE  /\ ~r.success /\ r.by = p
         /\ r.error \notin NotOfAdapters \cup {"NOT_CONFIGURED"}
         /\ r.timeout => TimeoutKnown(r)
<1> USE DEF NotOfAdapters, TimeoutKnown
<1>1. CASE p = "EVOLUTION"
  <2>1. PICK o \in HttpOutcomes : o.status # 200 /\ r = EvolutionSend(o)
    BY <1>1 DEF BeforeTaking
  <2>2. CASE o.status = 0
    BY <1>1, <2>1, <2>2 DEF EvolutionSend, Failure
  <2>3. CASE o.status # 0
    BY <1>1, <2>1, <2>3 DEF EvolutionSend, Failure
  <2> QED BY <2>2, <2>3
<1>2. CASE p = "RESEND"
  <2>1. PICK o \in HttpOutcomes : o.status # 200 /\ r = ResendSend(o)
    BY <1>2 DEF BeforeTaking
  <2>2. CASE o.status = 0
    BY <1>2, <2>1, <2>2 DEF ResendSend, Failure
  <2>3. CASE o.status # 0
    <3>1. r = Failure("RESEND", ResendError(o), FALSE)
      BY <2>1, <2>3 DEF ResendSend
    <3>2. ResendError(o) \in {"AUTH_FAILED", "RATE_LIMITED", "UNAVAILABLE", "REQUEST_REJECTED"}
      BY DEF ResendError
    <3> QED BY <1>2, <3>1, <3>2 DEF Failure
  <2> QED BY <2>2, <2>3
<1>3. CASE p = "STALWART"
  <2>1. PICK o : /\ r = StalwartSend(o)
                 /\ \/ o \in {"connect", "greetingSaysTimeout", "command",
                               "serverSaysTimeout", "socketCode"}
                    \/ config.oauth /\ o \in {"tokenTimeout", "tokenBroken"}
    BY <1>3 DEF BeforeTaking
  <2> QED BY <1>3, <2>1 DEF StalwartSend, Failure
<1> QED BY <1>1, <1>2, <1>3 DEF Providers

\* After it is taken, no failure pretends that it was not.
LEMMA AnswerShown ==
  ASSUME NEW p \in Providers, NEW r \in AfterTaking(p)
  PROVE  /\ r.by = p
         /\ ~r.success =>
              /\ r.error \notin NotOfAdapters \cup NothingSent
              /\ r.timeout => TimeoutKnown(r)
<1> USE DEF NotOfAdapters, TimeoutKnown, NothingSent
<1> SUFFICES ASSUME ~r.success
             PROVE  /\ r.error \notin NotOfAdapters \cup NothingSent
                    /\ r.timeout => TimeoutKnown(r)
  BY AnsweredBy
<1>1. CASE p = "EVOLUTION"
  <2>1. PICK o \in HttpOutcomes : r = EvolutionSend(o)
    BY <1>1 DEF AfterTaking
  <2>2. CASE o.status = 200 /\ o.body # "none"
    <3>1. r = Success("EVOLUTION", o.body = "id")
      BY <2>1, <2>2 DEF EvolutionSend
    <3> QED BY <3>1, ResponseFields
  <2>3. CASE o.status = 200 /\ o.body = "none"
    BY <2>1, <2>3 DEF EvolutionSend, Failure
  <2>4. CASE o.status = 0
    <3>1. r = Failure("EVOLUTION", "transportText", FALSE)
      BY <2>1, <2>4 DEF EvolutionSend
    <3> QED BY <3>1 DEF Failure
  <2>5. CASE o.status \notin {0, 200}
    BY <2>1, <2>5 DEF EvolutionSend, Failure
  <2> QED BY <2>2, <2>3, <2>4, <2>5
<1>2. CASE p = "RESEND"
  <2>1. PICK o \in HttpOutcomes : r = ResendSend(o) /\ o.status \in {0, 200, 500}
    BY <1>2 DEF AfterTaking
  <2>2. CASE o.status = 200 /\ o.body \in {"id", "emptyId"}
    <3>1. r = Success("RESEND", o.body = "id")
      BY <2>1, <2>2 DEF ResendSend
    <3> QED BY <3>1, ResponseFields
  <2>3. CASE o.status = 0
    <3>1. r = Failure("RESEND", "UNAVAILABLE", o.body = "timedOut")
      BY <2>1, <2>3 DEF ResendSend
    <3>2. r.by = "RESEND" /\ r.error = "UNAVAILABLE"
      BY <3>1, ResponseFields
    <3> QED BY <3>2
  <2>4. CASE o.status \in {200, 500} /\ ~(o.status = 200 /\ o.body \in {"id", "emptyId"})
    <3>1. r = Failure("RESEND", ResendError(o), FALSE)
      <4>1. o.status # 0
        BY <2>4
      <4>2. ~(o.status = 200 /\ o.body \in {"id", "emptyId"})
        BY <2>4
      <4> QED BY <2>1, <4>1, <4>2, Zenon DEF ResendSend
    <3>2. ResendError(o) \in {"UNAVAILABLE", "REQUEST_REJECTED"}
      BY <2>4 DEF ResendError
    <3> QED BY <3>1, <3>2 DEF Failure
  <2>5. \/ o.status = 200 /\ o.body \in {"id", "emptyId"}
        \/ o.status = 0
        \/ o.status \in {200, 500} /\ ~(o.status = 200 /\ o.body \in {"id", "emptyId"})
    <3>1. o.status \in {0, 200, 500}
      BY <2>1
    <3> QED BY <3>1
  <2> QED BY <2>2, <2>3, <2>4, <2>5
<1>3. CASE p = "STALWART"
  <2>1. PICK o \in {"sent", "command", "serverSaysTimeout"} : r = StalwartSend(o)
    BY <1>3 DEF AfterTaking
  <2> QED BY <2>1 DEF StalwartSend, Success, Failure
<1> QED BY <1>1, <1>2, <1>3 DEF Providers

-----------------------------------------------------------------------------
(* What refuses a send *)

\* What is answered before anything is sent; each has its name, so that the provers
\* need not look at its number.
UnauthorizedAnswer == Answered(401, "INVALID_INTERNAL_API_KEY")
BadRequestAnswer == Answered(400, "Bad Request")
TypeErrorAnswer == Answered(500, "InternalServerError")
UnresolvedAnswer == Answered(422, "ADDRESS_RESOLUTION_FAILED")
NoChannelAnswer == Answered(404, "CHANNEL_NOT_FOUND")

RefusalAnswers ==
  {UnauthorizedAnswer, BadRequestAnswer, TypeErrorAnswer, UnresolvedAnswer, NoChannelAnswer}

LEMMA AnswerFields ==
  \A status, message : /\ Answered(status, message).status = status
                       /\ Answered(status, message).message = message
BY DEF Answered

LEMMA RefusalTells ==
  ASSUME NEW a \in RefusalAnswers
  PROVE  /\ a.status \notin {200, 502, 504}
         /\ a.status \in {400, 401, 404, 422, 500}
         /\ a.message \notin {"DELIVERY_STATE_PERSISTENCE_FAILED", "NOT_CONFIGURED",
                               "INTERNAL_API_KEY_NOT_CONFIGURED"}
<1> DEFINE tells(x) ==
             /\ x.status \notin {200, 502, 504}
             /\ x.status \in {400, 401, 404, 422, 500}
             /\ x.message \notin {"DELIVERY_STATE_PERSISTENCE_FAILED", "NOT_CONFIGURED",
                                   "INTERNAL_API_KEY_NOT_CONFIGURED"}
<1>1. tells(UnauthorizedAnswer)
  BY DEF UnauthorizedAnswer, Answered
<1>2. tells(BadRequestAnswer)
  <2>1. BadRequestAnswer.message = "Bad Request" /\ BadRequestAnswer.status = 400
    BY DEF BadRequestAnswer, Answered
  <2>2. /\ BadRequestAnswer.status \notin {200, 502, 504}
        /\ BadRequestAnswer.status \in {400, 401, 404, 422, 500}
    <3>1. BadRequestAnswer.status = 400
      BY <2>1
    <3> QED BY <3>1
  <2>3. BadRequestAnswer.message \notin
          {"DELIVERY_STATE_PERSISTENCE_FAILED", "NOT_CONFIGURED",
           "INTERNAL_API_KEY_NOT_CONFIGURED"}
    <3>1. BadRequestAnswer.message = "Bad Request"
      BY <2>1
    <3> QED BY <3>1
  <2> QED BY <2>2, <2>3
<1>3. tells(TypeErrorAnswer)
  BY DEF TypeErrorAnswer, Answered
<1>4. tells(UnresolvedAnswer)
  BY DEF UnresolvedAnswer, Answered
<1>5. tells(NoChannelAnswer)
  BY DEF NoChannelAnswer, Answered
<1>6. tells(a)
  <2> HIDE DEF tells
  <2> QED BY <1>1, <1>2, <1>3, <1>4, <1>5 DEF RefusalAnswers
<1> QED BY <1>6

\* How the filter describes what refuses a send.
LEMMA RefusalsDescribed ==
  /\ Describe(HttpException(401, "INVALID_INTERNAL_API_KEY")) = UnauthorizedAnswer
  /\ Describe(HttpException(400, "Bad Request")) = BadRequestAnswer
  /\ Describe(DomainError("TypeError")) = TypeErrorAnswer
  /\ Describe(HttpException(422, "ADDRESS_RESOLUTION_FAILED")) = UnresolvedAnswer
  /\ Describe(DomainError("ChannelNotFoundError")) = NoChannelAnswer
<1>1. \A status, message :
        Describe(HttpException(status, message)) = Answered(status, message)
  BY DEF Describe, HttpException
<1>2. Describe(HttpException(401, "INVALID_INTERNAL_API_KEY")) = UnauthorizedAnswer
  BY <1>1 DEF UnauthorizedAnswer
<1>3. Describe(HttpException(400, "Bad Request")) = BadRequestAnswer
  <2> DEFINE status == 400
             message == "Bad Request"
  <2>1. BadRequestAnswer = Answered(status, message)
    BY DEF BadRequestAnswer
  <2> SUFFICES Describe(HttpException(status, message)) = BadRequestAnswer
    OBVIOUS
  <2> HIDE DEF status, message
  <2> QED BY <1>1, <2>1
<1>4. Describe(DomainError("TypeError")) = TypeErrorAnswer
  BY DEF Describe, DomainError, DomainAnswer, TypeErrorAnswer
<1>5. Describe(HttpException(422, "ADDRESS_RESOLUTION_FAILED")) = UnresolvedAnswer
  BY <1>1 DEF UnresolvedAnswer
<1>6. Describe(DomainError("ChannelNotFoundError")) = NoChannelAnswer
  BY DEF Describe, DomainError, DomainAnswer, NoChannelAnswer
<1> QED BY <1>2, <1>3, <1>4, <1>5, <1>6

LEMMA RefusedAnswer ==
  ASSUME NEW refused \in Here(Refused)
  PROVE  \/ refused.answer \in RefusalAnswers
         \/ /\ ~KeyConfigured
            /\ refused.answer = Answered(503, "INTERNAL_API_KEY_NOT_CONFIGURED")
<1>1. PICK k \in BOOLEAN, cs \in SUBSET Channels, in \in Sends :
        \E x \in Refusal(k, cs, in) :
          refused = [keyConfigured |-> k, channels |-> cs, answer |-> Describe(x)]
  BY DEF Here, Refused
<1>2. PICK x \in Refusal(k, cs, in) :
        refused = [keyConfigured |-> k, channels |-> cs, answer |-> Describe(x)]
  BY <1>1
<1>3. refused.keyConfigured = k /\ refused.answer = Describe(x)
  BY <1>2
<1>4. k = KeyConfigured
  BY <1>3 DEF Here
<1>5. CASE x \in GuardRefusal(k, in) /\ ~k
  <2>1. Describe(x) = Answered(503, "INTERNAL_API_KEY_NOT_CONFIGURED")
    BY <1>5 DEF GuardRefusal, Describe, HttpException
  <2> QED BY <1>3, <1>4, <1>5, <2>1
<1> DEFINE unauthorized == HttpException(401, "INVALID_INTERNAL_API_KEY")
           badRequest == HttpException(400, "Bad Request")
           unresolved == HttpException(422, "ADDRESS_RESOLUTION_FAILED")
<1>6. \/ x \in GuardRefusal(k, in) /\ ~k
      \/ x \in {unauthorized, badRequest, unresolved, DomainError("TypeError"),
                DomainError("ChannelNotFoundError")}
  <2>1. x \in GuardRefusal(k, in) => ~k \/ x = unauthorized
    BY DEF GuardRefusal
  <2>2. x \in ValidationRefusal(in) => x = badRequest \/ x = DomainError("TypeError")
    BY Zenon DEF ValidationRefusal
  <2>3. x \in AddressRefusal(in) => x = unresolved
    BY DEF AddressRefusal
  <2>4. x \in ChannelRefusal(cs, in) => x = DomainError("ChannelNotFoundError")
    BY DEF ChannelRefusal
  <2> HIDE DEF unauthorized, badRequest, unresolved
  <2> QED BY <1>2, <2>1, <2>2, <2>3, <2>4 DEF Refusal
<1>7. /\ Describe(unauthorized) = UnauthorizedAnswer
      /\ Describe(badRequest) = BadRequestAnswer
      /\ Describe(unresolved) = UnresolvedAnswer
  BY RefusalsDescribed
<1> HIDE DEF unauthorized, badRequest, unresolved
<1>8. CASE x \in {unauthorized, badRequest, unresolved, DomainError("TypeError"),
                  DomainError("ChannelNotFoundError")}
  <2>1. /\ Describe(DomainError("TypeError")) = TypeErrorAnswer
        /\ Describe(DomainError("ChannelNotFoundError")) = NoChannelAnswer
    BY RefusalsDescribed
  <2> QED BY <1>3, <1>7, <1>8, <2>1 DEF RefusalAnswers
<1> QED BY <1>5, <1>6, <1>8

-----------------------------------------------------------------------------
(* What readEnv accepts *)

\* In a strict environment nothing is missing that a provider in use needs, but for
\* the sender address of Stalwart.
LEMMA StrictProviders ==
  ASSUME config \in Configurations, config.strict, NEW p \in RegisteredProviders
  PROVE  /\ Reachable(config, p)
         /\ \A text : NotConfigured(config, p, text) =>
              \/ text = "blank"
              \/ p = "STALWART" /\ "STALWART_FROM_ADDRESS" \in config.missing
<1>1. Required(config) \cap config.missing = {}
  BY DEF Configurations, Accepted
<1>2. CASE p = "EVOLUTION"
  <2>1. "EVOLUTION_BASE_URL" \in Required(config)
    BY DEF Required
  <2> QED BY <1>1, <1>2, <2>1 DEF Reachable, NotConfigured
<1>3. PICK ch \in Channels : p \in ToSet(Candidates(ch))
  BY DEF RegisteredProviders
<1>4. p \in ToSet(Primaries(ch)) \/ p \in ToSet(Fallbacks(ch))
  BY <1>3, CandidateOrder DEF Candidates, ToSet
<1>5. ASSUME NEW name, EmailProvider(config, name) # <<>>,
             p \in ToSet(EmailProvider(config, name))
      PROVE  \/ p = "RESEND" /\ name = "resend"
             \/ p = "STALWART" /\ name = "stalwart"
  <2>1. EmailProvider(config, name) \in {<<"RESEND">>, <<"STALWART">>}
    BY <1>5 DEF EmailProvider
  <2>2. name = "resend" <=> EmailProvider(config, name) = <<"RESEND">>
    BY <1>5 DEF EmailProvider
  <2>3. EmailProvider(config, name) = <<"STALWART">> => name = "stalwart"
    BY <1>5 DEF EmailProvider
  <2>4. EmailProvider(config, name) = <<p>>
    BY <1>5, <2>1 DEF ToSet
  <2> QED BY <2>1, <2>2, <2>3, <2>4
<1>6. ASSUME p # "EVOLUTION"
      PROVE  \E name \in {config.primary, config.fallback} :
               p \in ToSet(EmailProvider(config, name))
  <2>1. ToSet(<<"EVOLUTION">>) = {"EVOLUTION"} /\ ToSet(<<>>) = {}
    BY DEF ToSet
  <2>2. Primaries(ch) = <<"EVOLUTION">> \/ Primaries(ch) = EmailProvider(config, config.primary)
    BY DEF Primaries, PrimariesOf
  <2>3. Fallbacks(ch) = <<>> \/ Fallbacks(ch) = EmailProvider(config, config.fallback)
    BY DEF Fallbacks, FallbacksOf
  <2> QED BY <1>4, <1>6, <2>1, <2>2, <2>3
<1>7. p # "EVOLUTION" => \/ p = "RESEND" /\ Selects(config, "resend")
                         \/ p = "STALWART" /\ Selects(config, "stalwart")
  <2>1. ToSet(<<>>) = {}
    BY DEF ToSet
  <2> QED BY <1>5, <1>6, <2>1 DEF Selects
<1>8. CASE p = "RESEND"
  <2>1. {"RESEND_API_KEY", "RESEND_FROM_ADDRESS"} \subseteq Required(config)
    BY <1>7, <1>8 DEF Required
  <2> QED BY <1>1, <1>8, <2>1 DEF Reachable, NotConfigured
<1>9. CASE p = "STALWART"
  <2>1. "STALWART_HOST" \in Required(config)
    BY <1>7, <1>9 DEF Required
  <2> QED BY <1>1, <1>9, <2>1 DEF Reachable, NotConfigured
<1> QED BY <1>2, <1>7, <1>8, <1>9

-----------------------------------------------------------------------------
(* The inductive invariant *)

\* What is known of the response of an attempt that failed.
FailureShown(m) ==
  LET r == response[m] IN
  /\ ~r.success /\ r.by \in RegisteredProviders
  /\ r.error \notin NotOfAdapters
  /\ took[m] # <<>> => r.error \notin NothingSent
  /\ r.error = "NOT_CONFIGURED" => NotConfigured(config, r.by, input[m].text)
  /\ r.timeout => TimeoutKnown(r)

\* What an answer tells, as AnswerTellsEffect says it.
AnswerTells(m) ==
  LET a == answer[m] IN
  /\ a.status = 500 => send[m].pc = "none"
  /\ a.message \in NothingSent => took[m] = <<>>
  /\ a.status = 200 =>
       /\ took[m] = <<response[m].by>>
       /\ response[m].id => Stored(input[m].id)
  /\ a.message = "DELIVERY_STATE_PERSISTENCE_FAILED" => took[m] # <<>>
  /\ a.status \in {502, 504} => ~response[m].success
  /\ a.status = 504 => KnownTimeout(m)

\* What ValidatedConfigSends says of it.
AnswerOfStrict(m) ==
  config.strict =>
    /\ answer[m].message # "INTERNAL_API_KEY_NOT_CONFIGURED"
    /\ answer[m].message = "NOT_CONFIGURED" =>
         \/ input[m].text = "blank"
         \/ /\ response[m].by = "STALWART"
            /\ "STALWART_FROM_ADDRESS" \in config.missing

\* Where a send is, in the store and in the selection, and what it will answer with.
AnswerLinks(m) ==
  /\ request[m].pc = "dispatching" => send[m].pc = "sending"
  /\ request[m].pc = "saving" =>
       /\ send[m].pc = "sent"
       /\ response[m].success /\ response[m].id /\ response[m].by = Candidate(m)
  /\ request[m].pc = "recording" => send[m].pc = "failed" /\ FailureShown(m)
  /\ answer[m] # None =>
       /\ request[m].pc \in {"rejected", "sent", "badGateway", "unavailable"}
       /\ send[m].pc \in {"none", "unavailable", "sent", "failed"}
       /\ AnswerTells(m) /\ AnswerOfStrict(m)

AnswerInv ==
  /\ ApiInv
  /\ DOMAIN answer = Messages
  /\ \A m \in Messages : AnswerLinks(m)

LEMMA InitAnswerInv == ApiInit => AnswerInv
BY InitApiInv DEF ApiInit, Core!Init, AnswerInv, AnswerLinks

-----------------------------------------------------------------------------
(* What a step leaves alone *)

\* A row that is stored stays stored.
LEMMA StoredStays ==
  ASSUME ApiInv, [ApiNext]_apiVars, NEW id \in MessageIds, Stored(id)
  PROVE  Stored(id)'
<1>1. CASE mapping' = mapping
  BY <1>1 DEF Stored
<1>2. ASSUME NEW m \in Messages, MappingSaved(m)
      PROVE  Stored(id)'
  <2>1. \/ mapping' = mapping
        \/ mapping' = [mapping EXCEPT ![request[m].id] =
                         [pid |-> request[m].pid, status |-> "SENT"]]
    BY <1>2 DEF MappingSaved, Core!SaveMapping
  <2>2. request[m].pid \in ProviderIds
    BY <1>2 DEF MappingSaved, Core!SaveMapping, ApiInv, SendLinks
  <2>3. [pid |-> request[m].pid, status |-> "SENT"] \in Core!Mapping
    BY <2>2 DEF Core!Mapping, Core!DeliveryStatus
  <2> HIDE DEF Core!Mapping
  <2> QED BY <2>1, <2>3, StoreAssumption DEF Stored, ApiInv, Shape
<1>3. ASSUME NEW d \in Deliveries, WebhookStep(d)
      PROVE  Stored(id)'
  <2>1. CASE mapping' = mapping
    BY <2>1 DEF Stored
  <2>2. ASSUME NEW i \in MessageIds, NEW status \in Core!DeliveryStatus, Stored(i),
               mapping' = [mapping EXCEPT ![i].status = status]
        PROVE  Stored(id)'
    <3>1. [mapping[i] EXCEPT !.status = status] \in Core!Mapping
      BY <2>2 DEF ApiInv, RowLinks, Core!Mapping
    <3>2. mapping'[id] \in {mapping[id], [mapping[i] EXCEPT !.status = status]}
      BY <2>2 DEF ApiInv, Shape
    <3> QED BY <3>1, <3>2, StoreAssumption DEF Stored
  <2> QED BY <1>3, <2>1, <2>2, HandlerWritesStatus DEF HandlerWrites
<1>4. ASSUME NEW m \in Messages, RefuseSend(m) \/ ReceiveSend(m) \/ SendStep(m),
             ~MappingSaved(m)
      PROVE  mapping' = mapping
  BY <1>4 DEF SendStep, RefuseSend, ReceiveSend, Probe, TryNext, FindNone,
       CallProvider, AdapterRefuses, AttemptFails, ResponseArrives, MessageTaken,
       FailureRecorded, coreVars, Core!RejectRequest, Core!DispatchRequest,
       Core!ProviderRefuses, Core!ProviderAccepts, Core!ProviderAnswers,
       Core!RecordFailure
<1>5. ASSUME NEW d \in Deliveries,
             \/ RefuseWebhook(d) \/ IgnoreWebhook(d)
             \/ \E pid \in ProviderIds \cup ForeignIds : AcceptWebhook(d, pid)
      PROVE  mapping' = mapping
  BY <1>5 DEF RefuseWebhook, IgnoreWebhook, AcceptWebhook, Core!RefuseWebhook,
       Core!AcceptWebhook
<1>6. ASSUME (\E q \in Queries : QueryStep(q)) \/ HealthStep \/ UNCHANGED apiVars
      PROVE  mapping' = mapping
  BY <1>6 DEF QueryStep, HealthStep, apiVars, coreVars
<1> QED BY <1>1, <1>2, <1>3, <1>4, <1>5, <1>6 DEF ApiNext

\* A send that a step does not concern keeps what is known of it.
LEMMA AnswerUntouched ==
  ASSUME AnswerInv, [ApiNext]_apiVars, NEW m \in Messages, config' = config,
         UNCHANGED <<send[m], took[m], request[m], input[m], response[m], answer[m]>>
  PROVE  AnswerLinks(m)'
<1>1. RegisteredProviders' = RegisteredProviders /\ Candidate(m)' = Candidate(m)
  BY SameCandidates DEF Candidate
<1>2. FailureShown(m)' <=> FailureShown(m)
  BY <1>1 DEF FailureShown, TimeoutKnown
<1>3. KnownTimeout(m)' <=> KnownTimeout(m)
  BY DEF KnownTimeout
<1>4. ASSUME answer[m] # None, AnswerTells(m)
      PROVE  AnswerTells(m)'
  <2>1. ASSUME answer[m].status = 200, response[m].id
        PROVE  Stored(input[m].id)'
    <3>1. Stored(input[m].id)
      BY <1>4, <2>1 DEF AnswerTells
    <3>2. send[m].pc # "none"
      <4>1. took[m] = <<response[m].by>>
        BY <1>4, <2>1 DEF AnswerTells
      <4>2. send[m].pc = "none" => took[m] = <<>>
        BY DEF AnswerInv, ApiInv, IndInv, SendKnows
      <4> QED BY <4>1, <4>2
    <3>3. input[m].id \in MessageIds
      BY <3>2 DEF AnswerInv, ApiInv, SendLinks, Input
    <3> QED BY <3>1, <3>3, StoredStays DEF AnswerInv
  <2> QED BY <1>3, <1>4, <2>1 DEF AnswerTells
<1>5. AnswerOfStrict(m)' <=> AnswerOfStrict(m)
  BY DEF AnswerOfStrict
<1> QED BY <1>1, <1>2, <1>4, <1>5 DEF AnswerInv, AnswerLinks

\* A step of one send does not concern the others.
LEMMA SendAlone ==
  ASSUME AnswerInv, NEW m \in Messages,
         RefuseSend(m) \/ ReceiveSend(m) \/ SendStep(m),
         NEW n \in Messages \ {m}
  PROVE  UNCHANGED <<send[n], took[n], request[n], input[n], response[n], answer[n]>>
<1> USE DEF AnswerInv, ApiInv, Shape, IndInv, TypeOK
<1>1. CASE RefuseSend(m) \/ ReceiveSend(m)
  BY <1>1 DEF RefuseSend, ReceiveSend, Dispatch, Core!RejectRequest, selectionVars,
              vars, coreVars
<1>2. CASE Probe(m) \/ TryNext(m) \/ FindNone(m) \/ CallProvider(m)
  BY <1>2 DEF Probe, ProbeAnswered, ProbeFails, TryNext, FindNone, CallProvider,
              Resolve, Core!RejectRequest, Core!DispatchRequest, coreVars, sendVars
<1>3. CASE AdapterRefuses(m) \/ AttemptFails(m)
  BY <1>3 DEF AdapterRefuses, AttemptFails, SendFails, Core!ProviderRefuses
<1>4. CASE ResponseArrives(m)
  <2>1. /\ SendSucceeds(m) \/ SendFails(m)
        /\ Core!ProviderAnswers(m)
        /\ UNCHANGED input
        /\ \E r : response' = [response EXCEPT ![m] = r]
        /\ answer' = answer \/ \E a : answer' = [answer EXCEPT ![m] = a]
    BY <1>4 DEF ResponseArrives
  <2> QED BY <2>1 DEF SendSucceeds, SendFails, Core!ProviderAnswers
<1>5. ASSUME NEW pid \in ProviderIds, MessageTaken(m, pid)
      PROVE  UNCHANGED <<send[n], took[n], request[n], input[n], response[n], answer[n]>>
  BY <1>5 DEF MessageTaken, ProviderTakes, Core!ProviderAccepts, sendVars
<1>6. CASE FailureRecorded(m) \/ MappingSaved(m)
  <2>1. \E pc : request' = [request EXCEPT ![m].pc = pc]
    BY <1>6 DEF FailureRecorded, MappingSaved, Core!RecordFailure, Core!SaveMapping
  <2>2. \E a : answer' = [answer EXCEPT ![m] = a]
    BY <1>6 DEF FailureRecorded, MappingSaved
  <2>3. UNCHANGED <<send, took, input, response>>
    BY <1>6 DEF FailureRecorded, MappingSaved, selectionVars, vars
  <2> QED BY <2>1, <2>2, <2>3
<1> QED BY <1>1, <1>2, <1>3, <1>4, <1>5, <1>6 DEF SendStep

LEMMA SameConfig ==
  ASSUME [Next]_vars
  PROVE  config' = config
BY DEF Next, vars, Dispatch, ProbeAnswered, ProbeFails, Resolve, ProviderTakes,
       SendFails, SendSucceeds, Ask, Report, QueryAnswered, ChangeHealth

\* So only the send itself is left to look at.
LEMMA OneAnswerKeeps ==
  ASSUME AnswerInv, NEW m \in Messages,
         RefuseSend(m) \/ ReceiveSend(m) \/ SendStep(m),
         AnswerLinks(m)', DOMAIN answer' = Messages
  PROVE  AnswerInv'
<1>1. ApiNext
  BY DEF ApiNext
<1>2. ApiInv'
  BY <1>1, NextApiInv DEF AnswerInv
<1>3. config' = config
  BY SendStepSelects, SameConfig
<1>4. \A n \in Messages \ {m} : AnswerLinks(n)'
  BY <1>1, <1>3, SendAlone, AnswerUntouched
<1> QED BY <1>2, <1>4 DEF AnswerInv

-----------------------------------------------------------------------------
(* The steps of a send *)

LEMMA RefuseSendAnswers ==
  ASSUME AnswerInv, NEW m \in Messages, RefuseSend(m)
  PROVE  AnswerInv'
<1> USE DEF AnswerInv, ApiInv, Shape
<1>1. PICK refused \in Here(Refused) :
        answer' = [answer EXCEPT ![m] = refused.answer]
  BY DEF RefuseSend
<1>2. answer'[m] = refused.answer /\ DOMAIN answer' = Messages
  BY <1>1
<1>3. request'[m].pc = "rejected"
  BY DEF RefuseSend, Core!RejectRequest, Core!Request
<1>4. /\ send'[m].pc = "none" /\ took'[m] = <<>>
      /\ UNCHANGED <<config, send, took, input, response>>
  BY DEF RefuseSend, selectionVars, vars, IndInv, SendKnows
<1>5. /\ answer'[m].status \notin {200, 502, 504}
      /\ answer'[m].message \notin {"DELIVERY_STATE_PERSISTENCE_FAILED", "NOT_CONFIGURED"}
      /\ answer'[m].message = "INTERNAL_API_KEY_NOT_CONFIGURED" => ~KeyConfigured
  <2>1. CASE refused.answer \in RefusalAnswers
    BY <1>2, <2>1, RefusalTells
  <2>2. CASE /\ ~KeyConfigured
             /\ refused.answer = Answered(503, "INTERNAL_API_KEY_NOT_CONFIGURED")
    BY <1>2, <2>2, AnswerFields
  <2> HIDE DEF AnswerInv, ApiInv, Shape
  <2> QED BY <2>1, <2>2, RefusedAnswer
<1>6. AnswerTells(m)'
  BY <1>4, <1>5 DEF AnswerTells
<1>7. config.strict => KeyConfigured
  BY DEF IndInv, TypeOK, Configurations, Accepted, Required, KeyConfigured
<1>8. AnswerOfStrict(m)'
  BY <1>4, <1>5, <1>7 DEF AnswerOfStrict
<1>9. AnswerLinks(m)'
  BY <1>3, <1>4, <1>6, <1>8 DEF AnswerLinks
<1> HIDE DEF AnswerInv, ApiInv, Shape
<1> QED BY <1>2, <1>9, OneAnswerKeeps

\* A send that goes on has not been answered.
LEMMA GoesOn ==
  ASSUME AnswerInv, NEW m \in Messages, ReceiveSend(m) \/ SendStep(m)
  PROVE  answer[m] = None
<1> USE DEF AnswerInv, AnswerLinks
<1>1. CASE ReceiveSend(m)
  BY <1>1 DEF ReceiveSend
<1>2. CASE Probe(m) \/ TryNext(m) \/ FindNone(m) \/ CallProvider(m)
  BY <1>2 DEF Probe, ProbeAnswered, ProbeFails, TryNext, FindNone, CallProvider, Resolve
<1>3. CASE AdapterRefuses(m) \/ AttemptFails(m) \/ ResponseArrives(m)
  BY <1>3 DEF AdapterRefuses, AttemptFails, ResponseArrives
<1>4. ASSUME NEW pid \in ProviderIds, MessageTaken(m, pid)
      PROVE  answer[m] = None
  BY <1>4 DEF MessageTaken
<1>5. CASE FailureRecorded(m) \/ MappingSaved(m)
  BY <1>5 DEF FailureRecorded, MappingSaved, Core!RecordFailure, Core!SaveMapping
<1> QED BY <1>1, <1>2, <1>3, <1>4, <1>5 DEF SendStep

\* Steps that neither answer nor end an attempt.
LEMMA QuietStepAnswers ==
  ASSUME AnswerInv, NEW m \in Messages, UNCHANGED answer,
         ReceiveSend(m) \/ SendStep(m),
         request'[m].pc \notin {"saving", "recording"},
         request'[m].pc = "dispatching" => send'[m].pc = "sending"
  PROVE  AnswerInv'
<1>1. answer[m] = None
  BY GoesOn
<1>2. AnswerLinks(m)'
  BY <1>1 DEF AnswerLinks
<1> QED BY <1>2, OneAnswerKeeps DEF AnswerInv

LEMMA ChoiceAnswers ==
  ASSUME AnswerInv, NEW m \in Messages,
         ReceiveSend(m) \/ Probe(m) \/ TryNext(m) \/ CallProvider(m)
  PROVE  AnswerInv'
<1> USE DEF AnswerInv, AnswerLinks
<1>1. CASE ReceiveSend(m) \/ Probe(m) \/ TryNext(m)
  <2>1. request' = request /\ answer' = answer
    BY <1>1 DEF ReceiveSend, Probe, TryNext, coreVars, sendVars
  <2>2. send[m].pc \in {"none", "probing", "probed"}
    BY <1>1 DEF ReceiveSend, Dispatch, Probe, ProbeAnswered, ProbeFails, TryNext, Resolve
  <2>3. request[m].pc \notin {"dispatching", "saving", "recording"}
    BY <2>2
  <2> HIDE DEF AnswerInv, AnswerLinks
  <2> QED BY <1>1, <2>1, <2>3, QuietStepAnswers DEF SendStep
<1>2. CASE CallProvider(m)
  <2>1. answer' = answer /\ send'[m].pc = "sending"
    BY <1>2 DEF CallProvider, sendVars
  <2>2. request'[m].pc = "dispatching"
    BY <1>2 DEF CallProvider, Core!DispatchRequest, ApiInv, Shape
  <2> HIDE DEF AnswerInv, AnswerLinks
  <2> QED BY <1>2, <2>1, <2>2, QuietStepAnswers DEF SendStep
<1> QED BY <1>1, <1>2

\* Nobody has the message of a send that finds no provider.
LEMMA FindNoneAnswers ==
  ASSUME AnswerInv, NEW m \in Messages, FindNone(m)
  PROVE  AnswerInv'
<1>1. Describe(DomainError("NoProviderAvailableError"))
        = Answered(503, "NO_PROVIDER_AVAILABLE")
  BY DEF Describe, DomainError, DomainAnswer
<1>2. /\ DOMAIN answer' = Messages
      /\ answer'[m].status = 503 /\ answer'[m].message = "NO_PROVIDER_AVAILABLE"
  BY <1>1, AnswerFields DEF FindNone, AnswerInv
<1>3. /\ took' = took /\ took[m] = <<>>
      /\ send'[m].pc = "unavailable"
  BY DEF FindNone, Resolve, AnswerInv, ApiInv, IndInv, SendKnows
<1>4. request'[m].pc = "rejected"
  BY DEF FindNone, Core!RejectRequest, AnswerInv, ApiInv, Shape, Core!Request
<1>5. AnswerTells(m)'
  BY <1>2, <1>3 DEF AnswerTells
<1>6. AnswerOfStrict(m)'
  BY <1>2 DEF AnswerOfStrict
<1>7. AnswerLinks(m)'
  BY <1>3, <1>4, <1>5, <1>6 DEF AnswerLinks
<1> QED BY <1>2, <1>7, OneAnswerKeeps DEF SendStep

\* A candidate is registered.
LEMMA CandidateRegistered ==
  ASSUME ApiInv, NEW m \in Messages, InProgress(m)
  PROVE  Candidate(m) \in Providers /\ Candidate(m) \in RegisteredProviders
<1>1. /\ send[m].channel \in Channels
      /\ send[m].at \in 1..Len(Candidates(send[m].channel))
  <2>1. /\ send[m].channel \in Channels /\ send[m].at \in 1..3
        /\ send[m].at <= Len(Candidates(send[m].channel))
    BY DEF ApiInv, IndInv, TypeOK, Send
  <2>2. Len(Candidates(send[m].channel)) \in 0..2
    BY <2>1, CandidateOrder
  <2> QED BY <2>1, <2>2
<1> QED BY <1>1, CandidateOrder DEF Candidate, RegisteredProviders, ToSet

\* An attempt that ends before the message is taken.
LEMMA AttemptFailsAnswers ==
  ASSUME AnswerInv, NEW m \in Messages, AdapterRefuses(m) \/ AttemptFails(m)
  PROVE  AnswerInv'
<1>1. /\ SendFails(m) /\ Core!ProviderRefuses(m)
      /\ send[m].pc = "sending"
      /\ UNCHANGED <<config, took, input, answer>>
  BY DEF AdapterRefuses, AttemptFails, SendFails
<1>2. took[m] = <<>>
  BY <1>1 DEF AnswerInv, ApiInv, IndInv, SendKnows
<1>3. Provider(m) \in Providers /\ Provider(m) \in RegisteredProviders
  BY <1>1, CandidateRegistered DEF Provider, InProgress, AnswerInv
<1>4. RegisteredProviders' = RegisteredProviders
  BY <1>1, SameCandidates
<1>5. FailureShown(m)'
  <2>1. CASE AdapterRefuses(m)
    <3>1. /\ NotConfigured(config, Provider(m), input[m].text)
          /\ response'[m] = Failure(Provider(m), "NOT_CONFIGURED", FALSE)
      BY <2>1 DEF AdapterRefuses, AnswerInv, ApiInv, Shape
    <3>2. /\ ~response'[m].success /\ ~response'[m].timeout
          /\ response'[m].by = Provider(m) /\ response'[m].error = "NOT_CONFIGURED"
      BY <3>1 DEF Failure
    <3> QED BY <1>1, <1>2, <1>3, <1>4, <3>1, <3>2 DEF FailureShown, NotOfAdapters
  <2>2. CASE AttemptFails(m)
    <3>1. response'[m] \in BeforeTaking(config, Provider(m))
      BY <2>2 DEF AttemptFails, AnswerInv, ApiInv, Shape
    <3>2. LET r == response'[m] IN
          /\ ~r.success /\ r.by = Provider(m)
          /\ r.error \notin NotOfAdapters \cup {"NOT_CONFIGURED"}
          /\ r.timeout => TimeoutKnown(r)
      BY <1>3, <3>1, RefusalShown
    <3> QED BY <1>1, <1>2, <1>3, <1>4, <3>2 DEF FailureShown, NotOfAdapters, TimeoutKnown
  <2> QED BY <2>1, <2>2
<1>6. request'[m].pc = "recording" /\ send'[m].pc = "failed"
  BY <1>1 DEF SendFails, GivenUp, Core!ProviderRefuses, AnswerInv, ApiInv, IndInv, TypeOK,
              Send, Shape, Core!Request
<1>7. answer[m] = None
  BY GoesOn DEF SendStep
<1>8. AnswerLinks(m)'
  BY <1>1, <1>5, <1>6, <1>7 DEF AnswerLinks
<1> QED BY <1>1, <1>8, OneAnswerKeeps DEF SendStep, AnswerInv

LEMMA MessageTakenAnswers ==
  ASSUME AnswerInv, NEW m \in Messages, NEW pid \in ProviderIds, MessageTaken(m, pid)
  PROVE  AnswerInv'
<1>1. answer' = answer
  BY DEF MessageTaken, sendVars
<1>2. request'[m].pc = "accepted"
  BY DEF MessageTaken, Core!ProviderAccepts, AnswerInv, ApiInv, Shape, Core!Request
<1> QED BY <1>1, <1>2, QuietStepAnswers DEF SendStep

\* What an answer of success, and one of a store that could not save, tells.
LEMMA SentTells ==
  ASSUME NEW m \in Messages, answer'[m] = Answered(200, "SENT"),
         took'[m] = <<response'[m].by>>,
         response'[m].id => Stored(input[m].id)'
  PROVE  AnswerTells(m)' /\ AnswerOfStrict(m)'
<1>1. answer'[m].status = 200 /\ answer'[m].message = "SENT"
  BY AnswerFields
<1> DEFINE status == answer'[m].status
           message == answer'[m].message
<1> HIDE DEF status, message
<1>2. status = 200 => status # 500 /\ status # 504 /\ status \notin {502, 504}
  OBVIOUS
<1>3. message = "SENT" => /\ message # "DELIVERY_STATE_PERSISTENCE_FAILED"
                          /\ message # "NOT_CONFIGURED" /\ message \notin NothingSent
                          /\ message # "INTERNAL_API_KEY_NOT_CONFIGURED"
  BY DEF NothingSent
<1>4. /\ answer'[m].status # 500 /\ answer'[m].status \notin {502, 504}
      /\ answer'[m].status # 504
  BY <1>1, <1>2 DEF status
<1>5. /\ answer'[m].message \notin NothingSent
      /\ answer'[m].message # "DELIVERY_STATE_PERSISTENCE_FAILED"
      /\ answer'[m].message # "NOT_CONFIGURED"
      /\ answer'[m].message # "INTERNAL_API_KEY_NOT_CONFIGURED"
  BY <1>1, <1>3 DEF message
<1>6. AnswerTells(m)'
  BY <1>4, <1>5, Zenon DEF AnswerTells
<1>7. AnswerOfStrict(m)'
  BY <1>5, Zenon DEF AnswerOfStrict
<1> QED BY <1>6, <1>7

\* The response: the message was taken, and the attempt ends in one of three ways.
LEMMA ResponseArrivesAnswers ==
  ASSUME AnswerInv, NEW m \in Messages, ResponseArrives(m)
  PROVE  AnswerInv'
<1>1. PICK r \in AfterTaking(Provider(m)) :
        /\ IF r.success THEN SendSucceeds(m) ELSE SendFails(m)
        /\ request'[m].pc = AfterResponse(r)
        /\ response' = [response EXCEPT ![m] = r]
        /\ answer' = IF AfterResponse(r) = "sent"
                     THEN [answer EXCEPT ![m] = Answered(200, "SENT")] ELSE answer
  BY DEF ResponseArrives
<1>2. /\ send[m].pc = "taken" /\ UNCHANGED <<config, took, input>>
      /\ send'[m].channel = send[m].channel /\ send'[m].at = send[m].at
      /\ send'[m].pc = IF r.success THEN "sent" ELSE "failed"
  BY <1>1 DEF ResponseArrives, SendSucceeds, SendFails, GivenUp, AnswerInv, ApiInv, IndInv,
              TypeOK, Send
<1>3. Candidate(m)' = Candidate(m) /\ RegisteredProviders' = RegisteredProviders
  BY <1>2, SameCandidates DEF Candidate
<1>4. Provider(m) \in Providers /\ Provider(m) \in RegisteredProviders
  BY <1>2, CandidateRegistered DEF Provider, InProgress, AnswerInv
<1>5. took'[m] = <<Candidate(m)>>
  BY <1>2 DEF AnswerInv, ApiInv, IndInv, SendKnows
<1>6. response'[m] = r /\ DOMAIN answer' = Messages
  BY <1>1 DEF AnswerInv, ApiInv, Shape
<1>7. /\ r.by = Candidate(m)
      /\ ~r.success => /\ r.error \notin NotOfAdapters \cup NothingSent
                       /\ r.timeout => TimeoutKnown(r)
  BY <1>4, AnswerShown DEF Provider
<1>8. answer[m] = None
  BY GoesOn DEF SendStep
<1>9. CASE ~r.success
  <2>1. request'[m].pc = "recording" /\ answer' = answer
    BY <1>1, <1>9 DEF AfterResponse
  <2>2. FailureShown(m)'
    <3>1. r.error # "NOT_CONFIGURED"
      BY <1>7, <1>9 DEF NothingSent
    <3> QED BY <1>2, <1>3, <1>4, <1>6, <1>7, <1>9, <3>1 DEF FailureShown, TimeoutKnown, Provider
  <2>3. AnswerLinks(m)'
    BY <1>2, <1>8, <1>9, <2>1, <2>2 DEF AnswerLinks
  <2> QED BY <1>6, <2>3, OneAnswerKeeps DEF SendStep
<1>10. CASE r.success /\ r.id
  <2>1. request'[m].pc = "saving" /\ answer' = answer
    BY <1>1, <1>10 DEF AfterResponse
  <2>2. AnswerLinks(m)'
    BY <1>2, <1>3, <1>6, <1>7, <1>8, <1>10, <2>1 DEF AnswerLinks
  <2> QED BY <1>6, <2>2, OneAnswerKeeps DEF SendStep
<1>11. CASE r.success /\ ~r.id
  <2>1. /\ request'[m].pc = "sent"
        /\ answer' = [answer EXCEPT ![m] = Answered(200, "SENT")]
    BY <1>1, <1>11 DEF AfterResponse
  <2>2. answer'[m] = Answered(200, "SENT")
    BY <2>1 DEF AnswerInv
  <2>3. AnswerTells(m)' /\ AnswerOfStrict(m)'
    BY <1>5, <1>6, <1>7, <1>11, <2>2, SentTells
  <2>4. AnswerLinks(m)'
    BY <1>2, <1>11, <2>1, <2>3 DEF AnswerLinks
  <2> QED BY <1>6, <2>4, OneAnswerKeeps DEF SendStep
<1> QED BY <1>9, <1>10, <1>11

LEMMA FailureRecordedAnswers ==
  ASSUME AnswerInv, NEW m \in Messages, FailureRecorded(m)
  PROVE  AnswerInv'
<1> DEFINE r == response[m]
           status == IF r.timeout THEN 504 ELSE 502
<1>1. /\ request[m].pc = "recording"
      /\ UNCHANGED <<config, send, took, input, response>>
  BY DEF FailureRecorded, Core!RecordFailure, selectionVars, vars
<1>2. send[m].pc = "failed" /\ FailureShown(m)
  BY <1>1 DEF AnswerInv, AnswerLinks
<1>3. answer'[m] = Answered(status, r.error) /\ DOMAIN answer' = Messages
  <2>1. Describe(DeliveryException(r)) = Answered(status, r.error)
    BY DEF Describe, DeliveryException, HttpException
  <2> QED BY <2>1 DEF FailureRecorded, AnswerInv
<1>4. answer'[m].status = status /\ answer'[m].message = r.error
  <2>1. /\ Answered(status, r.error).status = status
        /\ Answered(status, r.error).message = r.error
    BY AnswerFields
  <2> HIDE DEF r, status
  <2> QED BY <1>3, <2>1, Zenon
<1>5. request'[m].pc = "badGateway"
  BY DEF FailureRecorded, Core!RecordFailure, AnswerInv, ApiInv, Shape, Core!Request
<1>6. AnswerTells(m)'
  <2>1. answer'[m].status \notin {200, 500}
    BY <1>4
  <2>2. r.error \in NothingSent => took[m] = <<>>
    BY <1>2 DEF FailureShown
  <2>3. r.error # "DELIVERY_STATE_PERSISTENCE_FAILED" /\ ~r.success
    BY <1>2 DEF FailureShown, NotOfAdapters
  <2>4. answer'[m].status = 504 => KnownTimeout(m)'
    <3>1. answer'[m].status = 504 => r.timeout
      BY <1>4
    <3>2. r.timeout => TimeoutKnown(r)
      BY <1>2 DEF FailureShown
    <3>3. TimeoutKnown(r) => KnownTimeout(m)'
      BY <1>1, <1>4 DEF TimeoutKnown, KnownTimeout
    <3> QED BY <3>1, <3>2, <3>3
  <2> QED BY <1>1, <1>4, <2>1, <2>2, <2>3, <2>4 DEF AnswerTells
<1>7. AnswerOfStrict(m)'
  <2>1. r.error # "INTERNAL_API_KEY_NOT_CONFIGURED"
    BY <1>2 DEF FailureShown, NotOfAdapters
  <2>2. ASSUME config.strict, r.error = "NOT_CONFIGURED"
        PROVE  \/ input[m].text = "blank"
               \/ r.by = "STALWART" /\ "STALWART_FROM_ADDRESS" \in config.missing
    <3>1. r.by \in RegisteredProviders /\ NotConfigured(config, r.by, input[m].text)
      BY <1>2, <2>2 DEF FailureShown
    <3>2. config \in Configurations
      BY DEF AnswerInv, ApiInv, IndInv, TypeOK
    <3> QED BY <2>2, <3>1, <3>2, StrictProviders
  <2> QED BY <1>1, <1>4, <2>1, <2>2 DEF AnswerOfStrict
<1>8. AnswerLinks(m)'
  BY <1>1, <1>2, <1>5, <1>6, <1>7 DEF AnswerLinks
<1> QED BY <1>3, <1>8, OneAnswerKeeps DEF SendStep

\* An answer of success means that the row was committed.
LEMMA MappingSavedAnswers ==
  ASSUME AnswerInv, NEW m \in Messages, MappingSaved(m)
  PROVE  AnswerInv'
<1>1. /\ request[m].pc = "saving"
      /\ UNCHANGED <<config, send, took, input, response>>
  BY DEF MappingSaved, Core!SaveMapping, selectionVars, vars
<1>2. /\ send[m].pc = "sent" /\ response[m].by = Candidate(m)
      /\ took[m] = <<Candidate(m)>>
  BY <1>1 DEF AnswerInv, AnswerLinks, ApiInv, IndInv, SendKnows
<1>3. PICK ok \in BOOLEAN :
        /\ request' = [request EXCEPT ![m].pc = IF ok THEN "sent" ELSE "unavailable"]
        /\ ok => mapping' = [mapping EXCEPT ![request[m].id] =
                               [pid |-> request[m].pid, status |-> "SENT"]]
  BY DEF MappingSaved, Core!SaveMapping, Core!SaveAnswer, Core!Reported
<1>4. request'[m].pc = IF ok THEN "sent" ELSE "unavailable"
  BY <1>3 DEF AnswerInv, ApiInv, Shape, Core!Request
<1>5. DOMAIN answer' = Messages
  BY DEF MappingSaved, AnswerInv
<1>6. CASE ok
  <2>1. answer'[m] = Answered(200, "SENT")
    BY <1>4, <1>6 DEF MappingSaved, AnswerInv
  <2>2. Stored(input[m].id)'
    <3>1. request[m].id = input[m].id /\ input[m].id \in MessageIds
          /\ request[m].pid \in ProviderIds
      BY <1>1 DEF AnswerInv, ApiInv, SendLinks, Input
    <3>2. [pid |-> request[m].pid, status |-> "SENT"] \in Core!Mapping
      BY <3>1 DEF Core!Mapping, Core!DeliveryStatus
    <3>3. mapping'[input[m].id] = [pid |-> request[m].pid, status |-> "SENT"]
      BY <1>3, <1>6, <3>1 DEF AnswerInv, ApiInv, Shape
    <3>4. mapping'[input[m].id] # None
      BY <3>2, <3>3, StoreAssumption, Zenon
    <3> QED BY <1>1, <3>4 DEF Stored
  <2>3. AnswerTells(m)' /\ AnswerOfStrict(m)'
    BY <1>1, <1>2, <2>1, <2>2, SentTells
  <2>4. AnswerLinks(m)'
    BY <1>1, <1>2, <1>4, <1>6, <2>3 DEF AnswerLinks
  <2> QED BY <1>5, <2>4, OneAnswerKeeps DEF SendStep
<1>7. CASE ~ok
  <2>1. answer'[m] = Answered(503, "DELIVERY_STATE_PERSISTENCE_FAILED")
    BY <1>4, <1>7 DEF MappingSaved, AnswerInv, Describe, HttpException
  <2>2. /\ answer'[m].status = 503
        /\ answer'[m].message = "DELIVERY_STATE_PERSISTENCE_FAILED"
    BY <2>1, AnswerFields
  <2>3. AnswerTells(m)' /\ AnswerOfStrict(m)'
    BY <1>1, <1>2, <2>2 DEF AnswerTells, AnswerOfStrict, NothingSent
  <2>4. AnswerLinks(m)'
    BY <1>1, <1>2, <1>4, <1>7, <2>3 DEF AnswerLinks
  <2> QED BY <1>5, <2>4, OneAnswerKeeps DEF SendStep
<1> QED BY <1>6, <1>7

LEMMA NextAnswerInv == AnswerInv /\ [ApiNext]_apiVars => AnswerInv'
<1> SUFFICES ASSUME AnswerInv, [ApiNext]_apiVars
             PROVE  AnswerInv'
  OBVIOUS
<1>1. ASSUME NEW m \in Messages, RefuseSend(m) \/ ReceiveSend(m) \/ SendStep(m)
      PROVE  AnswerInv'
  BY <1>1, RefuseSendAnswers, ChoiceAnswers, FindNoneAnswers, AttemptFailsAnswers,
     MessageTakenAnswers, ResponseArrivesAnswers, FailureRecordedAnswers,
     MappingSavedAnswers
     DEF SendStep
<1>2. ASSUME \/ \E d \in Deliveries :
                  \/ RefuseWebhook(d) \/ IgnoreWebhook(d) \/ WebhookStep(d)
                  \/ \E pid \in ProviderIds \cup ForeignIds : AcceptWebhook(d, pid)
             \/ (\E q \in Queries : QueryStep(q)) \/ HealthStep
             \/ UNCHANGED apiVars
      PROVE  AnswerInv'
  <2>1. UNCHANGED <<config, send, took, request, input, response, answer>>
    BY <1>2 DEF RefuseWebhook, IgnoreWebhook, WebhookStep, AcceptWebhook,
         Core!RefuseWebhook, Core!LookupMapping, Core!UpdateStatus, Core!PublishEvent,
         Core!AcceptWebhook, QueryStep, HealthStep, Ask, Report, QueryAnswered,
         ChangeHealth, apiVars, selectionVars, vars, coreVars, sendVars
  <2>2. \A m \in Messages : AnswerLinks(m)'
    BY <2>1, AnswerUntouched
  <2> QED BY <2>1, <2>2, NextApiInv DEF AnswerInv
<1> QED BY <1>1, <1>2 DEF ApiNext

-----------------------------------------------------------------------------
(* The theorems *)

LEMMA AlwaysAnswerInv == ApiSpec => []AnswerInv
BY InitAnswerInv, NextAnswerInv, PTL DEF ApiSpec

\* For any numbers of sends, webhooks and faults: a client can tell from the answer
\* what became of its message.
THEOREM AnswersTellTheirEffect == ApiSpec => []AnswerTellsEffect
<1>1. AnswerInv => AnswerTellsEffect
  BY DEF AnswerInv, AnswerLinks, AnswerTells, AnswerTellsEffect
<1> QED BY <1>1, AlwaysAnswerInv, PTL

\* For every environment that readEnv accepts as a production one: every provider in
\* use can be reached, the guard has its key, and an adapter calls itself not
\* configured for a blank text or for the sender address of Stalwart only.
THEOREM StrictConfigSends == ApiSpec => []ValidatedConfigSends
<1>1. AnswerInv => ValidatedConfigSends
  <2> SUFFICES ASSUME AnswerInv, config.strict
               PROVE  /\ \A p \in RegisteredProviders : Reachable(config, p)
                      /\ \A m \in Messages : answer[m] # None => AnswerOfStrict(m)
    BY DEF ValidatedConfigSends, AnswerOfStrict
  <2>1. config \in Configurations
    BY DEF AnswerInv, ApiInv, IndInv, TypeOK
  <2> QED BY <2>1, StrictProviders DEF AnswerInv, AnswerLinks
<1> QED BY <1>1, AlwaysAnswerInv, PTL

-----------------------------------------------------------------------------
(* What is proved of the store holds behind the interface *)

Store ==
  INSTANCE MessageGatewayProofs WITH Requests <- Messages, SerialWebhooks <- FALSE

\* The assumptions of MessageGateway are those of the interface.
LEMMA StoreAssumptions ==
  /\ ProviderIds \cap ForeignIds = {} /\ FALSE \in BOOLEAN /\ MaxFaults \in Nat
  /\ None \notin MessageIds \cup ProviderIds \cup ForeignIds \cup Store!DeliveryStatus
  /\ None \notin Store!Mapping
BY ApiAssumption, StoreAssumption DEF Core!DeliveryStatus, Store!DeliveryStatus,
   Core!Mapping, Store!Mapping

\* Core and Store are instances of one specification: theirs are the same sets, ...
LEMMA SameTypes ==
  /\ Core!DeliveryStatus = Store!DeliveryStatus /\ Core!FactStatuses = Store!FactStatuses
  /\ Core!ReceiptStatuses = Store!ReceiptStatuses
  /\ Core!RequestInFlight = Store!RequestInFlight
  /\ Core!RequestAnswered = Store!RequestAnswered
  /\ Core!DeliveryInFlight = Store!DeliveryInFlight
  /\ Core!DeliveryAnswered = Store!DeliveryAnswered
  /\ Core!Request = Store!Request /\ Core!Mapping = Store!Mapping
  /\ Core!Delivery = Store!Delivery
BY DEF Core!DeliveryStatus, Store!DeliveryStatus, Core!FactStatuses, Store!FactStatuses,
   Core!RequestInFlight, Store!RequestInFlight, Core!RequestAnswered, Store!RequestAnswered,
   Core!DeliveryInFlight, Store!DeliveryInFlight, Core!DeliveryAnswered, Store!DeliveryAnswered,
   Core!Request, Store!Request, Core!Mapping, Store!Mapping, Core!Delivery, Store!Delivery,
   Core!ReceiptStatuses, Store!ReceiptStatuses

LEMMA SameSend == ASSUME NEW m \in Messages PROVE Core!SendStep(m) <=> Store!SendStep(m)
<1>1. Core!RejectRequest(m) <=> Store!RejectRequest(m)
  BY DEF Core!RejectRequest, Store!RejectRequest
<1>2. \A id, v4 : Core!DispatchRequest(m, id, v4) <=> Store!DispatchRequest(m, id, v4)
  BY DEF Core!DispatchRequest, Store!DispatchRequest
<1>3. \A pid : Core!ProviderAccepts(m, pid) <=> Store!ProviderAccepts(m, pid)
  BY DEF Core!ProviderAccepts, Store!ProviderAccepts
<1>4. /\ Core!ProviderRefuses(m) <=> Store!ProviderRefuses(m)
      /\ Core!ProviderAnswers(m) <=> Store!ProviderAnswers(m)
  BY DEF Core!ProviderRefuses, Store!ProviderRefuses, Core!ProviderAnswers,
         Store!ProviderAnswers
<1>5. Core!RecordFailure(m) <=> Store!RecordFailure(m)
  BY SameTypes DEF Core!RecordFailure, Store!RecordFailure, Core!Enqueue, Store!Enqueue
<1>6. Core!SaveMapping(m) <=> Store!SaveMapping(m)
  BY SameTypes DEF Core!SaveMapping, Store!SaveMapping, Core!Enqueue, Store!Enqueue,
     Core!Saveable, Store!Saveable, Core!RowsOf, Store!RowsOf, Core!SaveAnswer,
     Store!SaveAnswer, Core!Reported, Store!Reported
<1>7. Core!CrashRequest(m) <=> Store!CrashRequest(m)
  BY SameTypes DEF Core!CrashRequest, Store!CrashRequest
<1> QED BY <1>1, <1>2, <1>3, <1>4, <1>5, <1>6, <1>7 DEF Core!SendStep, Store!SendStep

LEMMA SameWebhook ==
  ASSUME NEW d \in Deliveries PROVE Core!WebhookStep(d) <=> Store!WebhookStep(d)
<1>1. Core!RefuseWebhook(d) <=> Store!RefuseWebhook(d)
  BY DEF Core!RefuseWebhook, Store!RefuseWebhook
<1>2. \A kind, pid, status :
        Core!AcceptWebhook(d, kind, pid, status) <=> Store!AcceptWebhook(d, kind, pid, status)
  BY SameTypes DEF Core!AcceptWebhook, Store!AcceptWebhook
<1>3. Core!ReceiveWebhook(d) <=> Store!ReceiveWebhook(d)
  BY <1>2, SameTypes DEF Core!ReceiveWebhook, Store!ReceiveWebhook
<1>4. \A pid : Core!RowsOf(pid) = Store!RowsOf(pid)
  BY DEF Core!RowsOf, Store!RowsOf
<1>5. Core!LookupMapping(d) <=> Store!LookupMapping(d)
  <2>1. Core!ValidTransitions = Store!ValidTransitions
    BY DEF Core!ValidTransitions, Store!ValidTransitions
  <2>2. \A seen : Core!AfterLookup(d, seen) = Store!AfterLookup(d, seen)
    BY <2>1 DEF Core!AfterLookup, Store!AfterLookup, Core!IsValidTransition,
       Store!IsValidTransition
  <2> QED BY <1>4, <2>2 DEF Core!LookupMapping, Store!LookupMapping
<1>6. Core!UpdateStatus(d) <=> Store!UpdateStatus(d)
  BY <1>4, SameTypes DEF Core!UpdateStatus, Store!UpdateStatus, Core!Enqueue,
     Store!Enqueue, Core!Reported, Store!Reported
<1>7. Core!PublishEvent(d) <=> Store!PublishEvent(d)
  BY DEF Core!PublishEvent, Store!PublishEvent
<1>8. Core!CrashWebhook(d) <=> Store!CrashWebhook(d)
  BY SameTypes DEF Core!CrashWebhook, Store!CrashWebhook
<1> QED BY <1>1, <1>3, <1>5, <1>6, <1>7, <1>8 DEF Core!WebhookStep, Store!WebhookStep

LEMMA SameStore ==
  /\ Core!Init => Store!Init
  /\ [Core!Next]_(Core!vars) => [Store!Next]_(Store!vars)
<1>1. Core!Init => Store!Init
  BY DEF Core!Init, Store!Init
<1>2. Core!AllAnswered => Store!AllAnswered
  BY SameTypes DEF Core!AllAnswered, Store!AllAnswered, Core!vars, Store!vars
<1>3. Core!Next => Store!Next
  BY <1>2, SameSend, SameWebhook DEF Core!Next, Store!Next
<1> QED BY <1>1, <1>3 DEF Core!vars, Store!vars

LEMMA ApiStore == ApiSpec => Store!Spec
BY SameStore, ApiImplementsStore, PTL DEF Core!Spec, Store!Spec

LEMMA SameProperties ==
  /\ Store!TypeOK => Core!TypeOK
  /\ Store!StoredStatusHasFact => Core!StoredStatusHasFact
  /\ Store!ReadFactNeedsDeliveredFact => Core!ReadFactNeedsDeliveredFact
  /\ Store!EventFollowsStore => Core!EventFollowsStore
  /\ Store!SentMeansStored => Core!SentMeansStored
  /\ Store!FactsHaveCause => Core!FactsHaveCause
  /\ Store!SkippedReceiptReachesBus => Core!SkippedReceiptReachesBus
<1>1. Store!TypeOK => Core!TypeOK
  BY SameTypes DEF Store!TypeOK, Core!TypeOK
<1>2. \A id : Store!Stored(id) <=> Core!Stored(id)
  BY DEF Store!Stored, Core!Stored
<1>3. Store!StoredStatusHasFact => Core!StoredStatusHasFact
  BY <1>2, SameTypes DEF Store!StoredStatusHasFact, Core!StoredStatusHasFact
<1>4. Store!ReadFactNeedsDeliveredFact => Core!ReadFactNeedsDeliveredFact
  BY DEF Store!ReadFactNeedsDeliveredFact, Core!ReadFactNeedsDeliveredFact
<1>5. Store!EventFollowsStore => Core!EventFollowsStore
  BY SameTypes DEF Store!EventFollowsStore, Core!EventFollowsStore
<1>6. Store!SentMeansStored => Core!SentMeansStored
  BY <1>2 DEF Store!SentMeansStored, Core!SentMeansStored
<1>7. Store!FactsHaveCause => Core!FactsHaveCause
  BY SameTypes DEF Store!FactsHaveCause, Core!FactsHaveCause
<1>8. Store!SkippedReceiptReachesBus => Core!SkippedReceiptReachesBus
  BY SameTypes DEF Store!SkippedReceiptReachesBus, Core!SkippedReceiptReachesBus
<1> QED BY <1>1, <1>3, <1>4, <1>5, <1>6, <1>7, <1>8

LEMMA ApiStoreTypes == ApiSpec => []Core!TypeOK
BY StoreAssumptions, Store!TypeCorrectness, ApiStore, SameProperties, PTL

\* The store behind the interface, whatever comes in over HTTP and in any environment:
\* its facts have a cause, are not lost and follow the order of the bus, and its
\* mappings hold what MessageGatewayProofs shows of the store alone.
THEOREM StoreHoldsOverHttp ==
  ApiSpec =>
    /\ [](/\ Core!StoredStatusHasFact /\ Core!ReadFactNeedsDeliveredFact
          /\ Core!EventFollowsStore /\ Core!FactsHaveCause /\ Core!SentMeansStored
          /\ Core!SkippedReceiptReachesBus)
    /\ Core!MappingNeverReplaced
<1>1. ASSUME [\A id \in MessageIds :
                Store!Stored(id) => Store!Stored(id)' /\ mapping'[id].pid = mapping[id].pid]_mapping
      PROVE  [\A id \in MessageIds :
                Core!Stored(id) => Core!Stored(id)' /\ mapping'[id].pid = mapping[id].pid]_mapping
  BY <1>1 DEF Store!Stored, Core!Stored
<1>2. ApiSpec => Core!MappingNeverReplaced
  BY <1>1, StoreAssumptions, Store!MappingTheorem, ApiStore, PTL
     DEF Core!MappingNeverReplaced, Store!MappingNeverReplaced
<1>3. ApiSpec => [](/\ Core!StoredStatusHasFact /\ Core!ReadFactNeedsDeliveredFact
                    /\ Core!EventFollowsStore /\ Core!FactsHaveCause
                    /\ Core!SentMeansStored /\ Core!SkippedReceiptReachesBus)
  BY StoreAssumptions, Store!StoredStatusTheorem, Store!ReadFactTheorem,
     Store!EventTheorem, Store!FactsTheorem, Store!SentTheorem, Store!SkippedTheorem,
     ApiStore, SameProperties, PTL
<1> QED BY <1>2, <1>3, PTL

-----------------------------------------------------------------------------
(* The types *)

\* Statuses of the answers, to sends and to webhooks.
SendStatuses == {200, 400, 401, 404, 422, 500, 502, 503, 504}

AckStatuses == {200, 400, 401, 409, 422, 500}

Secrets == {"EVOLUTION_API_KEY", "EVOLUTION_WEBHOOK_SECRET"}

\* What ApiTypeOK says of the variables of the interface itself.
SendTypes ==
  /\ input \in [Messages -> Input \cup {None}]
  /\ response \in [Messages -> Response \cup {None}]
  /\ holder \in [ProviderIds -> Providers \cup {None}]
  /\ filed \in [MessageIds -> Providers \cup {None}]

AnswerTypes ==
  /\ DOMAIN answer = Messages
  /\ \A m \in Messages : answer[m] # None => answer[m].status \in SendStatuses

WebhookTypes ==
  /\ known \in [Deliveries -> SUBSET Secrets]
  /\ DOMAIN ack = Deliveries
  /\ \A d \in Deliveries : ack[d] # None => ack[d].status \in AckStatuses

LEMMA OutcomesTyped ==
  /\ \A p \in Providers, id \in BOOLEAN : Success(p, id) \in Response
  /\ \A p \in Providers, error \in Errors, timeout \in BOOLEAN :
       Failure(p, error, timeout) \in Response
BY DEF Success, Failure, Response, Errors

LEMMA ResponsesTyped ==
  ASSUME NEW p \in Providers,
         NEW r \in BeforeTaking(config, p) \cup AfterTaking(p)
  PROVE  r \in Response
<1>1. \A o : EvolutionSend(o) \in Response
  <2> SUFFICES ASSUME NEW o PROVE EvolutionSend(o) \in Response
    OBVIOUS
  <2>1. {"Unknown error", "transportText", "providerText"} \subseteq Errors
    BY DEF Errors
  <2>2. EvolutionSend(o) \in
          {Success("EVOLUTION", o.body = "id"), Failure("EVOLUTION", "Unknown error", FALSE),
           Failure("EVOLUTION", "transportText", FALSE),
           Failure("EVOLUTION", "providerText", o.body = "saysTimeout")}
    <3>1. CASE o.status = 200 /\ o.body # "none"
      BY <3>1 DEF EvolutionSend
    <3>2. CASE o.status = 200 /\ o.body = "none"
      BY <3>2 DEF EvolutionSend
    <3>3. CASE o.status = 0
      BY <3>3 DEF EvolutionSend
    <3>4. CASE o.status \notin {0, 200}
      BY <3>4 DEF EvolutionSend
    <3> QED BY <3>1, <3>2, <3>3, <3>4
  <2> QED BY <2>1, <2>2, OutcomesTyped DEF Providers
<1>2. \A o : ResendSend(o) \in Response
  <2> SUFFICES ASSUME NEW o PROVE ResendSend(o) \in Response
    OBVIOUS
  <2>1. ResendError(o) \in Errors /\ "UNAVAILABLE" \in Errors
    BY DEF ResendError, Errors
  <2>2. ResendSend(o) \in
          {Success("RESEND", o.body = "id"), Failure("RESEND", "UNAVAILABLE", o.body = "timedOut"),
           Failure("RESEND", ResendError(o), FALSE)}
    <3>1. CASE o.status = 200 /\ o.body \in {"id", "emptyId"}
      BY <3>1 DEF ResendSend
    <3>2. CASE o.status = 0
      BY <3>2 DEF ResendSend
    <3>3. CASE o.status # 0 /\ ~(o.status = 200 /\ o.body \in {"id", "emptyId"})
      BY <3>3, Zenon DEF ResendSend
    <3> QED BY <3>1, <3>2, <3>3
  <2> QED BY <2>1, <2>2, OutcomesTyped DEF Providers
<1>3. \A o \in SmtpOutcomes : StalwartSend(o) \in Response
  <2>1. {"SMTP_CONNECTION_FAILED", "SMTP_ERROR", "EMAIL_SEND_FAILED"} \subseteq Errors
    BY DEF Errors
  <2> QED BY <2>1, OutcomesTyped DEF StalwartSend, SmtpOutcomes, Providers
<1>4. CASE p = "EVOLUTION"
  BY <1>1, <1>4 DEF BeforeTaking, AfterTaking
<1>5. CASE p = "RESEND"
  BY <1>2, <1>5 DEF BeforeTaking, AfterTaking
<1>6. CASE p = "STALWART"
  BY <1>3, <1>6 DEF BeforeTaking, AfterTaking, SmtpOutcomes
<1> QED BY <1>4, <1>5, <1>6 DEF Providers

LEMMA SendTypesStep ==
  ASSUME AnswerInv, SendTypes, [ApiNext]_apiVars
  PROVE  SendTypes'
<1> USE DEF SendTypes
<1>1. CASE UNCHANGED apiVars
  BY <1>1 DEF apiVars, sendVars, storeVars
<1>2. ASSUME NEW m \in Messages, RefuseSend(m) \/ Probe(m) \/ TryNext(m) \/ FindNone(m)
                                   \/ CallProvider(m) \/ FailureRecorded(m)
      PROVE  SendTypes'
  BY <1>2 DEF RefuseSend, Probe, TryNext, FindNone, CallProvider, FailureRecorded,
     sendVars, storeVars
<1>3. ASSUME NEW m \in Messages, ReceiveSend(m)
      PROVE  SendTypes'
  <2>1. PICK in \in Here(Admitted) :
          input' = [input EXCEPT ![m] = [id |-> in.id, v4 |-> in.v4, text |-> in.text]]
    BY <1>3 DEF ReceiveSend
  <2> QED BY <1>3, <2>1, AdmittedInput DEF ReceiveSend, storeVars
<1>4. ASSUME NEW m \in Messages, AdapterRefuses(m) \/ AttemptFails(m) \/ ResponseArrives(m)
      PROVE  SendTypes'
  <2>1. Provider(m) \in Providers
    BY <1>4, CandidateRegistered
       DEF AdapterRefuses, AttemptFails, ResponseArrives, InProgress, Provider, AnswerInv
  <2>2. Failure(Provider(m), "NOT_CONFIGURED", FALSE) \in Response
    BY <2>1, OutcomesTyped DEF Errors
  <2>3. \E r \in Response : response' = [response EXCEPT ![m] = r]
    <3>1. CASE AdapterRefuses(m)
      BY <2>2, <3>1 DEF AdapterRefuses
    <3>2. CASE AttemptFails(m) \/ ResponseArrives(m)
      BY <2>1, <3>2, ResponsesTyped DEF AttemptFails, ResponseArrives
    <3> QED BY <1>4, <3>1, <3>2
  <2>4. UNCHANGED <<input, holder, filed>>
    BY <1>4 DEF AdapterRefuses, AttemptFails, ResponseArrives, storeVars
  <2> QED BY <2>3, <2>4
<1>5. ASSUME NEW m \in Messages, NEW pid \in ProviderIds, MessageTaken(m, pid)
      PROVE  SendTypes'
  <2>1. Provider(m) \in Providers
    BY <1>5, CandidateRegistered DEF MessageTaken, InProgress, Provider, AnswerInv
  <2> QED BY <1>5, <2>1 DEF MessageTaken, sendVars
<1>6. ASSUME NEW m \in Messages, MappingSaved(m)
      PROVE  SendTypes'
  <2>1. request[m].pc = "saving"
    BY <1>6 DEF MappingSaved, Core!SaveMapping
  <2>2. response[m].by = holder[request[m].pid] /\ request[m].pid \in ProviderIds
    BY <2>1 DEF AnswerInv, ApiInv, SendLinks
  <2>3. filed' = filed \/ filed' = [filed EXCEPT ![input[m].id] = response[m].by]
    BY <1>6 DEF MappingSaved, FiledUnder
  <2> QED BY <1>6, <2>2, <2>3 DEF MappingSaved
<1>7. ASSUME \/ \E d \in Deliveries :
                  \/ RefuseWebhook(d) \/ IgnoreWebhook(d) \/ WebhookStep(d)
                  \/ \E pid \in ProviderIds \cup ForeignIds : AcceptWebhook(d, pid)
             \/ (\E q \in Queries : QueryStep(q)) \/ HealthStep
      PROVE  SendTypes'
  BY <1>7 DEF RefuseWebhook, IgnoreWebhook, WebhookStep, AcceptWebhook, QueryStep,
     HealthStep, sendVars, storeVars
<1> QED BY <1>1, <1>2, <1>3, <1>4, <1>5, <1>6, <1>7 DEF ApiNext, SendStep

\* Every status that is set is one of the filter's, or a success.
LEMMA StatusesKnown ==
  /\ {200, 400, 401, 404, 422, 500, 502, 503, 504} \subseteq SendStatuses
  /\ {200, 400, 401, 409, 422, 500} \subseteq AckStatuses
BY DEF SendStatuses, AckStatuses

LEMMA ExceptionsDescribed ==
  /\ \A status, message :
       Describe(HttpException(status, message)) = Answered(status, message)
  /\ Describe(DomainError("NoProviderAvailableError")).status = 503
  /\ Describe(DomainError("InvalidStatusTransitionError")).status = 409
  /\ Describe(DomainError("PrismaClientError")).status = 500
<1>1. \A status, message :
        Describe(HttpException(status, message)) = Answered(status, message)
  BY DEF Describe, HttpException
<1>2. \A name : Describe(DomainError(name)) = DomainAnswer(name)
  BY DEF Describe, DomainError
<1>3. Describe(DomainError("NoProviderAvailableError")).status = 503
  <2>1. DomainAnswer("NoProviderAvailableError") = Answered(503, "NO_PROVIDER_AVAILABLE")
    BY DEF DomainAnswer
  <2>2. Describe(DomainError("NoProviderAvailableError")) = DomainAnswer("NoProviderAvailableError")
    BY <1>2
  <2>3. Answered(503, "NO_PROVIDER_AVAILABLE").status = 503
    BY DEF Answered
  <2> QED BY <2>1, <2>2, <2>3
<1>4. Describe(DomainError("InvalidStatusTransitionError")).status = 409
  <2>1. DomainAnswer("InvalidStatusTransitionError") = Answered(409, "INVALID_STATUS_TRANSITION")
    BY DEF DomainAnswer
  <2>2. Describe(DomainError("InvalidStatusTransitionError")) = DomainAnswer("InvalidStatusTransitionError")
    BY <1>2
  <2>3. Answered(409, "INVALID_STATUS_TRANSITION").status = 409
    BY DEF Answered
  <2> QED BY <2>1, <2>2, <2>3
<1>5. Describe(DomainError("PrismaClientError")).status = 500
  <2>1. DomainAnswer("PrismaClientError").status = 500
    BY DEF DomainAnswer, Answered
  <2>2. Describe(DomainError("PrismaClientError")) = DomainAnswer("PrismaClientError")
    BY <1>2
  <2> QED BY <2>1, <2>2
<1> QED BY <1>1, <1>3, <1>4, <1>5, Zenon

\* A step that answers one send.
LEMMA OneAnswerTyped ==
  ASSUME AnswerTypes, NEW m \in Messages, NEW a, a.status \in SendStatuses,
         answer' = [answer EXCEPT ![m] = a]
  PROVE  AnswerTypes'
BY DEF AnswerTypes

LEMMA AnswerTypesStep ==
  ASSUME AnswerTypes, [ApiNext]_apiVars
  PROVE  AnswerTypes'
<1>1. CASE answer' = answer
  BY <1>1 DEF AnswerTypes
<1>2. ASSUME NEW m \in Messages, RefuseSend(m)
      PROVE  AnswerTypes'
  <2>1. PICK refused \in Here(Refused) :
          answer' = [answer EXCEPT ![m] = refused.answer]
    BY <1>2 DEF RefuseSend
  <2>2. refused.answer.status \in {400, 401, 404, 422, 500, 503}
    <3>1. \A a \in RefusalAnswers : a.status \in {400, 401, 404, 422, 500}
      BY RefusalTells
    <3>2. Answered(503, "INTERNAL_API_KEY_NOT_CONFIGURED").status = 503
      BY AnswerFields
    <3> QED BY <3>1, <3>2, RefusedAnswer
  <2>3. refused.answer.status \in SendStatuses
    BY <2>2, StatusesKnown
  <2> QED BY <2>1, <2>3, OneAnswerTyped
<1>3. ASSUME NEW m \in Messages, FindNone(m)
      PROVE  AnswerTypes'
  <2> DEFINE a == Describe(DomainError("NoProviderAvailableError"))
  <2>1. a.status \in SendStatuses
    BY ExceptionsDescribed, StatusesKnown
  <2>2. answer' = [answer EXCEPT ![m] = a]
    BY <1>3 DEF FindNone
  <2> HIDE DEF a
  <2> QED BY <2>1, <2>2, OneAnswerTyped
<1>4. ASSUME NEW m \in Messages, ResponseArrives(m)
      PROVE  AnswerTypes'
  <2>1. answer' = answer \/ answer' = [answer EXCEPT ![m] = Answered(200, "SENT")]
    BY <1>4 DEF ResponseArrives
  <2>2. Answered(200, "SENT").status \in SendStatuses
    BY AnswerFields, StatusesKnown
  <2> QED BY <1>1, <2>1, <2>2, OneAnswerTyped
<1>5. ASSUME NEW m \in Messages, FailureRecorded(m)
      PROVE  AnswerTypes'
  <2>1. answer' = [answer EXCEPT ![m] = Describe(DeliveryException(response[m]))]
    BY <1>5 DEF FailureRecorded
  <2>2. Describe(DeliveryException(response[m])).status \in {502, 504}
    BY ExceptionsDescribed, AnswerFields DEF DeliveryException
  <2>3. Describe(DeliveryException(response[m])).status \in SendStatuses
    BY <2>2, StatusesKnown
  <2> QED BY <2>1, <2>3, OneAnswerTyped
<1>6. ASSUME NEW m \in Messages, MappingSaved(m)
      PROVE  AnswerTypes'
  <2> DEFINE kept == Answered(200, "SENT")
             lost == Describe(HttpException(503, "DELIVERY_STATE_PERSISTENCE_FAILED"))
             a == IF request'[m].pc = "sent" THEN kept ELSE lost
  <2>1. answer' = [answer EXCEPT ![m] = a]
    BY <1>6 DEF MappingSaved
  <2>2. kept.status = 200 /\ lost.status = 503
    BY ExceptionsDescribed, AnswerFields
  <2>3. kept.status \in SendStatuses /\ lost.status \in SendStatuses
    BY <2>2, StatusesKnown
  <2> HIDE DEF kept, lost
  <2>4. a.status \in SendStatuses
    BY <2>3
  <2> HIDE DEF a
  <2> QED BY <2>1, <2>4, OneAnswerTyped
<1>7. ASSUME NEW m \in Messages,
             \/ ReceiveSend(m) \/ Probe(m) \/ TryNext(m) \/ CallProvider(m)
             \/ AdapterRefuses(m) \/ AttemptFails(m)
             \/ \E pid \in ProviderIds : MessageTaken(m, pid)
      PROVE  answer' = answer
  BY <1>7 DEF ReceiveSend, Probe, TryNext, CallProvider, AdapterRefuses, AttemptFails,
     MessageTaken, sendVars
<1>8. ASSUME \/ \E d \in Deliveries :
                  \/ RefuseWebhook(d) \/ IgnoreWebhook(d) \/ WebhookStep(d)
                  \/ \E pid \in ProviderIds \cup ForeignIds : AcceptWebhook(d, pid)
             \/ (\E q \in Queries : QueryStep(q)) \/ HealthStep
             \/ UNCHANGED apiVars
      PROVE  answer' = answer
  BY <1>8 DEF RefuseWebhook, IgnoreWebhook, WebhookStep, AcceptWebhook, QueryStep,
     HealthStep, apiVars, sendVars
<1> QED BY <1>1, <1>2, <1>3, <1>4, <1>5, <1>6, <1>7, <1>8 DEF ApiNext, SendStep

\* A step that answers one webhook.
LEMMA OneAckTyped ==
  ASSUME WebhookTypes, UNCHANGED known, NEW d \in Deliveries, NEW a,
         a # None => a.status \in AckStatuses,
         ack' = [ack EXCEPT ![d] = a]
  PROVE  WebhookTypes'
BY DEF WebhookTypes

LEMMA AcksTyped ==
  ASSUME NEW pc, AckOf(pc) # None
  PROVE  AckOf(pc).status \in AckStatuses
<1>1. CASE pc \in {"acked", "skipped"}
  BY <1>1, AnswerFields, StatusesKnown DEF AckOf
<1>2. CASE pc = "conflict"
  BY <1>2, ExceptionsDescribed, StatusesKnown DEF AckOf
<1>3. CASE pc = "error"
  BY <1>3, ExceptionsDescribed, StatusesKnown DEF AckOf
<1>4. CASE pc \notin {"acked", "skipped", "conflict", "error"}
  BY <1>4 DEF AckOf
<1> QED BY <1>1, <1>2, <1>3, <1>4

LEMMA WebhookTypesStep ==
  ASSUME WebhookTypes, [ApiNext]_apiVars
  PROVE  WebhookTypes'
<1>1. CASE UNCHANGED webhookVars
  BY <1>1 DEF webhookVars, WebhookTypes
<1>2. ASSUME NEW d \in Deliveries, RefuseWebhook(d)
      PROVE  WebhookTypes'
  <2>1. PICK to \in Addressees, raw \in BOOLEAN, a \in ArrivalsHere :
          \E x \in WebhookRefusal(to, raw, a.verified) :
            ack' = [ack EXCEPT ![d] = Describe(x)]
    BY <1>2 DEF RefuseWebhook
  <2>2. PICK x \in WebhookRefusal(to, raw, a.verified) :
          ack' = [ack EXCEPT ![d] = Describe(x)]
    BY <2>1
  <2>3. x \in {HttpException(422, "UNKNOWN_PROVIDER"),
               HttpException(400, "RAW_BODY_UNAVAILABLE"),
               HttpException(401, "WEBHOOK_VERIFICATION_FAILED")}
    BY <2>2 DEF WebhookRefusal
  <2>4. Describe(x).status \in {400, 401, 422}
    BY <2>3, ExceptionsDescribed, AnswerFields
  <2>5. Describe(x).status \in AckStatuses
    BY <2>4, StatusesKnown
  <2> QED BY <1>2, <2>2, <2>5, OneAckTyped DEF RefuseWebhook
<1>3. ASSUME NEW d \in Deliveries, IgnoreWebhook(d)
      PROVE  WebhookTypes'
  <2>1. Answered(200, "IGNORED").status \in AckStatuses
    BY AnswerFields, StatusesKnown
  <2> QED BY <1>3, <2>1, OneAckTyped DEF IgnoreWebhook
<1>4. ASSUME NEW d \in Deliveries, WebhookStep(d)
      PROVE  WebhookTypes'
  BY <1>4, AcksTyped, OneAckTyped DEF WebhookStep
<1>5. ASSUME NEW d \in Deliveries, NEW pid \in ProviderIds \cup ForeignIds,
             AcceptWebhook(d, pid)
      PROVE  WebhookTypes'
  <2>1. PICK a \in ArrivalsHere : known' = [known EXCEPT ![d] = a.known]
    BY <1>5 DEF AcceptWebhook
  <2>2. a.known \subseteq Secrets
    <3>1. PICK configured \in SUBSET Secrets, c \in Credentials :
            a = [configured |-> configured, verified |-> VerifyWebhook(configured, c),
                 known |-> Known(configured, c)]
      BY DEF ArrivalsHere, Arrivals, Secrets
    <3>2. a.known = Known(configured, c)
      BY <3>1
    <3> QED BY <3>2 DEF Known
  <2> QED BY <1>5, <2>1, <2>2 DEF AcceptWebhook, WebhookTypes
<1>6. ASSUME \/ \E m \in Messages : RefuseSend(m) \/ ReceiveSend(m) \/ SendStep(m)
             \/ (\E q \in Queries : QueryStep(q)) \/ HealthStep
             \/ UNCHANGED apiVars
      PROVE  UNCHANGED webhookVars
  BY <1>6 DEF RefuseSend, ReceiveSend, SendStep, Probe, TryNext, FindNone, CallProvider,
     AdapterRefuses, AttemptFails, MessageTaken, ResponseArrives, FailureRecorded,
     MappingSaved, QueryStep, HealthStep, apiVars
<1> QED BY <1>1, <1>2, <1>3, <1>4, <1>5, <1>6 DEF ApiNext

\* Whatever comes in, in any environment: what the interface keeps of a send and of a
\* webhook has its type, and every answer is a success or one of the filter's.
THEOREM ApiTypes == ApiSpec => []ApiTypeOK
<1> DEFINE Typed == AnswerInv /\ SendTypes /\ AnswerTypes /\ WebhookTypes
<1>1. ApiInit => Typed
  BY InitAnswerInv
     DEF ApiInit, SendTypes, AnswerTypes, WebhookTypes
<1>2. Typed /\ [ApiNext]_apiVars => Typed'
  BY NextAnswerInv, SendTypesStep, AnswerTypesStep, WebhookTypesStep
<1>3. Typed /\ Core!TypeOK => ApiTypeOK
  BY DEF AnswerInv, ApiInv, IndInv, SendTypes, AnswerTypes, WebhookTypes, SendStatuses,
     AckStatuses, Secrets, ApiTypeOK
<1>4. ApiSpec => []Core!TypeOK
  BY StoreAssumptions, Store!TypeCorrectness, ApiStore, SameProperties, PTL
<1> HIDE DEF Typed
<1> QED BY <1>1, <1>2, <1>3, <1>4, PTL DEF ApiSpec

=============================================================================
