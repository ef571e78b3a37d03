------------------------------ MODULE MessageApi ------------------------------
(***************************************************************************)
(* The HTTP interface of the gateway: POST /api/v1/messages/send and       *)
(* POST /webhooks/:providerType, from the guard to the answer.  It composes *)
(* the choice of a provider (ProviderSelection), what the adapters make of *)
(* the attempt (ProviderAdapters), the store with its mappings, facts and  *)
(* webhooks (MessageGateway, as Core), the verification of webhooks        *)
(* (EvolutionWebhook) and the exception filter (GatewayErrors).            *)
(*                                                                         *)
(* Every step of a request is a step of the parts it concerns; crashes and *)
(* several instances are the matter of MessageGateway alone.               *)
(***************************************************************************)
EXTENDS ProviderSelection, ProviderAdapters, GatewayErrors, EvolutionWebhook

CONSTANTS
  MessageIds, ProviderIds, ForeignIds, Deliveries,
  MaxFaults, \* bound: commits whose confirmation is lost
  MaxOdd,    \* bound: in how many fields a send differs from the usual one
  None

ASSUME ApiAssumption == MaxFaults \in Nat /\ MaxOdd \in Nat

VARIABLES
  request, accepted, mapping, deliveryLog, outbox, delivery, faults, \* of Core
  input,    \* input[m]: what later steps use of the send
  response, \* response[m]: what the adapter returned
  answer,   \* answer[m]: the answer to the send
  holder,   \* holder[pid]: the provider that handed out pid
  filed,    \* filed[id]: the provider in the stored mapping of id
  known,    \* known[d]: settings the sender of an accepted webhook knows (history)
  ack       \* ack[d]: the answer to the webhook

Core == INSTANCE MessageGateway WITH Requests <- Messages, SerialWebhooks <- FALSE

\* What Core assumes of these constants.
ASSUME StoreAssumption ==
  /\ ProviderIds \cap ForeignIds = {}
  /\ None \notin MessageIds \cup ProviderIds \cup ForeignIds \cup Core!DeliveryStatus
  /\ None \notin Core!Mapping

selectionVars == vars

coreVars == <<request, accepted, mapping, deliveryLog, outbox, delivery, faults>>

sendVars == <<input, response, answer>>

storeVars == <<holder, filed>>

webhookVars == <<known, ack>>

apiVars == <<selectionVars, coreVars, sendVars, storeVars, webhookVars>>

-----------------------------------------------------------------------------
(* What a client can send *)

\* key: the internal API key; wellFormed: the body passes the ValidationPipe;
\* recipient: an address, or an id that ADDRESS_MAPPINGS knows or not, for the
\* channel, or null in the place of the one that counts; sender: the sender address,
\* of which null is as good as none; html: contentType is there and is not TEXT.
SendInputs ==
  [key : {"right", "wrong", "absent"}, wellFormed : BOOLEAN, channel : Channels,
   id : MessageIds, tenant : {"v4", "uuid", "absent", "malformed"},
   recipient : {"address", "known", "unknown", "absent", "null"},
   subject : {"given", "blank", "absent", "null"}, sender : {"absent", "blank", "given"},
   html : BOOLEAN]

\* In how many fields a send differs from an ordinary one.
Oddities(in) ==
  Cardinality({i \in 1..7 :
    \/ i = 1 /\ in.key # "right"
    \/ i = 2 /\ ~in.wellFormed
    \/ i = 3 /\ in.tenant # "v4"
    \/ i = 4 /\ in.recipient # "address"
    \/ i = 5 /\ in.subject # "given"
    \/ i = 6 /\ in.sender # "absent"
    \/ i = 7 /\ in.html})

Sends == {in \in SendInputs : Oddities(in) <= MaxOdd}

TextOf(in) ==
  CASE in.channel = "WHATSAPP" -> "plain" \* its adapter looks at neither
    [] in.subject = "blank" \/ in.sender = "blank" -> "blank"
    [] in.sender = "given" -> "given"
    [] OTHER -> "plain"

Input == [id : MessageIds, v4 : BOOLEAN, text : {"plain", "given", "blank"}]

-----------------------------------------------------------------------------
(* From the guard to the dispatch: what refuses a send, in the order of the checks *)

\* InternalApiKeyGuard
GuardRefusal(keyConfigured, in) ==
  IF ~keyConfigured THEN {HttpException(503, "INTERNAL_API_KEY_NOT_CONFIGURED")}
  ELSE IF in.key # "right" THEN {HttpException(401, "INVALID_INTERNAL_API_KEY")}
  ELSE {}

\* IsOptional lets null through, and validateChannelFields asks for its length.
LengthOfNull(in) ==
  \/ in.recipient = "null"
  \/ in.recipient # "absent" /\ in.channel = "EMAIL" /\ in.subject = "null"

\* The ValidationPipe, the controller and validateChannelFields.
ValidationRefusal(in) ==
  LET badRequest == {HttpException(400, "Bad Request")} IN
  IF ~in.wellFormed \/ in.tenant = "malformed" THEN badRequest
  ELSE IF LengthOfNull(in) THEN {DomainError("TypeError")}
  ELSE IF \/ in.recipient = "absent"
          \/ in.channel = "EMAIL" /\ in.subject = "absent"
          \/ in.channel = "WHATSAPP" /\ in.html
    THEN badRequest
  ELSE {}

\* DictAddressResolver, whose error the service turns into a 422.
AddressRefusal(in) ==
  IF in.recipient = "unknown"
    THEN {HttpException(422, "ADDRESS_RESOLUTION_FAILED")}
    ELSE {}

\* The registry of the dispatcher.
ChannelRefusal(channels, in) ==
  IF in.channel \in channels THEN {} ELSE {DomainError("ChannelNotFoundError")}

\* At most one: the first check that fails ends the request.
Refusal(keyConfigured, channels, in) ==
  IF GuardRefusal(keyConfigured, in) # {} THEN GuardRefusal(keyConfigured, in)
  ELSE IF ValidationRefusal(in) # {} THEN ValidationRefusal(in)
  ELSE IF AddressRefusal(in) # {} THEN AddressRefusal(in)
  ELSE ChannelRefusal(channels, in)

\* What the sends come to, by what is configured: the answers to those that are
\* refused, and what the admitted ones carry on.
Refused ==
  UNION {{[keyConfigured |-> k, channels |-> cs, answer |-> Describe(x)] :
            x \in UNION {Refusal(k, cs, in) : in \in Sends}} :
         k \in BOOLEAN, cs \in SUBSET Channels}

Admitted ==
  UNION {{[keyConfigured |-> k, channels |-> cs, channel |-> in.channel,
           id |-> in.id, v4 |-> in.tenant = "v4", text |-> TextOf(in)] :
            in \in {i \in Sends : Refusal(k, cs, i) = {}}} :
         k \in BOOLEAN, cs \in SUBSET Channels}

KeyConfigured == "INTERNAL_API_KEY" \notin config.missing

RegisteredChannels == {ch \in Channels : ChannelRegistered(ch)}

\* Those of this configuration.
Here(outcomes) ==
  {o \in outcomes : /\ o.keyConfigured = KeyConfigured
                    /\ o.channels = RegisteredChannels}

\* Two reductions.  A health query shares nothing with sends and webhooks but the
\* health of the providers: a behaviour has the one or the others.  Webhooks share
\* nothing with e-mails, of which there are no receipts: they come where no e-mail
\* provider is selected, among the sends to the other channel.
Asking == \E q \in Queries : query[q].pc # "none"

Receiving == ~Asking /\ {config.primary, config.fallback} = {"none"}

Serving ==
  \/ \E m \in Messages : answer[m] # None \/ send[m].pc # "none"
  \/ \E d \in Deliveries : delivery[d].pc # "new"

\* Refused before anything is sent.
RefuseSend(m) ==
  /\ answer[m] = None
  /\ send[m].pc = "none"
  /\ ~Asking
  /\ \E refused \in Here(Refused) :
       answer' = [answer EXCEPT ![m] = refused.answer]
  /\ Core!RejectRequest(m)
  /\ UNCHANGED <<selectionVars, input, response, storeVars, webhookVars>>

\* The dispatcher has found the channel; the first probe is under way.
ReceiveSend(m) ==
  /\ answer[m] = None
  /\ ~Asking
  /\ \E in \in Here(Admitted) :
       /\ Dispatch(m, in.channel)
       /\ input' = [input EXCEPT ![m] =
                      [id |-> in.id, v4 |-> in.v4, text |-> in.text]]
  /\ UNCHANGED <<coreVars, response, answer, storeVars, webhookVars>>

Probe(m) ==
  /\ ProbeAnswered(m) \/ ProbeFails(m)
  /\ UNCHANGED <<coreVars, sendVars, storeVars, webhookVars>>

\* The resolver goes on to the next candidate, ...
TryNext(m) ==
  /\ Resolve(m)
  /\ send'[m].pc = "probing"
  /\ UNCHANGED <<coreVars, sendVars, storeVars, webhookVars>>

\* ... finds none, ...
FindNone(m) ==
  /\ Resolve(m)
  /\ send'[m].pc = "unavailable"
  /\ Core!RejectRequest(m)
  /\ answer' = [answer EXCEPT ![m] = Describe(DomainError("NoProviderAvailableError"))]
  /\ UNCHANGED <<input, response, storeVars, webhookVars>>

\* ... or has one, which is called at once.
CallProvider(m) ==
  /\ Resolve(m)
  /\ send'[m].pc = "sending"
  /\ Core!DispatchRequest(m, input[m].id, input[m].v4)
  /\ UNCHANGED <<sendVars, storeVars, webhookVars>>

-----------------------------------------------------------------------------
(* The attempt and its answer *)

Provider(m) == Candidate(m)

\* The adapter refuses by itself.
AdapterRefuses(m) ==
  /\ send[m].pc = "sending"
  /\ NotConfigured(config, Provider(m), input[m].text)
  /\ SendFails(m)
  /\ Core!ProviderRefuses(m)
  /\ response' = [response EXCEPT ![m] = Failure(Provider(m), "NOT_CONFIGURED", FALSE)]
  /\ UNCHANGED <<input, answer, storeVars, webhookVars>>

\* The attempt fails and the provider has not taken the message.
AttemptFails(m) ==
  /\ send[m].pc = "sending"
  /\ ~NotConfigured(config, Provider(m), input[m].text)
  /\ SendFails(m)
  /\ Core!ProviderRefuses(m)
  /\ \E r \in BeforeTaking(config, Provider(m)) :
       response' = [response EXCEPT ![m] = r]
  /\ UNCHANGED <<input, answer, storeVars, webhookVars>>

\* The provider takes the message under an id.
MessageTaken(m, pid) ==
  /\ send[m].pc = "sending"
  /\ ~NotConfigured(config, Provider(m), input[m].text)
  /\ ProviderTakes(m)
  /\ Core!ProviderAccepts(m, pid)
  /\ holder' = [holder EXCEPT ![pid] = Provider(m)]
  /\ UNCHANGED <<sendVars, filed, webhookVars>>

\* What send does next: without an id there is nothing to store.
AfterResponse(r) ==
  IF ~r.success THEN "recording" ELSE IF r.id THEN "saving" ELSE "sent"

ResponseArrives(m) ==
  /\ send[m].pc = "taken"
  /\ \E r \in AfterTaking(Provider(m)) :
       /\ IF r.success THEN SendSucceeds(m) ELSE SendFails(m)
       /\ Core!ProviderAnswers(m)
       /\ request'[m].pc = AfterResponse(r)
       /\ response' = [response EXCEPT ![m] = r]
       /\ answer' = IF AfterResponse(r) = "sent"
                    THEN [answer EXCEPT ![m] = Answered(200, "SENT")] ELSE answer
  /\ UNCHANGED <<input, storeVars, webhookVars>>

\* toDeliveryException
DeliveryException(r) == HttpException(IF r.timeout THEN 504 ELSE 502, r.error)

FailureRecorded(m) ==
  /\ Core!RecordFailure(m)
  /\ answer' = [answer EXCEPT ![m] = Describe(DeliveryException(response[m]))]
  /\ UNCHANGED <<selectionVars, input, response, storeVars, webhookVars>>

\* Mutation of the provider below: the one that is usual for the channel.
FiledUnderDefault(r, ch) == IF ch = "EMAIL" THEN "RESEND" ELSE "EVOLUTION"

\* The provider a mapping is stored under: the one that answered.
FiledUnder(r, ch) == r.by

MappingSaved(m) ==
  /\ Core!SaveMapping(m)
  /\ filed' = IF mapping' = mapping THEN filed
              ELSE [filed EXCEPT ![input[m].id] =
                      FiledUnder(response[m], send[m].channel)]
  /\ answer' = [answer EXCEPT ![m] =
       IF request'[m].pc = "sent" THEN Answered(200, "SENT")
       ELSE Describe(HttpException(503, "DELIVERY_STATE_PERSISTENCE_FAILED"))]
  /\ UNCHANGED <<selectionVars, input, response, holder, webhookVars>>

-----------------------------------------------------------------------------
(* Webhooks *)

\* Where a webhook is addressed to; "unknown" is no name of a provider.
Addressees == Providers \cup {"unknown"}

ConfiguredSecrets ==
  {"EVOLUTION_API_KEY", "EVOLUTION_WEBHOOK_SECRET"} \ config.missing

ArrivalsHere == {a \in Arrivals : a.configured = ConfiguredSecrets}

\* WebhooksController and processWebhook: only Evolution verifies any webhook.
WebhookRefusal(to, raw, verified) ==
  IF to = "unknown" THEN {HttpException(422, "UNKNOWN_PROVIDER")}
  ELSE IF ~raw THEN {HttpException(400, "RAW_BODY_UNAVAILABLE")}
  ELSE IF to \notin RegisteredProviders \/ to # "EVOLUTION" \/ ~verified
    THEN {HttpException(401, "WEBHOOK_VERIFICATION_FAILED")}
  ELSE {}

RefuseWebhook(d) ==
  /\ Receiving
  /\ \E to \in Addressees, raw \in BOOLEAN, a \in ArrivalsHere :
       \E x \in WebhookRefusal(to, raw, a.verified) :
         ack' = [ack EXCEPT ![d] = Describe(x)]
  /\ Core!RefuseWebhook(d)
  /\ UNCHANGED <<selectionVars, sendVars, storeVars, known>>

IgnoreWebhook(d) ==
  /\ Receiving
  /\ \E a \in ArrivalsHere : WebhookRefusal("EVOLUTION", TRUE, a.verified) = {}
  /\ \E payload \in Payload : KindOf(payload) = "ignored"
  /\ Core!RefuseWebhook(d)
  /\ ack' = [ack EXCEPT ![d] = Answered(200, "IGNORED")]
  /\ UNCHANGED <<selectionVars, sendVars, storeVars, known>>

\* What Evolution reports: an inbound message, or the status of one that was sent.
Contents ==
  {[kind |-> KindOf(payload),
    status |-> IF KindOf(payload) = "receipt" THEN ReceiptStatus(payload.type)
                                              ELSE None] :
     payload \in {x \in Payload : KindOf(x) # "ignored"}}

\* Evolution reports on a message that it took, or on one of its own.
AcceptWebhook(d, pid) ==
  /\ Receiving
  /\ pid \in ProviderIds => holder[pid] = "EVOLUTION"
  /\ \E a \in ArrivalsHere :
       /\ WebhookRefusal("EVOLUTION", TRUE, a.verified) = {}
       /\ known' = [known EXCEPT ![d] = a.known]
  /\ \E content \in Contents :
       Core!AcceptWebhook(d, content.kind, pid, content.status)
  /\ UNCHANGED <<selectionVars, sendVars, storeVars, ack>>

\* The answer to a webhook that Core has come to the end of.
AckOf(pc) ==
  CASE pc \in {"acked", "skipped"} -> Answered(200, "RECEIVED")
    [] pc = "conflict" -> Describe(DomainError("InvalidStatusTransitionError"))
    [] pc = "error" -> Describe(DomainError("PrismaClientError"))
    [] OTHER -> None

\* Core's lookup ignores the provider of a row: rows are filed under the provider
\* that handed out their id (FiledUnderHolder), and only Evolution's come here.
WebhookStep(d) ==
  /\ Core!LookupMapping(d) \/ Core!UpdateStatus(d) \/ Core!PublishEvent(d)
  /\ ack' = [ack EXCEPT ![d] = AckOf(delivery'[d].pc)]
  /\ UNCHANGED <<selectionVars, sendVars, storeVars, known>>

-----------------------------------------------------------------------------

ApiInit ==
  /\ Init
  /\ Core!Init
  /\ input = [m \in Messages |-> None]
  /\ response = [m \in Messages |-> None]
  /\ answer = [m \in Messages |-> None]
  /\ holder = [pid \in ProviderIds |-> None]
  /\ filed = [id \in MessageIds |-> None]
  /\ known = [d \in Deliveries |-> {}]
  /\ ack = [d \in Deliveries |-> None]

\* A send that was admitted goes on.
SendStep(m) ==
  \/ Probe(m) \/ TryNext(m) \/ FindNone(m) \/ CallProvider(m)
  \/ AdapterRefuses(m) \/ AttemptFails(m) \/ ResponseArrives(m)
  \/ \E pid \in ProviderIds : MessageTaken(m, pid)
  \/ FailureRecorded(m) \/ MappingSaved(m)

QueryStep(q) ==
  /\ \/ ~Serving /\ Ask(q)
     \/ Report(q)
     \/ \E p \in Providers : QueryAnswered(q, p)
  /\ UNCHANGED <<coreVars, sendVars, storeVars, webhookVars>>

HealthStep ==
  /\ \E p \in Probed : ChangeHealth(p)
  /\ UNCHANGED <<coreVars, sendVars, storeVars, webhookVars>>

ApiNext ==
  \/ \E m \in Messages :
       \/ RefuseSend(m) \/ ReceiveSend(m)
       \/ SendStep(m)
  \/ \E d \in Deliveries :
       \/ RefuseWebhook(d) \/ IgnoreWebhook(d) \/ WebhookStep(d)
       \/ \E pid \in ProviderIds \cup ForeignIds : AcceptWebhook(d, pid)
  \/ \E q \in Queries : QueryStep(q)
  \/ HealthStep

ApiSpec == ApiInit /\ [][ApiNext]_apiVars

\* A probe or a mail at Stalwart: neither a write to it nor its TLS handshake has a
\* timer.
AtStalwart(m) ==
  /\ send[m].pc \in {"probing", "sending", "taken"}
  /\ Candidate(m) = "STALWART"

\* Everything else that a request waits for is answered or times out; the database,
\* whose queries have no timer here, is assumed to answer or to fail.
ApiFairness ==
  /\ \A m \in Messages : WF_apiVars(SendStep(m) /\ ~AtStalwart(m))
  /\ \A d \in Deliveries : WF_apiVars(WebhookStep(d))

FairApi == ApiSpec /\ ApiFairness

-----------------------------------------------------------------------------
(* Properties *)

Stored(id) == mapping[id] # None

\* Types of what the interface adds, with those of its parts; every answer is one
\* of the filter's or a success.
ApiTypeOK ==
  /\ TypeOK
  /\ Core!TypeOK
  /\ input \in [Messages -> Input \cup {None}]
  /\ response \in [Messages -> Response \cup {None}]
  /\ \A m \in Messages : answer[m] # None =>
       answer[m].status \in {200, 400, 401, 404, 422, 500, 502, 503, 504}
  /\ holder \in [ProviderIds -> Providers \cup {None}]
  /\ filed \in [MessageIds -> Providers \cup {None}]
  /\ known \in [Deliveries ->
                 SUBSET {"EVOLUTION_API_KEY", "EVOLUTION_WEBHOOK_SECRET"}]
  /\ \A d \in Deliveries : ack[d] # None =>
       ack[d].status \in {200, 400, 401, 409, 422, 500}

\* Codes of answers after which a client can send again without the message going
\* out twice.
NothingSent ==
  {"INTERNAL_API_KEY_NOT_CONFIGURED", "INVALID_INTERNAL_API_KEY", "Bad Request",
   "InternalServerError", "ADDRESS_RESOLUTION_FAILED", "CHANNEL_NOT_FOUND",
   "NO_PROVIDER_AVAILABLE", "NOT_CONFIGURED", "AUTH_FAILED", "RATE_LIMITED", "SMTP_CONNECTION_FAILED"}

\* Whose timeout a 504 is: the gateway's own timer for Resend and for the token of
\* Stalwart, or a word of the provider.  The timers of the other requests, whose
\* text reads "timed out", end in a 502.
KnownTimeout(m) ==
  \/ response[m].by = "EVOLUTION" /\ answer[m].message = "providerText"
  \/ response[m].by = "RESEND" /\ answer[m].message = "UNAVAILABLE"
  \/ response[m].by = "STALWART"
       /\ answer[m].message \in {"SMTP_CONNECTION_FAILED", "SMTP_ERROR"}
            \cup (IF config.oauth THEN {"EMAIL_SEND_FAILED"} ELSE {})

\* A client can tell from the answer what became of its message: by the codes above
\* no provider has it; 200 says that one has it, and that receipts will find it if
\* it has an id; 502 and 504 follow a failed attempt only, and 504 one of
\* the timeouts above; and a 500 comes before any provider was looked for (a field
\* that is null), never of what the gateway knows to have gone wrong later.
AnswerTellsEffect ==
  \A m \in Messages : answer[m] # None =>
    LET a == answer[m] IN
    /\ a.status = 500 => send[m].pc = "none"
    /\ a.message \in NothingSent => took[m] = <<>>
    /\ a.status = 200 =>
         /\ took[m] = <<response[m].by>>
         /\ response[m].id => Stored(input[m].id)
    /\ a.message = "DELIVERY_STATE_PERSISTENCE_FAILED" => took[m] # <<>>
    /\ a.status \in {502, 504} => ~response[m].success
    /\ a.status = 504 => KnownTimeout(m)

\* A mapping is filed under the provider that handed out its id, the fallback
\* included: the lookup of a receipt is by both, and would never find it otherwise.
FiledUnderHolder ==
  \A id \in MessageIds : Stored(id) => filed[id] = holder[mapping[id].pid]

\* An environment that readEnv accepts as a production one sends: no registered
\* provider lacks what its probe needs, the guard has its key, and an adapter calls
\* itself not configured only for a blank subject or sender, or for the sender
\* address of Stalwart, which readEnv does not ask for.
ValidatedConfigSends ==
  config.strict =>
    /\ \A p \in RegisteredProviders : Reachable(config, p)
    /\ \A m \in Messages : answer[m] # None =>
         /\ answer[m].message # "INTERNAL_API_KEY_NOT_CONFIGURED"
         /\ answer[m].message = "NOT_CONFIGURED" =>
              \/ input[m].text = "blank"
              \/ /\ response[m].by = "STALWART"
                 /\ "STALWART_FROM_ADDRESS" \in config.missing

\* Nobody enters a receipt or an inbound message without a credential that this
\* gateway has been given, however few of them are configured and whatever else
\* the webhook presents.
WebhooksAuthentic ==
  \A d \in Deliveries : delivery[d].pc \notin {"new", "refused"} =>
    known[d] \cap ConfiguredSecrets # {}

\* Every admitted send is answered, and every accepted webhook, unless a send
\* stays at Stalwart.
RequestsAnswered ==
  /\ \A m \in Messages :
       send[m].pc # "none" ~> answer[m] # None \/ AtStalwart(m)
  /\ \A d \in Deliveries : delivery[d].pc = "lookup" ~> ack[d] # None

=============================================================================
