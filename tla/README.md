# Communication gateway: verification project

TLA+ models of the communication gateway (`src/`), the TLC runs that check them
and the TLAPS proofs about them. Paths below are relative to the repository's
`src/` directory of TypeScript code; line numbers are in `PROJECT.json`, which
maps every definition to the lines it models.

## 1. The system

The gateway delivers messages for other services through external providers and
passes what the providers report back to them.

```
client --HTTP--> MessagesController -> MessagesService -> GatewayDispatcher
                                           |                 -> resolver -> provider adapter --HTTP/SMTP--> provider
                                           v
                              MessageMappingRepository (PostgreSQL)
                              message_mapping | delivery_log | analytics_outbox
                                           ^                        |
provider --HTTP--> WebhooksController -> WebhookService             | AnalyticsOutboxWorker
                                           |                        v
                                           v                      Kafka
                              InMemoryEventPublisher (bus)          ^
                                 |-> HttpEventForwarder --HTTP--> chat / notification service
                                 '-> KafkaDeliveryEventHandler -----'
EventLifecycle starts and stops forwarder, Kafka handler and outbox worker.
```

| Component | State it keeps | Operations | What makes it correct |
|---|---|---|---|
| MessagesController with guard and pipe, DictAddressResolver | none | `canActivate`, `send`, `resolve` | every refusal happens before anything is sent, and says so |
| MessagesService (`communication-gateway/services`) | none between requests; a request in flight between its awaits | `send`, `recordFailure`, `saveMapping` | a sent message is stored or the client is told; a failure is logged; a retry replaces nothing |
| WebhookService | none; a webhook between lookup, update and event | `processWebhook`, `processInboundMessage`, `processReceipt` | stored statuses follow the lifecycle; an event does not overtake its fact; repetitions are recognised |
| Delivery lifecycle | constant table | `isValidTransition`, `assertValidTransition` | see above |
| MessageMappingRepository (`prisma`) | three tables | `save`, `find…`, `updateStatus`, `recordFailure`, `enqueue` | a status and its analytics fact are stored together, facts once |
| AnalyticsOutboxWorker (`analytics`) | the rows of `analytics_outbox`, a batch per instance | `runOnce`: `claim`, `publish`, `releaseWithFailure` | every fact is settled once, locks exclude each other, crashes leave nothing behind |
| InMemoryEventPublisher (`adapter/events`) | a queue, a resolve function and a flag per subscriber | `publish`, `subscribe`, `close`, the generator | order, no loss, no lost wake-up, drained before it ends |
| HttpEventForwarder | two consume loops | `start`, `stop`, `postWithRetry` | bounded retries; `stop` ends after the last event |
| KafkaDeliveryEventHandler, KafkaRawEventPublisher | a consume loop, the shared producer | `start`, `stop`, `publish` | as above; the producer outlives its users |
| EventLifecycle (`events.module.ts`), PrismaService, `bootstrap` | none; the database connection | start and stop order | the server is open only within the life of its consumers; no accepted event is lost; nothing runs after its stop; start and shutdown end |
| Registry and resolver (`adapter/registry`, `adapter/resolvers`) | channels, providers, a set of disabled ones | register, lookups, `resolve`; enable and disable (without a caller) | first healthy provider wins; a failed send is not repeated elsewhere |
| Evolution, Resend, Stalwart adapters | configuration; an SMTP session per send | `send`, `health`, `verifyWebhook`, `handleWebhook` | each send has one outcome; every pending SMTP command is settled; no webhook gets in without a credential |
| GatewayExceptionFilter, gateway errors | none | `catch`, `describe` | the answer tells the client what became of its message |
| `readEnv`, provider factory (`config`, `adapter/providers`) | the configuration | `readEnv`, `buildChannelRegistry` | what is accepted at the start is enough to send |
| HealthController | none | `ready` | its query reconnects a database that the shutdown has disconnected |

Concurrency comes from three places. Node runs one handler at a time but switches
at every `await`, so two requests interleave between their store and provider
calls. Several instances of the gateway share one database. Providers deliver
webhooks repeatedly, late and in any order, and a crash may come anywhere. The
hazards this creates are listed at their lines in `PROJECT.json`.

## 2. Modules

| Module | Role |
|---|---|
| `DeliveryLifecycle` | the statuses and the transition table, pure definitions |
| `MessageLifecycle` | abstract specification: what the store promises about the status of a message |
| `MessageGateway` | sends and webhooks over the store: one action per stretch of code between two awaits |
| `MCMessageGateway` | symmetry for its runs |
| `MessageGatewayProofs` | inductive invariant and theorems about `MessageGateway` |
| `OutboxContract` | abstract specification: every fact is settled once and for all |
| `OutboxWorker` | the batches of several outbox workers over one table, with relative time |
| `MCOutboxWorker` | symmetry for its runs |
| `EventChannels` | abstract specification: one lossless ordered channel per consumer that ends when drained |
| `EventBus` | the bus with the generators of its subscriptions |
| `EventBusProofs` | its inductive invariant, and that it implements `EventChannels` |
| `OutboxWorkerProofs` | inductive invariant and theorems about `OutboxWorker` |
| `EventForwarder` | the two loops of the forwarder, with retries, over the bus as `EventChannels` promises it; run as part of `GatewayLifecycle` |
| `GatewayShutdown` | extends `EventForwarder` with the Kafka handler, the running batch of the outbox worker and the hooks that stop them |
| `GatewayLifecycle` | extends `GatewayShutdown` with the start: the hooks of the modules, the server, a start that fails, the readiness probe |
| `SmtpSession` | one mail or health probe over SMTP: replies in chunks, timers, closes, STARTTLS, the OAuth token cache and its retry |
| `LifecycleProofs` | inductive invariant and theorems about `GatewayLifecycle` and the forwarder in it |
| `SmtpSessionProofs` | inductive invariant and theorems about `SmtpSession` |
| `GatewayConfig` | the environments `readEnv` accepts, and the channels and providers they make; pure |
| `ProviderSelection` | the health-aware choice among the candidates of a channel, the dispatch, the health query |
| `ProviderSelectionProofs` | its inductive invariant and theorems |
| `ProviderAdapters` | what the three adapters make of every outcome of an attempt; pure |
| `EvolutionWebhook` | how a webhook is verified and read; pure |
| `GatewayErrors` | the answer of every exception; pure |
| `MessageApi` | the HTTP interface from the guard to the answer: composes `ProviderSelection`, `ProviderAdapters`, `MessageGateway` (as `Core`), `EvolutionWebhook` and `GatewayErrors` |
| `MessageApiProofs` | that it implements `ProviderSelection` and `MessageGateway`, its inductive invariant, theorems |
| `AnswerProofs` | what an answer tells: the invariant that follows a send to its answer, theorems |

### MessageGateway

`request[r].pc` is the await at which `MessagesService.send` stands:
`dispatching` (provider called), `accepted` (the provider has the message, the
answer is under way), `saving`, `recording`, and the answers: `rejected` (4xx
before sending), `sent` (200), `badGateway` (502 or 504) and `unavailable` (503).
`accepted` is the provider's own state, `mapping`, `deliveryLog` and `outbox` are
the tables, `delivery[d].pc` is the await of `WebhookService` (`lookup`,
`update`, `publish`) or its answer. `seen` is the status the handler read, which
is what it validates; `updateStatus` does not look at it again.

Outcomes the program cannot tell apart are separate branches: a provider that
accepts while the answer is lost (`ProviderAnswers`, third branch), and a
transaction that commits while the caller sees an error (`Reported`, which counts
as a fault, like a crash). Analytics facts are the keys of the deduplication
column, so the `upsert` with an empty update is set insertion. Messages of one
tenant and one provider are modelled; the tenant matters as the flag `v4`, because
the controller accepts any UUID and the store only version 4.

### OutboxWorker

A batch is `StartBatch` (the candidate query), one `ClaimNext` per candidate,
then per claimed record `ReadRecord`, the send, and `MarkPublished` or
`ReleaseWithFailure`. `Abort` is a crash, or a failed call that ends the batch in
`runOnce`. Since the identity of an instance only matters while it holds
locks for the running batch, an instance that starts again keeps its name. Time
is relative (age of a lock, remaining wait of a row, age of the `now` a claim
computed) and saturates, so there is no clock to bound. `acked`, `failed` and
`stolen` are history variables.

### EventBus

`sub[s]` is the `Subscriber` object plus its generator: `fresh`, `awaiting` (at
the promise), `busy` (at a `yield`, while the consumer works). `handed` is the
value the promise was resolved with and the generator has not seen yet; the gap
between the two is where the code could go wrong. The consumers are the loops of
the forwarder and of the Kafka handler, which come back for the next event
whatever happens to the last, and, for completeness, a consumer that breaks out.

### EventForwarder

`loop[l].pc` is the await of a loop: the `for await`, the mapping lookup, the
request, an answer on its way, or the delay before the next attempt. The service
behind a loop is external: `Receive` takes the request or not and chooses the
kind of answer (2xx; 408, 429 and 5xx; the rest). A request that timed out here
may still be handled (`LateRequest`), so `arrived` can hold copies. `log`,
`outcome` and `arrived` are histories. An event is published once; two events with
the same content are two events.

### GatewayShutdown

`phase` follows the framework: `onModuleDestroy` disconnects the database,
the HTTP server closes after its last request, then `onApplicationShutdown` stops
forwarder, Kafka handler and outbox worker one after the other. A query after
the disconnect connects again, as Prisma does. `ProducerFails` is a
`producer.close()` that rejects: the hook rejects and the process ends without
stopping the worker. `LoopRunsEmpty` is Node's rule that a process with
nothing but unreferenced timers ends; the delay between attempts
(`http-event.forwarder.ts`, `delay`) is such a timer. A configured broker need not be
connected, so an open producer is not counted on to keep the process alive; a
running batch, a receipt at the Kafka handler and a connected database do. The server
waits for its last request without a bound.

### SmtpSession

`client.pc` is the await at which `send` or `probe` stands (`connecting`,
`writing`, `waiting` for a reply, `wrapping` the socket in TLS, `fetching` a
token) and `client.cmd` the command. `wire` holds lines the server has
sent, `buffer` lines that `onData` received and no command consumed: data
arrives in chunks at any moment, also while nothing waits for it. The server
follows the protocol, but may be slow, refuse, close, or fall silent. Where
`failPending` finds nobody waiting, the error is dropped as in the code. The cached
token may expire or be replaced by other sends at any moment.

### GatewayLifecycle

`boot.database` is the await of `PrismaService.onModuleInit`: `$connect`, which
has no timer, then the query that is raced by one of five seconds.
`EventLifecycle.onModuleInit` never waits (the first batch of the outbox worker
runs detached), so it is one action, `StartConsumers`. The framework runs the hooks of
modules one after the other, in an order this code does not fix: both orders are
possible. `Listen` needs both. A start that fails is `aborted` and goes through
the shutdown hooks of `GatewayShutdown`, over loops that may never have been
started: those count as ended, since `stop` has no task to wait for.

### GatewayConfig, ProviderSelection

`config` is chosen in `Init` from the environments that `readEnv` accepts: which
providers are primary and fallback, whether Stalwart is enabled and uses OAuth,
and which settings are absent. `strict` is production, development or staging,
where absent settings stop the process; an environment that is not strict is kept
only if the strict one would be refused, because nothing else differs.
`send[m].at` is the position in the primaries followed by the fallbacks, as the
two loops of `resolve` go through them. A probe is answered (`ProbeAnswered`)
before its answer arrives (`Resolve`), and health may change before, between and
after. `enableProvider` and `disableProvider` have no caller in the service and
are left out. `wasDown` and `wasUp` are histories of one send and of one query.

### MessageApi

One request goes through all of its parts. `RefuseSend` applies the checks in the
code's order (`Refusal`: the guard, the validation, the address, the channel),
`ReceiveSend` starts the choice of a provider, `CallProvider` hands the message
to it, and then each step is one of `ProviderSelection` and one of
`MessageGateway` at the same time: for instance `MessageTaken` is `ProviderTakes`
together with `Core!ProviderAccepts`. `ProviderAdapters` supplies what the adapter
returns (`BeforeTaking`, `AfterTaking`: the outcomes that are possible before and
after the provider has the message), `GatewayErrors` the answer. An answer is its
status and its code, `answer[m]` for a send and `ack[d]` for a webhook. The tables
of `ProviderAdapters`, `EvolutionWebhook` and the refusals are computed once, as
sets of outcomes, so that a state does not carry inputs nobody looks at again.
`holder` and `filed` say which provider handed out an id and under which one the
mapping was stored.

## 3. Runs

| Run | Instance | Shows |
|---|---|---|
| `gateway_concurrent` | 2 messages, 2 provider ids, 2 requests, 2 webhooks, 1 fault | what is answered, stored, counted and published agrees with what the provider took; a retry never replaces a mapping; the inductive invariant holds |
| `gateway_serial` | 1 message, 1 request, 3 webhooks one at a time, 1 fault | the stored statuses implement `MessageLifecycle` |
| `gateway_race` (violation) | 1 request, 2 webhooks | two overlapping receipts take the stored status backwards |
| `outbox_shared` | 2 instances, 2 records, batches of 2, 1 fault | claims, success marks and dead letters are sound with stale locks and takeovers; the inductive invariant holds |
| `outbox_single` | 1 instance, 3 records, batches of 2, 2 faults | the worker implements `OutboxContract`, with liveness, also with more records than a batch takes, and sends no settled record again |
| `outbox_race` (violation) | 2 instances, 1 record, no fault | a settled record is claimed from an old candidate list and sent again |
| `event_bus` | 2 consumers, 2 events, queues of up to 3 | the bus implements `EventChannels`, with liveness; no lost wake-up |
| `shutdown` (`GatewayLifecycle`) | 1 inbound message, 2 receipts, 2 events published, 2 attempts, with and without a broker, from the start of the process | the server is open only while its consumers live, no loop skips or reorders events, a loss needs the delay between attempts, the producer outlives the Kafka handler, the worker is quiet at the end, the start ends, and the shutdown once the server's last request has |
| `shutdown_loss` (violation) | 1 inbound message, 1 receipt | an event is lost there |
| `smtp_session` | all configurations, replies of one line, 2 tokens | replies match commands, a reported send was accepted, a retry uses a new token, sockets are released, sends end except at the two waits without a timer |
| `smtp_multiline` (violation) | capabilities of 2 lines | a complete reply of several lines settles nothing |
| `provider_selection` (`MessageApi`) | all accepted environments with at most one of six settings missing, 1 send with up to two oddities, 1 webhook with up to two credentials, 1 health query, 2 health changes, 1 fault | fallbacks are earned, "healthy" is backed by every provider, the answer tells what became of the message, a mapping is filed where its receipt looks, an accepted configuration sends, no webhook gets in without a credential, every admitted request is answered |

Bounds. `Requests`, `Deliveries` and `Records` are the numbers of calls; two
requests for one message are a retry, two webhooks race, or one repeats
the other; for more the theorems hold. `MaxFaults` counts crashes, ambiguous commits
and failed calls: one is enough to separate any two steps. The ages of the outbox
saturate at `StaleLock + MaxClaimAge + 1`; with one tick each, a lock can be
fresh, nearly stale and stale for a claim that took no or one tick, which is
every comparison the code makes; `Timely` rules the stale ones out, to show that
`outbox_race` does not need them. `MaxRetries = 2` has a last and a not last
attempt. Three records and batches of two leave one record behind those that were
taken, whose retries could keep it waiting for ever. `MaxQueue` keeps events from being published while a queue holds more
than two: one event handed over and two queued are enough to see an order.
In `shutdown`, `MaxEvents = 2` gives two receipts in an order, or one event in each
loop; two attempts are a first and a last one. `MaxLines` is 0 where replies have
one line and 1 where the first continuation matters; `MaxTokens = 2` gives the retry a token that differs
from the refused one.

In `provider_selection` sends share nothing but the health of the providers and
the tables, and two requests over the tables are the matter of the gateway runs, so one
send suffices; two changes of health put one before and one after a probe.
`MaxOdd = 2` gives every pair of reasons to refuse a send, so every order of two
checks; `MaxMissing = 1` every single setting that is missing; `MaxCredentials = 2`
a right credential next to a wrong, an empty or another right one. Three
reductions keep it small. A health query and sends or webhooks do
not come in one behaviour (`Asking`, `Serving`), because they share only the
providers' health, which changes by itself. Webhooks come only where no e-mail
provider is selected (`Receiving`), because only Evolution sends any. And crashes,
several instances and several requests for one message stay in the gateway runs.

Fairness. The gateway runs check safety only. `OutboxWorker` assumes that a batch
in progress goes on and that a due record starts a batch (the timer polls every
second, and every awaited call is answered or fails) and that time passes;
nothing is assumed of the broker, which may refuse for ever. `EventBus` assumes that a
resolved promise continues its generator and that consumers come back for the
next event, which the bounded retries and request timeouts of the forwarder
justify. `EventForwarder` and `GatewayShutdown` assume that a loop goes on: every
request has a timer, a mapping lookup is answered or fails; nothing is assumed
of the services: they may refuse, stay silent or answer late. The call of the broker's
client is assumed to settle, with a result or an error, and the signal need not come.
Nor need the server close: it waits for its last request, which may be a mail at
Stalwart, so the shutdown is shown to end from the moment the server has closed, or
from its beginning if the server was never opened. `SmtpSession` assumes timers, the
operating system's answer to `connect` and the abort signal of the token request, and
nothing of the server. Two of its waits have no timer, and the socket's own is switched
off: a write, which calls back only if the peer reads or the connection breaks, and the
TLS handshake after STARTTLS. A server can keep a send at either for ever, which
`SendEnds` therefore admits. `MessageApi` assumes that a send and a webhook go on, since
every request to a provider has a timer and every database call is assumed to be
answered or to fail; nothing while a probe or a mail is at Stalwart, for the same reason,
which `RequestsAnswered` admits too. `GatewayLifecycle` assumes that the hooks of the
start go on, and nothing of the database during it: neither that `$connect` ends nor
that the query after it is answered.

Findings. The four runs marked as violations are disagreements between the code
and its comments or tests; `PROJECT.json` quotes both sides.

- `gateway_race`: `updateStatus` writes unconditionally what was validated against
  an earlier status, so overlapping receipts walk it backwards.
- `outbox_race`: `claim` looks at the lock, not at whether the record is settled.
- `smtp_multiline`: `settleIfComplete` looks at the first line of the buffer only.
- `shutdown_loss`: the unreferenced timer between two attempts does not keep the
  process alive.

The models show more things without a run of their own, as exceptions their
properties name or as behaviours:

- A repeated inbound webhook publishes `InboundMessageReceived` again, since inbound
  ids are not stored (`LookupMapping` finds no row for one), although
  `webhook.service.ts:40-41` calls the processing idempotent.
- When the greeting of an SMTP server does not come, `open` throws before there is
  a session to close, and the socket stays open (the exception in `SessionReleased`).
- Two outbox workers that are always slower than `STALE_LOCK_MS` may take each
  other's locks over for ever.
- A timeout of Evolution, or of a reply in an SMTP session, is answered with 502:
  the transport's text says "timed out" and `toDeliveryException` looks for
  "TIMEOUT". `KnownTimeout` says which timeouts are a 504. A failing greeting or reply
  of the server whose text has the word is a 504 in turn.
- A field that is `null` passes `@IsOptional()`; `validateChannelFields` then asks for
  its length, and the client is answered with 500 (`LengthOfNull`). Nothing was sent,
  which is what `AnswerTellsEffect` says of a 500.
- A write to an SMTP server that has stopped reading has no timer, no more than the TLS
  handshake, and keeps the send for ever; a shutdown in the meantime waits for it (the
  exceptions in `SendEnds` and `StartAndShutdownEnd`).
- A webhook's `x-signature` hides its `x-evolution-signature`, and its `apikey` its
  `x-api-key`, even if the hidden one is right.
- `readEnv` does not require `STALWART_FROM_ADDRESS`, without which the adapter
  refuses every mail while its health is fine, so that no fallback is tried (the
  exception in `ValidatedConfigSends`). A subject or sender of spaces passes the
  validation and ends in the same refusal.
- If Resend answers 200 without an id, a message that goes out is reported as
  `RESEND_REQUEST_REJECTED`; the code is therefore not in `NothingSent`. A 503 can
  mean that nothing was sent, or that the message was sent and not stored.
- With Stalwart as primary but disabled, the e-mail channel does not exist, even
  with a fallback.
- A database that neither accepts nor refuses the connection keeps the start
  waiting (the exception in `StartAndShutdownEnd`), although
  `analytics-outbox.worker.ts:65-67` expects the listener not to be delayed by one.

## 4. Proofs

`MessageGatewayProofs` proves, for any sets of messages, provider ids, requests
and webhooks and any number of faults:

- `Invariance`: `IndInv` holds in every reachable state. Its parts beyond the
  properties are what a handler in flight still knows: a request whose message
  was accepted holds the provider id under which the provider keeps it
  (`AcceptedInput`); a stored mapping names the message the provider accepted
  (`MappingAgreesWithProvider`); a webhook about to write has found that row,
  which is never deleted, validated the step from the status it saw, and the fact
  of that status is in the outbox (`ValidatedUpdate`). The last part is what makes
  `ReadFactNeedsDeliveredFact` inductive although the stored status may have moved
  on: READ is only reachable from DELIVERED, and DELIVERED was seen in the store.
- `StoredStatusTheorem`, `ReadFactTheorem`, `EventTheorem`, `TypeCorrectness`:
  consequences.
- `MappingTheorem`: no step takes a mapping away or gives it another provider id.
  The three steps that write the table insert where there was nothing, or change the
  status alone.
- `SentTheorem`, with the strengthening `SentKnown`: an answered send keeps its id,
  and its row stays.
- `FactsTheorem`: a webhook that has come as far as the store is a receipt
  (`WebhookKinds`), and a send in the delivery log has its answer and will not
  change (`LogAnswered`), so the cause of a fact does not go away.
- `SkippedTheorem`: a webhook is skipped for a status that is stored already, and
  `StatusHasEvent` says of every stored status that the webhook which stored it has
  published its event or is about to. This needs `faults = 0`, in the state before too.
- `SerialLifecycle`: if webhooks are handled one at a time, every step implements
  a step of `MessageLifecycle` or a stutter; `SerialInv` says why: the validated
  status is still the stored one.

They use the assumptions `GatewayAssumption` and `NoneIsNoMapping` only.

`OutboxWorkerProofs` proves, for any number of instances, records and faults:

- `OutboxInvariance`: `IndInv` holds. `BatchKnows` says what a batch in flight may
  believe: the lock of the record it works on is its own unless the record is in
  the history `stolen`, the attempts it read are at most the failures
  recorded, and a success it is about to write was acknowledged. `RowJustified`
  says the same of the rows. Both are needed because results are written by id:
  an instance that lost its lock still writes, from an old read.
- `PublishedTheorem`, `DeadLetterTheorem`, `ClaimTheorem`: consequences.
- `OneInstanceUnsettled`, `NotSentAgainTheorem`, `OneInstanceImplements`: under
  the assumption that there is one instance, no record of its batch is settled, so
  nothing is sent again and the safety part of `OutboxContract` is implemented.
  With two instances this is false (`outbox_race`).

The type part of the invariant leaves the waiting time of a row open: it comes
from a power of two, of which the provers know too little, and nothing rests on it.

`EventBusProofs` proves `BusInvariance` (queue, stored resolve function, closing
flag and generator of each subscriber fit together), `NoLostWakeupTheorem`, and
`BusImplementsChannels`: every step of the bus is a step of `EventChannels` or a
stutter. The argument is that events handed over and events queued, in this order,
are what the consumer has yet to take, and a resolve function is stored only while
both are empty.

`ProviderSelectionProofs` proves, for any sends, health queries and changes of
health, and for every environment: `TypesPreserved` (the resolver never tries a
candidate past its list), `FallbackIsEarned`, `OneProviderTakes` and
`HealthySawEachUp`. The invariant behind them, `IndInv`, says of a send that every
provider that is down now was down during it, and so was every candidate it has
passed over (`SendKnows`); and of a query that it has counted at most the
providers that have answered, and saw each of them up if it counted them all
(`QueryKnows`). That a fallback comes second rests on the shape of the
configuration: at most one primary, at most one fallback, never the same
(`CandidateShape`, `FallbackIsSecond`).

`MessageApiProofs` proves, for any sends, queries, webhooks, ids and faults, and for
every environment:

- `ApiSelects`: every step of the interface is a step of `ProviderSelection` or
  leaves its state alone; `ApiFallbackIsEarned` and `ApiHealthySawEachUp` follow.
- `ApiImplementsStore`: the same of `MessageGateway` with overlapping webhooks, of
  which the theorems of `MessageGatewayProofs` therefore hold. The one thing the
  store takes from its caller is the id and the kind of tenant of a request, and
  `SendLinks` says that these are members of its types.
- `MappingsFiledUnderHolder`: who handed out the id in hand is, while the response is
  under way, the candidate that was chosen, and then the provider that the response
  names (`SendLinks`); of a row it is the provider it is filed under (`RowLinks`).
- `WebhooksAreAuthentic`: verification tries every configured secret and refuses
  when there is none.

`AnswerProofs` extends the invariant by what a send will answer with
(`AnswerLinks`): the error of a failed attempt is one that an adapter can give in this
case (`FailureShown`, by a lemma over every outcome of the three adapters), a
request that saves was taken by the provider that its response names, and
an answer once given tells the truth for good: sends do not change it, and rows
are never deleted. A 500 is the answer to a field that is null and comes before any provider is looked
for (`RefusalTells`). `AnswersTellTheirEffect` and `StrictConfigSends` follow; the
second also needs that what `readEnv` requires of a production environment is
what the adapters in use look for (`StrictProviders`).

`StoreHoldsOverHttp` carries the theorems of the store over to the interface.
`MessageApiProofs` shows that every step of `MessageApi` is one of the `MessageGateway`
inside it or leaves the store alone; `Store` is `MessageGatewayProofs` with the
interface's constants (`ApiStore`), and `SameProperties` that its properties are those of
`Core`, the instance that `MessageApi` uses. So stored statuses, facts, events, causes,
sent messages, skipped receipts and the permanence of mappings need no second
proof. `ApiTypes` has the types of the interface: that every answer is a success or
one of the filter's comes from a lemma on what each operation may answer
(`ResponsesTyped`, `RefusalsDescribed`, `ExceptionsDescribed`).

They use `StoreAssumption` of `MessageApi` (the providers' ids and those of foreign
messages are apart, and `None` is neither an id nor a mapping), which is
`GatewayAssumption` and `NoneIsNoMapping` for the constants of the interface.

`LifecycleProofs` proves, of the whole of start, forwarding and shutdown, for any
sets of events and any bounds on events and attempts, and for all that the services,
the broker and the database may do: `LifecycleInvariant`, and as consequences
`LifecycleTypes`, `AccountsTheorem`, `OrderTheorem`, `LossTheorem`, `MirrorTheorem`,
`QuietTheorem` and `ServerTheorem`. The invariant has four parts.

- `LoopInv`, for each loop of the forwarder: an event is published once, so an event
  names its place in the log (`LogOnce`); the loop has dealt with a prefix of the log,
  holds the next event, and its queue is the rest (`Accounted`, by position rather
  than by concatenation, which the provers handle worse); nothing of an event behind
  that prefix has reached the service or is on its way there (`NothingAhead`); a
  success under way means that the service has the event (`SuccessArrived`). Together
  they make `InOrder` inductive: a request that was given up may come to the
  service at any later time, and yet only as another copy.
- `StartedInv`: what runs was started, and no loop ends before the bus is closed.
- `PhaseInv`: what each phase of the shutdown has behind it; that the process may end
  in `exited` with events in hand only at the delay, and after the Kafka loop has
  drained, is part of it (`DrainedMeansTried`: every receipt was then given to the client).
- `MirrorInv`: the loop of the Kafka handler accounts for the receipts as the others
  do, and has ended when the producer is closed.

`SmtpSessionProofs` proves `SessionInvariant` for every configuration, for
capabilities of any length, any number of tokens issued to other sends and any
faults, and from it `SessionTypes`, `RepliesTheorem`, `AcceptedTheorem`,
`TokenTheorem` and `ReleaseTheorem`. The invariant is about the stream `buffer \o
wire` and does not say where it is cut: what is in it is what the server may have
answered to the current command (`Expected`): one reply, or the challenge of
`AUTH XOAUTH2` and then a reply, or the first lines of a reply of several lines on
which the client is stuck. Between two commands the stream is empty and the server
owes nothing (`StreamInv`), which is why no reply is taken for that to another
command. `TokenInv` rests on tokens being issued in ascending order: after a
rejection the cache is empty or holds a newer one. `MailInv` says at which commands
the server can have the mail.

Model-checked but not proved: all liveness (`SendEnds`, `StartAndShutdownEnd`,
`RequestsAnswered` and the fairness of `ContractSpec` and `ChannelsSpec`, of which
the safety parts are proved), which is out of reach of the prover. Every invariant
that a passing run checks is a theorem.

## 5. Not modelled, and the plan

Not modelled:

- parsing and formatting: MIME messages, JSON documents, numbers and URLs of the
  environment, digests and their constant-time comparison (a credential is right
  or wrong), log lines and correlation ids;
- `enableProvider`, `disableProvider` and `incrementRetry`, which have no caller,
  and the search for a header `apiKey`, which lower-cased names never match;
- the listings over HTTP and GraphQL and the health of a single provider (reads;
  the health query of all of them is in `ProviderSelection`), CORS, the banner;
- the shutdown of the providers: `ProviderLifecycle` closes those that have a
  `close`, and none has one, although its comment speaks of an SMTP socket kept
  between messages; a session ends with its send;
- a failure to start the forwarder or the Kafka handler, which `events.module.ts` catches:
  their `start` cannot throw;
- a signal in the middle of a start, which the framework decides about.

Next, in this order:

1. An abstract specification of a notification channel that `EventForwarder`
   implements: every accepted event is settled once, in order.
2. The outbox worker's batch inside the shutdown, record by record: attempts that
   a closed producer costs.
