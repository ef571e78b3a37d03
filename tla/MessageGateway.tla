--------------------------- MODULE MessageGateway ---------------------------
(***************************************************************************)
(* The core of the gateway: HTTP send requests (MessagesService.send and   *)
(* the dispatcher) and provider webhooks (WebhookService) over one message *)
(* mapping store with its transactional analytics outbox.                  *)
(*                                                                         *)
(* One action is the code between two awaits: a handler runs alone until   *)
(* it waits for the provider or for PostgreSQL, and any other handler, of  *)
(* this process or of another instance, may run meanwhile.  A store call   *)
(* is one step, because every one of them is a single statement or a       *)
(* transaction.                                                            *)
(*                                                                         *)
(* One tenant is modelled, so an outbox deduplication key is the pair of   *)
(* message id and status.                                                  *)
(***************************************************************************)
EXTENDS DeliveryLifecycle, Naturals

CONSTANTS
  MessageIds,     \* internal ids; a client that retries repeats one
  ProviderIds,    \* provider message ids, handed out once each
  ForeignIds,     \* provider ids of messages the gateway never sent
  Requests,       \* HTTP send requests
  Deliveries,     \* webhook deliveries
  SerialWebhooks, \* TRUE: the providers send one webhook at a time
  MaxFaults,      \* bound on crashes and ambiguous commits
  None

ASSUME GatewayAssumption ==
  /\ ProviderIds \cap ForeignIds = {}
  /\ SerialWebhooks \in BOOLEAN
  /\ MaxFaults \in Nat
  /\ None \notin MessageIds \cup ProviderIds \cup ForeignIds \cup DeliveryStatus

VARIABLES
  request,     \* request[r]: progress and input of a send request
  accepted,    \* accepted[pid]: the message the provider took under pid
  mapping,     \* mapping[id]: the row message_mapping of id, or None
  deliveryLog, \* requests with a FAILED row in delivery_log
  outbox,      \* keys <<id, status>> in analytics_outbox
  delivery,    \* delivery[d]: progress and content of a webhook
  faults

vars == <<request, accepted, mapping, deliveryLog, outbox, delivery, faults>>

-----------------------------------------------------------------------------
(* Types *)

\* The statuses the Evolution mapper produces for a receipt.
ReceiptStatuses == {"READ", "DELIVERED", "FAILED", "SENT", "UNKNOWN"}

\* The statuses that are analytics facts.
FactStatuses == {"DELIVERED", "READ", "FAILED"}

RequestInFlight == {"dispatching", "accepted", "saving", "recording"}
RequestAnswered == {"rejected", "sent", "badGateway", "unavailable", "crashed"}

DeliveryInFlight == {"lookup", "update", "publish"}
DeliveryAnswered ==
  {"refused", "skipped", "conflict", "error", "acked", "crashed"}

Request == [pc  : {"new"} \cup RequestInFlight \cup RequestAnswered,
            id  : MessageIds \cup {None},
            pid : ProviderIds \cup {None},
            v4  : BOOLEAN]

Mapping == [pid : ProviderIds, status : DeliveryStatus]

ASSUME NoneIsNoMapping == None \notin Mapping

Delivery == [pc     : {"new"} \cup DeliveryInFlight \cup DeliveryAnswered,
             kind   : {"receipt", "inbound", None},
             pid    : ProviderIds \cup ForeignIds \cup {None},
             status : ReceiptStatuses \cup {None},
             seen   : DeliveryStatus \cup {None}]

-----------------------------------------------------------------------------
(* The store *)

\* The message ids whose row carries pid: at most one, the column is unique.
RowsOf(pid) == {id \in MessageIds : mapping[id] # None /\ mapping[id].pid = pid}

\* Mutations of the upsert below: only terminal receipts are facts, every
\* status is one.
EnqueueFailuresOnly(id, status) ==
  outbox' = IF status = "FAILED" THEN outbox \cup {<<id, status>>} ELSE outbox

EnqueueUnfiltered(id, status) == outbox' = outbox \cup {<<id, status>>}

\* The upsert of a fact inside the transaction that stores the status.
Enqueue(id, status) ==
  outbox' = IF status \in FactStatuses THEN outbox \cup {<<id, status>>}
                                       ELSE outbox

\* A transaction is committed or not, and is reported as such unless the
\* connection is lost after COMMIT, which counts as a fault.
Reported(committed, ok) ==
  /\ ok => committed
  /\ IF committed /\ ~ok
       THEN faults < MaxFaults /\ faults' = faults + 1
       ELSE UNCHANGED faults

Init ==
  /\ request = [r \in Requests |->
                  [pc |-> "new", id |-> None, pid |-> None, v4 |-> FALSE]]
  /\ accepted = [pid \in ProviderIds |-> None]
  /\ mapping = [id \in MessageIds |-> None]
  /\ deliveryLog = {}
  /\ outbox = {}
  /\ delivery = [d \in Deliveries |->
                   [pc |-> "new", kind |-> None, pid |-> None,
                    status |-> None, seen |-> None]]
  /\ faults = 0

-----------------------------------------------------------------------------
(* Sending *)

\* Validation, address resolution, tenant check, unknown channel or no healthy
\* provider: the request is answered before anything was sent.
RejectRequest(r) ==
  /\ request[r].pc = "new"
  /\ request' = [request EXCEPT ![r].pc = "rejected"]
  /\ UNCHANGED <<accepted, mapping, deliveryLog, outbox, delivery, faults>>

\* A valid request goes to the provider.  The tenant header may be absent or a
\* UUID of another version than 4: the controller accepts it, the store will not.
DispatchRequest(r, id, v4) ==
  /\ request[r].pc = "new"
  /\ request' = [request EXCEPT ![r] =
                   [pc |-> "dispatching", id |-> id, pid |-> None, v4 |-> v4]]
  /\ UNCHANGED <<accepted, mapping, deliveryLog, outbox, delivery, faults>>

\* The provider takes the message; from here on it may send receipts for it.
ProviderAccepts(r, pid) ==
  /\ request[r].pc = "dispatching"
  /\ accepted[pid] = None
  /\ accepted' = [accepted EXCEPT ![pid] = request[r].id]
  /\ request' = [request EXCEPT ![r].pc = "accepted", ![r].pid = pid]
  /\ UNCHANGED <<mapping, deliveryLog, outbox, delivery, faults>>

\* An error status, a transport error or a timeout before the message is taken.
ProviderRefuses(r) ==
  /\ request[r].pc = "dispatching"
  /\ request' = [request EXCEPT ![r].pc = "recording"]
  /\ UNCHANGED <<accepted, mapping, deliveryLog, outbox, delivery, faults>>

\* The answer of the provider: success with an id, success without one (no
\* mapping can be stored), or lost to a timeout or an unreadable body.
ProviderAnswers(r) ==
  /\ request[r].pc = "accepted"
  /\ \/ request' = [request EXCEPT ![r].pc = "saving"]
     \/ request' = [request EXCEPT ![r].pc = "sent", ![r].pid = None]
     \/ request' = [request EXCEPT ![r].pc = "recording", ![r].pid = None]
  /\ UNCHANGED <<accepted, mapping, deliveryLog, outbox, delivery, faults>>

\* recordFailure: the log row and the FAILED fact in one transaction.  A tenant
\* that is no UUID v4 or a store error is swallowed: the answer is 502 or 504.
RecordFailure(r) ==
  /\ request[r].pc = "recording"
  /\ \E committed \in {FALSE, request[r].v4} :
       IF committed
         THEN /\ deliveryLog' = deliveryLog \cup {r}
              /\ Enqueue(request[r].id, "FAILED")
         ELSE UNCHANGED <<deliveryLog, outbox>>
  /\ request' = [request EXCEPT ![r].pc = "badGateway"]
  /\ UNCHANGED <<accepted, mapping, delivery, faults>>

\* Mutation of the constraints below: create turned into an upsert.
SaveableUpsert(r) == request[r].v4

\* What the insert needs: a tenant the store takes and both unique columns free.
Saveable(r) ==
  /\ request[r].v4
  /\ mapping[request[r].id] = None
  /\ RowsOf(request[r].pid) = {}

\* Mutation of the answer below: the error of the store is logged only, as
\* recordFailure does it.
SaveAnswerSwallowed(ok) == "sent"

\* An error of the store is answered with 503.
SaveAnswer(ok) == IF ok THEN "sent" ELSE "unavailable"

\* save: refused for a tenant that is no UUID v4, and by the unique internal id
\* when a retried request was sent before.
SaveMapping(r) ==
  LET id == request[r].id IN
  /\ request[r].pc = "saving"
  /\ \E committed \in {FALSE, Saveable(r)}, ok \in BOOLEAN :
       /\ Reported(committed, ok)
       /\ IF committed
            THEN /\ mapping' = [mapping EXCEPT ![id] =
                                  [pid |-> request[r].pid, status |-> "SENT"]]
                 /\ Enqueue(id, "SENT")
            ELSE UNCHANGED <<mapping, outbox>>
       /\ request' = [request EXCEPT ![r].pc = SaveAnswer(ok)]
  /\ UNCHANGED <<accepted, deliveryLog, delivery>>

CrashRequest(r) ==
  /\ request[r].pc \in RequestInFlight
  /\ faults < MaxFaults
  /\ faults' = faults + 1
  /\ request' = [request EXCEPT ![r].pc = "crashed"]
  /\ UNCHANGED <<accepted, mapping, deliveryLog, outbox, delivery>>

-----------------------------------------------------------------------------
(* Webhooks *)

\* Unknown provider, failed verification, or an event of no interest.
RefuseWebhook(d) ==
  /\ delivery[d].pc = "new"
  /\ delivery' = [delivery EXCEPT ![d].pc = "refused"]
  /\ UNCHANGED <<request, accepted, mapping, deliveryLog, outbox, faults>>

\* The provider reports on a message it holds, in any order and repeatedly.
AcceptWebhook(d, kind, pid, status) ==
  /\ delivery[d].pc = "new"
  /\ SerialWebhooks =>
       \A e \in Deliveries : delivery[e].pc \notin DeliveryInFlight
  /\ pid \in ForeignIds \cup {p \in ProviderIds : accepted[p] # None}
  /\ delivery' = [delivery EXCEPT ![d] =
                    [pc |-> "lookup", kind |-> kind, pid |-> pid,
                     status |-> status, seen |-> None]]
  /\ UNCHANGED <<request, accepted, mapping, deliveryLog, outbox, faults>>

ReceiveWebhook(d) ==
  \E pid \in ProviderIds \cup ForeignIds :
    \/ AcceptWebhook(d, "inbound", pid, None)
    \/ \E status \in ReceiptStatuses : AcceptWebhook(d, "receipt", pid, status)

\* Mutations of the decision below: the guard of the lifecycle dropped, an
\* invalid receipt answered like a duplicate, the event before the store.
AfterLookupUnguarded(d, current) ==
  IF current = None THEN "publish"
  ELSE IF delivery[d].kind = "inbound" \/ current = delivery[d].status
    THEN "skipped"
  ELSE "update"

AfterLookupLenient(d, current) ==
  IF current = None THEN "publish"
  ELSE IF delivery[d].kind = "receipt" /\ current # delivery[d].status
          /\ IsValidTransition(current, delivery[d].status)
    THEN "update"
  ELSE "skipped"

AfterLookupPublishFirst(d, current) ==
  IF delivery[d].kind = "inbound" /\ current # None THEN "skipped"
  ELSE "publish"

\* What a handler decides from the row it read, in the same turn.
AfterLookup(d, current) ==
  IF current = None THEN "publish"
  ELSE IF delivery[d].kind = "inbound" \/ current = delivery[d].status
    THEN "skipped"
  ELSE IF IsValidTransition(current, delivery[d].status) THEN "update"
  ELSE "conflict"

\* findByProviderAndProviderMessageId and the decision; a store error is a 500.
LookupMapping(d) ==
  LET rows == RowsOf(delivery[d].pid)
      current == IF rows = {} THEN {None} ELSE {mapping[id].status : id \in rows}
  IN
  /\ delivery[d].pc = "lookup"
  /\ \/ delivery' = [delivery EXCEPT ![d].pc = "error"]
     \/ \E seen \in current :
          delivery' = [delivery EXCEPT ![d].pc = AfterLookup(d, seen),
                                       ![d].seen = seen]
  /\ UNCHANGED <<request, accepted, mapping, deliveryLog, outbox, faults>>

\* updateStatus writes the status of the receipt, whatever is stored by now, and
\* its fact, in one transaction.  The row is there: nothing deletes one.
UpdateStatus(d) ==
  /\ delivery[d].pc = "update"
  /\ \E committed \in BOOLEAN, ok \in BOOLEAN :
       /\ Reported(committed, ok)
       /\ IF committed
            THEN \E id \in RowsOf(delivery[d].pid) :
                   /\ mapping' = [mapping EXCEPT ![id].status =
                                    delivery[d].status]
                   /\ Enqueue(id, delivery[d].status)
            ELSE UNCHANGED <<mapping, outbox>>
       /\ delivery' = [delivery EXCEPT ![d].pc =
                         IF ok THEN "publish" ELSE "error"]
  /\ UNCHANGED <<request, accepted, deliveryLog>>

\* The event goes on the in-process bus and the webhook is answered with 200.
PublishEvent(d) ==
  /\ delivery[d].pc = "publish"
  /\ delivery' = [delivery EXCEPT ![d].pc = "acked"]
  /\ UNCHANGED <<request, accepted, mapping, deliveryLog, outbox, faults>>

CrashWebhook(d) ==
  /\ delivery[d].pc \in DeliveryInFlight
  /\ faults < MaxFaults
  /\ faults' = faults + 1
  /\ delivery' = [delivery EXCEPT ![d].pc = "crashed"]
  /\ UNCHANGED <<request, accepted, mapping, deliveryLog, outbox>>

-----------------------------------------------------------------------------

SendStep(r) ==
  \/ RejectRequest(r)
  \/ \E id \in MessageIds, v4 \in BOOLEAN : DispatchRequest(r, id, v4)
  \/ \E pid \in ProviderIds : ProviderAccepts(r, pid)
  \/ ProviderRefuses(r)
  \/ ProviderAnswers(r)
  \/ RecordFailure(r)
  \/ SaveMapping(r)
  \/ CrashRequest(r)

WebhookStep(d) ==
  \/ RefuseWebhook(d)
  \/ ReceiveWebhook(d)
  \/ LookupMapping(d)
  \/ UpdateStatus(d)
  \/ PublishEvent(d)
  \/ CrashWebhook(d)

\* Everything is answered.  A state without a step that is not this one is a
\* handler that hangs, which TLC reports as a deadlock.
AllAnswered ==
  /\ \A r \in Requests : request[r].pc \in RequestAnswered
  /\ \A d \in Deliveries : delivery[d].pc \in DeliveryAnswered
  /\ UNCHANGED vars

Next ==
  \/ \E r \in Requests : SendStep(r)
  \/ \E d \in Deliveries : WebhookStep(d)
  \/ AllAnswered

Spec == Init /\ [][Next]_vars

-----------------------------------------------------------------------------
(* Properties *)

\* Types of the requests and webhooks in flight, of the tables and of what the
\* provider took.
TypeOK ==
  /\ request \in [Requests -> Request]
  /\ accepted \in [ProviderIds -> MessageIds \cup {None}]
  /\ mapping \in [MessageIds -> Mapping \cup {None}]
  /\ deliveryLog \subseteq Requests
  /\ outbox \subseteq MessageIds \X FactStatuses
  /\ delivery \in [Deliveries -> Delivery]
  /\ faults \in 0..MaxFaults

Stored(id) == mapping[id] # None

\* A stored status that is an analytics fact has its fact in the outbox, however
\* receipts, failures and crashes interleave: save and updateStatus write both
\* in one transaction.
StoredStatusHasFact ==
  \A id \in MessageIds :
    Stored(id) /\ mapping[id].status \in FactStatuses
      => <<id, mapping[id].status>> \in outbox

\* Analytics never counts a read that was not counted as delivered before, even
\* when two receipts are validated against the same stale status: READ is only
\* reachable from DELIVERED, and DELIVERED was stored with its fact.
ReadFactNeedsDeliveredFact ==
  \A id \in MessageIds :
    <<id, "READ">> \in outbox => <<id, "DELIVERED">> \in outbox

\* A fact is never invented: it was reported by a receipt for a message the
\* provider took, or it is the failure of a send that is in the delivery log.
FactsHaveCause ==
  \A id \in MessageIds, status \in DeliveryStatus : <<id, status>> \in outbox =>
    \/ status = "FAILED" /\ \E r \in deliveryLog : request[r].id = id
    \/ \E d \in Deliveries :
         /\ delivery[d].kind = "receipt" /\ delivery[d].status = status
         /\ delivery[d].pid \in ProviderIds /\ accepted[delivery[d].pid] = id

\* When processReceipt publishes MessageDelivered for a message it found in the
\* store, the fact is already there: consumers never see an event that a crash
\* can still take back from analytics.
EventFollowsStore ==
  \A d \in Deliveries :
    /\ delivery[d].pc = "acked" /\ delivery[d].seen # None
    /\ delivery[d].status \in FactStatuses
    => <<accepted[delivery[d].pid], delivery[d].status>> \in outbox

\* A receipt skipped as a duplicate has a twin that reaches the bus, unless
\* there was a crash or an ambiguous commit between store and event: with one,
\* the event is lost, because the redelivered webhook is skipped.
SkippedReceiptReachesBus ==
  faults = 0 =>
    \A d \in Deliveries :
      /\ delivery[d].pc = "skipped" /\ delivery[d].kind = "receipt"
      /\ delivery[d].status \in FactStatuses
      => \E e \in Deliveries :
           /\ delivery[e].pc \in {"publish", "acked"}
           /\ delivery[e].kind = "receipt"
           /\ delivery[e].pid = delivery[d].pid
           /\ delivery[e].status = delivery[d].status

\* send answers 200 with a provider id only when receipts for that id will find
\* the mapping.
SentMeansStored ==
  \A r \in Requests :
    request[r].pc = "sent" /\ request[r].pid # None
      => Stored(request[r].id) /\ mapping[request[r].id].pid = request[r].pid

\* The inductive invariant behind the theorems of MessageGatewayProofs.
InputKnown ==
  \A r \in Requests : request[r].pc \in RequestInFlight => request[r].id \in MessageIds

AcceptedInput ==
  \A r \in Requests : request[r].pc \in {"accepted", "saving"} =>
    request[r].pid \in ProviderIds /\ accepted[request[r].pid] = request[r].id

MappingAgreesWithProvider ==
  \A id \in MessageIds : Stored(id) => accepted[mapping[id].pid] = id

\* What a handler that found the row still knows when it comes to write.
FoundRow(d) ==
  /\ delivery[d].pid \in ProviderIds
  /\ accepted[delivery[d].pid] \in MessageIds
  /\ Stored(accepted[delivery[d].pid])
  /\ mapping[accepted[delivery[d].pid]].pid = delivery[d].pid

ValidatedUpdate ==
  \A d \in Deliveries : delivery[d].pc = "update" =>
    /\ FoundRow(d)
    /\ delivery[d].seen \in DeliveryStatus
    /\ delivery[d].status \in ReceiptStatuses \ {delivery[d].seen}
    /\ IsValidTransition(delivery[d].seen, delivery[d].status)
    /\ delivery[d].seen \in FactStatuses =>
         <<accepted[delivery[d].pid], delivery[d].seen>> \in outbox

UpdatedEvent ==
  \A d \in Deliveries :
    /\ delivery[d].pc \in {"publish", "acked"}
    /\ delivery[d].seen # None /\ delivery[d].status \in FactStatuses
    => /\ delivery[d].pid \in ProviderIds
       /\ <<accepted[delivery[d].pid], delivery[d].status>> \in outbox

\* What the sends know, and what the store and the webhooks know.
SendInv == InputKnown /\ AcceptedInput

StoreInv ==
  /\ MappingAgreesWithProvider
  /\ ValidatedUpdate
  /\ UpdatedEvent
  /\ StoredStatusHasFact
  /\ ReadFactNeedsDeliveredFact

\* The conjunction holds in every state; it adds to the properties above what
\* the handlers in flight know of the store and of the provider.
IndInv == TypeOK /\ SendInv /\ StoreInv

\* A stored mapping keeps its provider id: a client that retries a send, which
\* sends again, never cuts off the receipts of the first send.
MappingNeverReplaced ==
  [][\A id \in MessageIds :
       Stored(id) => Stored(id)' /\ mapping'[id].pid = mapping[id].pid]_mapping

\* What the lifecycle sees of the store.
StoredStatus ==
  [id \in MessageIds |-> IF mapping[id] = None THEN None ELSE mapping[id].status]

Lifecycle == INSTANCE MessageLifecycle WITH status <- StoredStatus

\* The stored statuses implement the lifecycle: what the domain service refuses
\* never happens to a stored message.  It holds for webhooks that are handled
\* one at a time.
LifecycleSpec == Lifecycle!Spec

\* Why: one webhook in flight, whose validated status is still the stored one.
SerialInv ==
  /\ \A d, e \in Deliveries :
       /\ delivery[d].pc \in DeliveryInFlight
       /\ delivery[e].pc \in DeliveryInFlight
       => d = e
  /\ \A d \in Deliveries : delivery[d].pc = "update" =>
       mapping[accepted[delivery[d].pid]].status = delivery[d].seen

\* Each step of a stored status is one the lifecycle allows: what the tests say
\* of the service.  It fails when two receipts for one message overlap, because
\* updateStatus does not compare with the status that was validated.
StatusNeverWalksBackwards ==
  [][\A id \in MessageIds : Stored(id) =>
       IsValidTransition(mapping[id].status, mapping'[id].status)]_mapping

=============================================================================
