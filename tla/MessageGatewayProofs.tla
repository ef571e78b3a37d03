------------------------ MODULE MessageGatewayProofs ------------------------
(***************************************************************************)
(* Theorems about MessageGateway, for any numbers of messages, requests,   *)
(* webhooks and faults, proved from the inductive invariant IndInv.        *)
(***************************************************************************)
EXTENDS MessageGateway, TLAPS

\* The types of the statuses: every value named in the actions is one of them.
LEMMA StatusFacts ==
  /\ FactStatuses \subseteq DeliveryStatus
  /\ ReceiptStatuses \subseteq DeliveryStatus
  /\ None \notin DeliveryStatus
  /\ None \notin MessageIds
  /\ None \notin ProviderIds
BY GatewayAssumption DEF FactStatuses, ReceiptStatuses, DeliveryStatus

\* A mapping row is a record, never the absent value; so a stored row has a pid.
LEMMA StoredRow ==
  ASSUME TypeOK, NEW id \in MessageIds, Stored(id)
  PROVE  mapping[id] \in Mapping
BY DEF TypeOK, Stored

\* The lifecycle leads from statuses to statuses, and to READ from DELIVERED only.
LEMMA TransitionFacts ==
  ASSUME NEW current \in DeliveryStatus, NEW next, IsValidTransition(current, next)
  PROVE  /\ next \in DeliveryStatus
         /\ next = "READ" /\ current # "READ" => current = "DELIVERED"
BY DEF IsValidTransition, ValidTransitions, DeliveryStatus

\* The row a lookup or an update finds belongs to the message the provider took.
LEMMA RowIsAccepted ==
  ASSUME IndInv, NEW pid, NEW id \in RowsOf(pid)
  PROVE  /\ id \in MessageIds /\ Stored(id) /\ mapping[id] \in Mapping
         /\ pid \in ProviderIds /\ mapping[id].pid = pid /\ accepted[pid] = id
BY StoredRow DEF RowsOf, IndInv, StoreInv, MappingAgreesWithProvider, Stored,
                 Mapping

\* The gateway starts with an empty store and nothing in flight.
LEMMA InitIndInv == Init => IndInv
<1> SUFFICES ASSUME Init PROVE IndInv
  OBVIOUS
<1> USE DEF Init
<1>1. TypeOK
  BY GatewayAssumption DEF TypeOK, Request, Delivery
<1>2. InputKnown /\ AcceptedInput
  BY DEF InputKnown, AcceptedInput, RequestInFlight
<1>3. MappingAgreesWithProvider /\ StoredStatusHasFact
  BY DEF MappingAgreesWithProvider, StoredStatusHasFact, Stored
<1>4. ValidatedUpdate /\ UpdatedEvent
  BY DEF ValidatedUpdate, UpdatedEvent
<1>5. ReadFactNeedsDeliveredFact
  BY DEF ReadFactNeedsDeliveredFact
<1>6. QED
  BY <1>1, <1>2, <1>3, <1>4, <1>5 DEF IndInv, SendInv, StoreInv

-----------------------------------------------------------------------------
(* Frame lemmas: what a step that leaves the store, or the sends, alone keeps. *)

\* A step of a send that does not reach the store keeps all that is known of it.
LEMMA StoreUntouched ==
  ASSUME StoreInv, UNCHANGED <<accepted, mapping, outbox, delivery>>
  PROVE  StoreInv'
BY DEF StoreInv, MappingAgreesWithProvider, ValidatedUpdate, FoundRow,
       UpdatedEvent, StoredStatusHasFact, ReadFactNeedsDeliveredFact, Stored

\* A step of a webhook keeps what the sends in flight know.
LEMMA SendsUntouched ==
  ASSUME SendInv, UNCHANGED <<request, accepted>>
  PROVE  SendInv'
BY DEF SendInv, InputKnown, AcceptedInput

\* Replacing one send by another well-typed one keeps the type of all sends.
LEMMA RequestReplaced ==
  ASSUME TypeOK, NEW r \in Requests, NEW new \in Request,
         request' = [request EXCEPT ![r] = new]
  PROVE  request' \in [Requests -> Request]
BY DEF TypeOK

\* The same for webhooks.
LEMMA DeliveryReplaced ==
  ASSUME TypeOK, NEW d \in Deliveries, NEW new \in Delivery,
         delivery' = [delivery EXCEPT ![d] = new]
  PROVE  delivery' \in [Deliveries -> Delivery]
BY DEF TypeOK

\* A counted fault stays within the bound.
LEMMA FaultCounted ==
  ASSUME TypeOK, NEW committed \in BOOLEAN, NEW ok \in BOOLEAN,
         Reported(committed, ok)
  PROVE  faults' \in 0..MaxFaults
BY GatewayAssumption DEF TypeOK, Reported

-----------------------------------------------------------------------------
(* Steps of a send. *)

\* Rejecting a request changes nothing but its progress.
LEMMA RejectRequestKeeps ==
  ASSUME IndInv, NEW r \in Requests, RejectRequest(r)
  PROVE  IndInv'
<1> USE DEF IndInv, RejectRequest
<1>1. TypeOK'
  BY DEF TypeOK, Request, RequestAnswered
<1>2. SendInv'
  BY DEF SendInv, InputKnown, AcceptedInput, TypeOK, Request, RequestInFlight
<1>3. QED
  BY <1>1, <1>2, StoreUntouched

\* Dispatching fixes the message id, which stays known while the send runs.
LEMMA DispatchRequestKeeps ==
  ASSUME IndInv, NEW r \in Requests, NEW id \in MessageIds, NEW v4 \in BOOLEAN,
         DispatchRequest(r, id, v4)
  PROVE  IndInv'
<1> USE DEF IndInv, DispatchRequest
<1>1. TypeOK'
  BY DEF TypeOK, Request, RequestInFlight
<1>2. SendInv'
  BY DEF SendInv, InputKnown, AcceptedInput, TypeOK, Request
<1>3. QED
  BY <1>1, <1>2, StoreUntouched

\* A provider id is handed out once, so no row and no receipt uses it yet.
LEMMA ProviderAcceptsKeeps ==
  ASSUME IndInv, NEW r \in Requests, NEW pid \in ProviderIds,
         ProviderAccepts(r, pid)
  PROVE  IndInv'
<1> USE DEF IndInv, ProviderAccepts
<1>1. request[r].id \in MessageIds
  BY DEF SendInv, InputKnown, RequestInFlight
<1>2. TypeOK'
  <2> DEFINE new == [request[r] EXCEPT !.pc = "accepted", !.pid = pid]
  <2>1. new \in Request
    <3>1. request[r] \in Request
      BY DEF TypeOK
    <3>2. "accepted" \in RequestInFlight
      BY DEF RequestInFlight
    <3>3. QED
      BY <3>1, <3>2 DEF Request
  <2>2. request \in [Requests -> Request]
    BY DEF TypeOK
  <2>3. request' = [q \in Requests |-> IF q = r THEN new ELSE request[q]]
    BY <2>2
  <2>4. request' \in [Requests -> Request]
    BY <2>1, <2>2, <2>3
  <2>5. QED
    BY <1>1, <2>4 DEF TypeOK
<1>3. SendInv'
  BY StatusFacts, <1>1 DEF SendInv, InputKnown, AcceptedInput, TypeOK, Request,
                           RequestInFlight
<1>4. StoreInv'
  <2>1. MappingAgreesWithProvider'
    BY StatusFacts, StoredRow
    DEF StoreInv, MappingAgreesWithProvider, Stored, TypeOK, Mapping
  <2>2. ValidatedUpdate'
    BY StatusFacts DEF StoreInv, ValidatedUpdate, FoundRow, Stored, TypeOK
  <2>3. UpdatedEvent'
    BY StatusFacts DEF StoreInv, UpdatedEvent, TypeOK
  <2>4. StoredStatusHasFact' /\ ReadFactNeedsDeliveredFact'
    BY DEF StoreInv, StoredStatusHasFact, ReadFactNeedsDeliveredFact, Stored
  <2>5. QED
    BY <2>1, <2>2, <2>3, <2>4 DEF StoreInv
<1>5. QED
  BY <1>2, <1>3, <1>4

\* A refused send goes on to record its failure.
LEMMA ProviderRefusesKeeps ==
  ASSUME IndInv, NEW r \in Requests, ProviderRefuses(r)
  PROVE  IndInv'
<1> USE DEF IndInv, ProviderRefuses
<1>1. TypeOK'
  BY DEF TypeOK, Request, RequestInFlight
<1>2. SendInv'
  BY DEF SendInv, InputKnown, AcceptedInput, TypeOK, Request, RequestInFlight
<1>3. QED
  BY <1>1, <1>2, StoreUntouched

\* An answer leads to saving under the id that was accepted, or drops the id.
LEMMA ProviderAnswersKeeps ==
  ASSUME IndInv, NEW r \in Requests, ProviderAnswers(r)
  PROVE  IndInv'
<1> USE DEF IndInv
<1>1. PICK new \in Request :
        /\ request' = [request EXCEPT ![r] = new]
        /\ new.id = request[r].id
        /\ new.pc \in {"saving", "sent", "recording"}
        /\ new.pc = "saving" => new.pid = request[r].pid
  <2>1. CASE request' = [request EXCEPT ![r].pc = "saving"]
    <3> DEFINE new == [request[r] EXCEPT !.pc = "saving"]
    <3>1. new \in Request
      BY DEF TypeOK, Request, RequestInFlight
    <3>2. request' = [request EXCEPT ![r] = new]
      BY <2>1 DEF TypeOK
    <3>3. QED
      BY <3>1, <3>2 DEF TypeOK, Request
  <2>2. CASE request' = [request EXCEPT ![r].pc = "sent", ![r].pid = None]
    <3> DEFINE new == [request[r] EXCEPT !.pc = "sent", !.pid = None]
    <3>1. new \in Request
      BY DEF TypeOK, Request, RequestAnswered
    <3>2. request' = [request EXCEPT ![r] = new]
      BY <2>2 DEF TypeOK
    <3>3. QED
      BY <3>1, <3>2 DEF TypeOK, Request
  <2>3. CASE request' = [request EXCEPT ![r].pc = "recording", ![r].pid = None]
    <3> DEFINE new == [request[r] EXCEPT !.pc = "recording", !.pid = None]
    <3>1. new \in Request
      BY DEF TypeOK, Request, RequestInFlight
    <3>2. request' = [request EXCEPT ![r] = new]
      BY <2>3 DEF TypeOK
    <3>3. QED
      BY <3>1, <3>2 DEF TypeOK, Request
  <2>4. QED
    BY <2>1, <2>2, <2>3 DEF ProviderAnswers
<1>2. request[r].pc = "accepted"
      /\ UNCHANGED <<accepted, mapping, deliveryLog, outbox, delivery, faults>>
  BY DEF ProviderAnswers
<1>3. TypeOK'
  BY <1>1, <1>2, RequestReplaced DEF TypeOK
<1>4. SendInv'
  BY <1>1, <1>2 DEF SendInv, InputKnown, AcceptedInput, TypeOK, RequestInFlight
<1>5. QED
  BY <1>2, <1>3, <1>4, StoreUntouched

\* Recording a failure adds a FAILED fact at most: no other fact depends on it.
LEMMA RecordFailureKeeps ==
  ASSUME IndInv, NEW r \in Requests, RecordFailure(r)
  PROVE  IndInv'
<1> USE DEF IndInv, RecordFailure
<1>1. request[r].id \in MessageIds
  BY DEF SendInv, InputKnown, RequestInFlight
<1>2. /\ deliveryLog' \subseteq Requests
      /\ outbox' \in {outbox, outbox \cup {<<request[r].id, "FAILED">>}}
  BY DEF TypeOK, Enqueue, FactStatuses
<1>3. TypeOK'
  <2>1. request' \in [Requests -> Request]
    BY DEF TypeOK, Request, RequestAnswered
  <2>2. outbox' \subseteq MessageIds \X FactStatuses
    BY <1>1, <1>2 DEF TypeOK, FactStatuses
  <2>3. QED
    BY <1>2, <2>1, <2>2 DEF TypeOK
<1>4. SendInv'
  BY DEF SendInv, InputKnown, AcceptedInput, TypeOK, Request, RequestInFlight
<1>5. StoreInv'
  <2>1. MappingAgreesWithProvider' /\ StoredStatusHasFact'
    BY <1>2 DEF StoreInv, MappingAgreesWithProvider, StoredStatusHasFact, Stored
  <2>2. ValidatedUpdate' /\ UpdatedEvent'
    BY <1>2 DEF StoreInv, ValidatedUpdate, FoundRow, UpdatedEvent, Stored
  <2>3. ReadFactNeedsDeliveredFact'
    BY <1>2 DEF StoreInv, ReadFactNeedsDeliveredFact
  <2>4. QED
    BY <2>1, <2>2, <2>3 DEF StoreInv
<1>6. QED
  BY <1>3, <1>4, <1>5

\* A saved row carries the id the provider handed out for this very message.
LEMMA SaveMappingKeeps ==
  ASSUME IndInv, NEW r \in Requests, SaveMapping(r)
  PROVE  IndInv'
<1> USE DEF IndInv
<1> DEFINE id == request[r].id
<1> DEFINE row == [pid |-> request[r].pid, status |-> "SENT"]
<1>1. /\ request[r].pc = "saving"
      /\ id \in MessageIds
      /\ request[r].pid \in ProviderIds
      /\ accepted[request[r].pid] = id
  BY DEF SaveMapping, SendInv, InputKnown, AcceptedInput, RequestInFlight
<1>2. /\ request' \in [Requests -> Request]
      /\ \A q \in Requests :
           /\ request'[q].id = request[q].id
           /\ request'[q].pid = request[q].pid
           /\ q # r => request'[q].pc = request[q].pc
      /\ request'[r].pc \in {"sent", "unavailable"}
  <2>1. PICK pc \in {"sent", "unavailable"} :
          request' = [request EXCEPT ![r].pc = pc]
    BY DEF SaveMapping, SaveAnswer
  <2>2. QED
    BY <2>1 DEF TypeOK, Request, RequestAnswered
<1>3. PICK committed \in {FALSE, Saveable(r)}, ok \in BOOLEAN :
        /\ Reported(committed, ok)
        /\ IF committed
             THEN mapping' = [mapping EXCEPT ![id] = row] /\ Enqueue(id, "SENT")
             ELSE UNCHANGED <<mapping, outbox>>
  BY DEF SaveMapping
<1>4. UNCHANGED <<accepted, deliveryLog, outbox, delivery>>
  BY <1>3 DEF SaveMapping, Enqueue, FactStatuses
<1>5. \/ mapping' = mapping
      \/ mapping[id] = None /\ mapping' = [mapping EXCEPT ![id] = row]
  BY <1>3 DEF Saveable
<1>6. row \in Mapping /\ faults' \in 0..MaxFaults
  <2>1. Saveable(r) \in BOOLEAN
    BY DEF Saveable
  <2>2. QED
    BY <1>1, <1>3, <2>1, FaultCounted DEF Mapping, DeliveryStatus
<1>7. SendInv'
  <2>1. ASSUME NEW q \in Requests, request'[q].pc \in RequestInFlight
        PROVE  q # r /\ request'[q].pc = request[q].pc
    BY <1>2, <2>1 DEF RequestInFlight
  <2>2. InputKnown'
    BY <1>2, <2>1 DEF SendInv, InputKnown
  <2>3. AcceptedInput'
    BY <1>2, <1>4, <2>1 DEF SendInv, AcceptedInput, RequestInFlight
  <2>4. QED
    BY <2>2, <2>3 DEF SendInv
<1>8. CASE mapping' = mapping
  BY <1>2, <1>6, <1>4, <1>7, <1>8, StoreUntouched DEF TypeOK
<1>9. CASE mapping[id] = None /\ mapping' = [mapping EXCEPT ![id] = row]
  <2>1. TypeOK'
    BY <1>1, <1>2, <1>4, <1>6, <1>9 DEF TypeOK
  <2>2. MappingAgreesWithProvider'
    BY <1>1, <1>4, <1>9 DEF StoreInv, MappingAgreesWithProvider, Stored, TypeOK
  <2>3. ValidatedUpdate'
    BY <1>4, <1>6, <1>9 DEF StoreInv, ValidatedUpdate, FoundRow, Stored, TypeOK
  <2>4. StoredStatusHasFact'
    BY <1>4, <1>9 DEF StoreInv, StoredStatusHasFact, Stored, FactStatuses, TypeOK
  <2>5. UpdatedEvent' /\ ReadFactNeedsDeliveredFact'
    BY <1>4 DEF StoreInv, UpdatedEvent, ReadFactNeedsDeliveredFact
  <2>6. QED
    BY <1>7, <2>1, <2>2, <2>3, <2>4, <2>5 DEF StoreInv
<1>10. QED
  BY <1>5, <1>8, <1>9

\* A crash of a send loses only its progress.
LEMMA CrashRequestKeeps ==
  ASSUME IndInv, NEW r \in Requests, CrashRequest(r)
  PROVE  IndInv'
<1> USE DEF IndInv, CrashRequest
<1>1. TypeOK'
  BY GatewayAssumption DEF TypeOK, Request, RequestAnswered
<1>2. SendInv'
  BY DEF SendInv, InputKnown, AcceptedInput, TypeOK, Request, RequestInFlight
<1>3. QED
  BY <1>1, <1>2, StoreUntouched

-----------------------------------------------------------------------------
(* Steps of a webhook. *)

\* A webhook that leaves the handler without an update or an event.
LEMMA RefuseWebhookKeeps ==
  ASSUME IndInv, NEW d \in Deliveries, RefuseWebhook(d)
  PROVE  IndInv'
<1> USE DEF IndInv, RefuseWebhook
<1>1. TypeOK'
  BY DEF TypeOK, Delivery, DeliveryAnswered
<1>2. StoreInv'
  BY DEF StoreInv, MappingAgreesWithProvider, ValidatedUpdate, FoundRow,
         UpdatedEvent, StoredStatusHasFact, ReadFactNeedsDeliveredFact, Stored,
         TypeOK, Delivery
<1>3. QED
  BY <1>1, <1>2, SendsUntouched

\* A webhook that was just received knows nothing of the store.
LEMMA ReceiveWebhookKeeps ==
  ASSUME IndInv, NEW d \in Deliveries, ReceiveWebhook(d)
  PROVE  IndInv'
<1> USE DEF IndInv
<1>1. PICK kind \in {"receipt", "inbound"}, pid \in ProviderIds \cup ForeignIds,
           status \in ReceiptStatuses \cup {None} :
        AcceptWebhook(d, kind, pid, status)
  BY DEF ReceiveWebhook
<1> DEFINE new == [pc |-> "lookup", kind |-> kind, pid |-> pid,
                   status |-> status, seen |-> None]
<1>2. /\ delivery' = [delivery EXCEPT ![d] = new]
      /\ UNCHANGED <<request, accepted, mapping, deliveryLog, outbox, faults>>
  BY <1>1 DEF AcceptWebhook
<1>3. new \in Delivery
  BY DEF Delivery, DeliveryInFlight
<1>4. TypeOK'
  BY <1>2, <1>3, DeliveryReplaced DEF TypeOK
<1>5. StoreInv'
  BY <1>2 DEF StoreInv, MappingAgreesWithProvider, ValidatedUpdate, FoundRow,
              UpdatedEvent, StoredStatusHasFact, ReadFactNeedsDeliveredFact,
              Stored, TypeOK
<1>6. QED
  BY <1>2, <1>4, <1>5, SendsUntouched

\* The lookup leaves an update behind only when the row was found, the step is
\* valid from the status read, and that status, if a fact, is in the outbox; and
\* an event without an update only when no row was found.
LEMMA LookupMappingKeeps ==
  ASSUME IndInv, NEW d \in Deliveries, LookupMapping(d)
  PROVE  IndInv'
<1> USE DEF IndInv
<1> DEFINE pid == delivery[d].pid
<1> DEFINE after(pc, seen) == [delivery[d] EXCEPT !.pc = pc, !.seen = seen]
<1>1. /\ delivery[d] \in Delivery
      /\ delivery[d].pc = "lookup"
      /\ UNCHANGED <<request, accepted, mapping, deliveryLog, outbox, faults>>
  <2>1. delivery[d] \in Delivery
    BY Zenon DEF TypeOK
  <2>2. QED
    BY <2>1, Zenon DEF LookupMapping
<1>2. PICK pc, seen :
        /\ delivery' = [delivery EXCEPT ![d] = after(pc, seen)]
        /\ \/ pc = "error" /\ seen = delivery[d].seen
           \/ RowsOf(pid) = {} /\ pc = "publish" /\ seen = None
           \/ \E id \in RowsOf(pid) :
                seen = mapping[id].status /\ pc = AfterLookup(d, seen)
  <2>1. CASE delivery' = [delivery EXCEPT ![d].pc = "error"]
    <3>1. delivery' = [delivery EXCEPT ![d] = after("error", delivery[d].seen)]
      BY <1>1, <2>1 DEF TypeOK, Delivery
    <3>2. QED
      BY <3>1
  <2>2. ASSUME NEW seen,
               \/ RowsOf(pid) = {} /\ seen = None
               \/ \E id \in RowsOf(pid) : seen = mapping[id].status,
               delivery' = [delivery EXCEPT ![d].pc = AfterLookup(d, seen),
                                            ![d].seen = seen]
        PROVE  \E pc :
                 /\ delivery' = [delivery EXCEPT ![d] = after(pc, seen)]
                 /\ \/ RowsOf(pid) = {} /\ pc = "publish" /\ seen = None
                    \/ \E id \in RowsOf(pid) :
                         seen = mapping[id].status /\ pc = AfterLookup(d, seen)
    <3>1. delivery' = [delivery EXCEPT ![d] = after(AfterLookup(d, seen), seen)]
      BY <1>1, <2>2 DEF TypeOK
    <3>2. seen = None => AfterLookup(d, seen) = "publish"
      BY DEF AfterLookup
    <3>3. QED
      BY <2>2, <3>1, <3>2
  <2>3. \/ delivery' = [delivery EXCEPT ![d].pc = "error"]
        \/ \E seen :
             /\ \/ RowsOf(pid) = {} /\ seen = None
                \/ \E id \in RowsOf(pid) : seen = mapping[id].status
             /\ delivery' = [delivery EXCEPT ![d].pc = AfterLookup(d, seen),
                                             ![d].seen = seen]
    BY DEF LookupMapping
  <2>4. QED
    BY <2>1, <2>2, <2>3
<1>3. CASE pc = "error" /\ seen = delivery[d].seen
  <2>1. after(pc, seen) \in Delivery
    BY <1>1, <1>3 DEF Delivery, DeliveryAnswered
  <2>2. TypeOK'
    BY <1>1, <1>2, <2>1, DeliveryReplaced DEF TypeOK
  <2>3. StoreInv'
    BY <1>1, <1>2, <1>3 DEF StoreInv, MappingAgreesWithProvider, ValidatedUpdate,
      FoundRow, UpdatedEvent, StoredStatusHasFact, ReadFactNeedsDeliveredFact,
      Stored, TypeOK, Delivery
  <2>4. QED
    BY <1>1, <2>2, <2>3, SendsUntouched
<1>4. CASE RowsOf(pid) = {} /\ pc = "publish" /\ seen = None
  <2>1. after(pc, seen) \in Delivery
    BY <1>1, <1>4 DEF Delivery, DeliveryInFlight
  <2>2. TypeOK'
    BY <1>1, <1>2, <2>1, DeliveryReplaced DEF TypeOK
  <2>3. StoreInv'
    BY <1>1, <1>2, <1>4 DEF StoreInv, MappingAgreesWithProvider, ValidatedUpdate,
      FoundRow, UpdatedEvent, StoredStatusHasFact, ReadFactNeedsDeliveredFact,
      Stored, TypeOK, Delivery
  <2>4. QED
    BY <1>1, <2>2, <2>3, SendsUntouched
<1>5. ASSUME NEW id \in RowsOf(pid),
             seen = mapping[id].status, pc = AfterLookup(d, seen)
      PROVE  IndInv'
  <2>1. /\ id \in MessageIds /\ Stored(id) /\ mapping[id].pid = pid
        /\ pid \in ProviderIds /\ accepted[pid] = id
        /\ seen \in DeliveryStatus /\ seen # None
    BY <1>5, RowIsAccepted, StatusFacts DEF Mapping
  <2>2. pc \in {"skipped", "update", "conflict"}
    BY <1>5, <2>1 DEF AfterLookup
  <2>3. after(pc, seen) \in Delivery
    BY <1>1, <2>1, <2>2 DEF Delivery, DeliveryInFlight, DeliveryAnswered
  <2>4. TypeOK'
    BY <1>1, <1>2, <2>3, DeliveryReplaced DEF TypeOK
  <2>5. ASSUME pc = "update"
        PROVE  /\ delivery[d].status \in ReceiptStatuses \ {seen}
               /\ IsValidTransition(seen, delivery[d].status)
    <3>1. IsValidTransition(seen, delivery[d].status) /\ seen # delivery[d].status
      BY <1>5, <2>1, <2>5 DEF AfterLookup
    <3>2. delivery[d].status \in DeliveryStatus
      BY <2>1, <3>1, TransitionFacts
    <3>3. QED
      BY <1>1, <3>1, <3>2, StatusFacts DEF Delivery
  <2>6. seen \in FactStatuses => <<accepted[pid], seen>> \in outbox
    BY <1>5, <2>1 DEF StoreInv, StoredStatusHasFact
  <2>7. ValidatedUpdate'
    <3> SUFFICES ASSUME NEW e \in Deliveries, delivery'[e].pc = "update"
                 PROVE  /\ FoundRow(e)'
                        /\ delivery'[e].seen \in DeliveryStatus
                        /\ delivery'[e].status
                             \in ReceiptStatuses \ {delivery'[e].seen}
                        /\ IsValidTransition(delivery'[e].seen, delivery'[e].status)
                        /\ delivery'[e].seen \in FactStatuses =>
                             <<accepted[delivery'[e].pid], delivery'[e].seen>>
                               \in outbox
      BY <1>1 DEF ValidatedUpdate
    <3>1. CASE e = d
      <4>1. /\ delivery'[d].pc = pc /\ delivery'[d].seen = seen
            /\ delivery'[d].pid = pid /\ delivery'[d].status = delivery[d].status
        BY <1>1, <1>2 DEF TypeOK, Delivery
      <4>2. QED
        BY <1>1, <2>1, <2>5, <2>6, <3>1, <4>1 DEF FoundRow, Stored
    <3>2. CASE e # d
      <4>1. delivery'[e] = delivery[e]
        BY <1>2, <3>2 DEF TypeOK
      <4>2. QED
        BY <1>1, <4>1 DEF StoreInv, ValidatedUpdate, FoundRow, Stored
    <3>3. QED
      BY <3>1, <3>2
  <2>8. StoreInv'
    <3>1. UpdatedEvent'
      BY <1>1, <1>2, <2>2 DEF StoreInv, UpdatedEvent, TypeOK, Delivery
    <3>2. QED
      BY <1>1, <2>7, <3>1 DEF StoreInv, MappingAgreesWithProvider,
        StoredStatusHasFact, ReadFactNeedsDeliveredFact, Stored
  <2>9. QED
    BY <1>1, <2>4, <2>8, SendsUntouched
<1>6. QED
  BY <1>2, <1>3, <1>4, <1>5

\* An update stores the validated status together with its fact; a READ was
\* validated against DELIVERED, whose fact is there.
LEMMA UpdateStatusKeeps ==
  ASSUME IndInv, NEW d \in Deliveries, UpdateStatus(d)
  PROVE  IndInv'
<1> USE DEF IndInv
<1> DEFINE pid == delivery[d].pid
<1> DEFINE status == delivery[d].status
<1> DEFINE after(pc) == [delivery[d] EXCEPT !.pc = pc]
<1>1. /\ delivery[d] \in Delivery
      /\ delivery[d].pc = "update"
      /\ UNCHANGED <<request, accepted, deliveryLog>>
  BY DEF UpdateStatus, TypeOK
<1>2. PICK committed \in BOOLEAN, ok \in BOOLEAN :
        /\ Reported(committed, ok)
        /\ IF committed
             THEN \E id \in RowsOf(pid) :
                    /\ mapping' = [mapping EXCEPT ![id].status = status]
                    /\ Enqueue(id, status)
             ELSE UNCHANGED <<mapping, outbox>>
        /\ delivery' = [delivery EXCEPT ![d].pc =
                          IF ok THEN "publish" ELSE "error"]
  BY DEF UpdateStatus
<1>3. /\ delivery' = [delivery EXCEPT ![d] =
                       after(IF ok THEN "publish" ELSE "error")]
      /\ delivery' \in [Deliveries -> Delivery]
  <2>1. after(IF ok THEN "publish" ELSE "error") \in Delivery
    BY <1>1 DEF Delivery, DeliveryInFlight, DeliveryAnswered
  <2>2. delivery' = [delivery EXCEPT ![d] =
                      after(IF ok THEN "publish" ELSE "error")]
    BY <1>2 DEF TypeOK
  <2>3. QED
    BY <2>1, <2>2, DeliveryReplaced
<1>4. /\ delivery'[d].pc \in {"publish", "error"}
      /\ delivery'[d].pc = "publish" => committed
      /\ delivery'[d].pid = pid /\ delivery'[d].status = status
      /\ \A e \in Deliveries \ {d} : delivery'[e] = delivery[e]
  BY <1>1, <1>2, <1>3 DEF TypeOK, Delivery, Reported
<1>5. /\ status \in ReceiptStatuses /\ status \in DeliveryStatus
      /\ status = "READ" => <<accepted[pid], "DELIVERED">> \in outbox
  <2>1. /\ delivery[d].seen \in DeliveryStatus
        /\ status \in ReceiptStatuses \ {delivery[d].seen}
        /\ IsValidTransition(delivery[d].seen, status)
        /\ delivery[d].seen \in FactStatuses =>
             <<accepted[pid], delivery[d].seen>> \in outbox
    BY <1>1 DEF StoreInv, ValidatedUpdate
  <2>2. QED
    BY <2>1, TransitionFacts, StatusFacts DEF FactStatuses
<1>6. faults' \in 0..MaxFaults
  BY <1>2, FaultCounted
<1>7. CASE ~committed
  <2>1. UNCHANGED <<mapping, outbox>> /\ delivery'[d].pc = "error"
    BY <1>2, <1>4, <1>7
  <2>2. TypeOK'
    BY <1>1, <1>3, <1>6, <2>1 DEF TypeOK
  <2>3. StoreInv'
    BY <1>1, <1>4, <2>1 DEF StoreInv, MappingAgreesWithProvider, ValidatedUpdate,
      FoundRow, UpdatedEvent, StoredStatusHasFact, ReadFactNeedsDeliveredFact, Stored
  <2>4. QED
    BY <1>1, <2>2, <2>3, SendsUntouched
<1>8. CASE committed
  <2>1. PICK id \in RowsOf(pid) :
          /\ mapping' = [mapping EXCEPT ![id].status = status]
          /\ Enqueue(id, status)
    BY <1>2, <1>8
  <2>2. /\ id \in MessageIds /\ Stored(id) /\ mapping[id] \in Mapping
        /\ pid \in ProviderIds /\ mapping[id].pid = pid /\ accepted[pid] = id
    BY <2>1, RowIsAccepted
  <2>3. /\ mapping' \in [MessageIds -> Mapping \cup {None}]
        /\ \A m \in MessageIds :
             /\ Stored(m)' <=> Stored(m)
             /\ Stored(m) => mapping'[m].pid = mapping[m].pid
             /\ m # id => mapping'[m] = mapping[m]
        /\ mapping'[id].status = status
    <3> DEFINE row == [mapping[id] EXCEPT !.status = status]
    <3>1. row \in Mapping /\ row.pid = mapping[id].pid /\ row.status = status
      BY <1>5, <2>2 DEF Mapping
    <3>2. mapping' = [mapping EXCEPT ![id] = row]
      BY <2>1, <2>2 DEF TypeOK
    <3>3. QED
      BY <2>2, <3>1, <3>2, NoneIsNoMapping DEF TypeOK, Stored
  <2>4. /\ outbox \subseteq outbox'
        /\ outbox' \subseteq outbox \cup {<<id, status>>}
        /\ status \in FactStatuses => <<id, status>> \in outbox'
        /\ outbox' \subseteq MessageIds \X FactStatuses
    BY <2>1, <2>2 DEF Enqueue, TypeOK
  <2>5. TypeOK'
    BY <1>1, <1>3, <1>6, <2>3, <2>4 DEF TypeOK
  <2>6. MappingAgreesWithProvider'
    BY <1>1, <2>3 DEF StoreInv, MappingAgreesWithProvider
  <2>7. ValidatedUpdate'
    <3> SUFFICES ASSUME NEW e \in Deliveries, delivery'[e].pc = "update"
                 PROVE  /\ FoundRow(e)'
                        /\ delivery'[e].seen \in DeliveryStatus
                        /\ delivery'[e].status
                             \in ReceiptStatuses \ {delivery'[e].seen}
                        /\ IsValidTransition(delivery'[e].seen, delivery'[e].status)
                        /\ delivery'[e].seen \in FactStatuses =>
                             <<accepted[delivery'[e].pid], delivery'[e].seen>>
                               \in outbox'
      BY <1>1 DEF ValidatedUpdate
    <3>1. delivery'[e] = delivery[e] /\ delivery[e].pc = "update"
      <4>1. e \in Deliveries \ {d}
        BY <1>4
      <4>2. QED
        BY <1>4, <4>1
    <3>2. FoundRow(e)'
      <4> DEFINE m == accepted[delivery[e].pid]
      <4>1. FoundRow(e)
        BY <3>1 DEF StoreInv, ValidatedUpdate
      <4>2. m \in MessageIds /\ Stored(m) /\ mapping[m].pid = delivery[e].pid
        BY <4>1 DEF FoundRow
      <4>3. mapping'[m] # None /\ mapping'[m].pid = delivery[e].pid
        BY <2>3, <4>2 DEF Stored
      <4>4. QED
        BY <1>1, <3>1, <4>1, <4>2, <4>3 DEF FoundRow, Stored
    <3>3. QED
      BY <2>4, <3>1, <3>2 DEF StoreInv, ValidatedUpdate
  <2>8. UpdatedEvent'
    BY <1>1, <1>4, <2>2, <2>4 DEF StoreInv, UpdatedEvent
  <2>9. StoredStatusHasFact'
    BY <2>3, <2>4 DEF StoreInv, StoredStatusHasFact
  <2>10. ReadFactNeedsDeliveredFact'
    BY <1>5, <2>2, <2>4 DEF StoreInv, ReadFactNeedsDeliveredFact
  <2>11. QED
    BY <1>1, <2>5, <2>6, <2>7, <2>8, <2>9, <2>10, SendsUntouched DEF StoreInv
<1>9. QED
  BY <1>7, <1>8

\* A published event changes nothing but the progress of its webhook.
LEMMA PublishEventKeeps ==
  ASSUME IndInv, NEW d \in Deliveries, PublishEvent(d)
  PROVE  IndInv'
<1> USE DEF IndInv, PublishEvent
<1>1. TypeOK'
  BY DEF TypeOK, Delivery, DeliveryAnswered
<1>2. StoreInv'
  BY DEF StoreInv, MappingAgreesWithProvider, ValidatedUpdate, FoundRow,
         UpdatedEvent, StoredStatusHasFact, ReadFactNeedsDeliveredFact, Stored,
         TypeOK, Delivery
<1>3. QED
  BY <1>1, <1>2, SendsUntouched

\* A crash of a webhook loses only its progress.
LEMMA CrashWebhookKeeps ==
  ASSUME IndInv, NEW d \in Deliveries, CrashWebhook(d)
  PROVE  IndInv'
<1> USE DEF IndInv, CrashWebhook
<1>1. TypeOK'
  BY GatewayAssumption DEF TypeOK, Delivery, DeliveryAnswered
<1>2. StoreInv'
  BY DEF StoreInv, MappingAgreesWithProvider, ValidatedUpdate, FoundRow,
         UpdatedEvent, StoredStatusHasFact, ReadFactNeedsDeliveredFact, Stored,
         TypeOK, Delivery
<1>3. QED
  BY <1>1, <1>2, SendsUntouched

-----------------------------------------------------------------------------
(* The theorems. *)

\* Every step keeps the inductive invariant.
LEMMA NextIndInv == IndInv /\ [Next]_vars => IndInv'
<1> SUFFICES ASSUME IndInv, [Next]_vars PROVE IndInv'
  OBVIOUS
<1>1. ASSUME NEW r \in Requests, SendStep(r) PROVE IndInv'
  BY <1>1, RejectRequestKeeps, DispatchRequestKeeps, ProviderAcceptsKeeps,
     ProviderRefusesKeeps, ProviderAnswersKeeps, RecordFailureKeeps,
     SaveMappingKeeps, CrashRequestKeeps DEF SendStep
<1>2. ASSUME NEW d \in Deliveries, WebhookStep(d) PROVE IndInv'
  BY <1>2, RefuseWebhookKeeps, ReceiveWebhookKeeps, LookupMappingKeeps,
     UpdateStatusKeeps, PublishEventKeeps, CrashWebhookKeeps DEF WebhookStep
<1>3. CASE UNCHANGED vars
  <2>1. TypeOK' /\ SendInv' /\ StoreInv'
    BY <1>3, SendsUntouched, StoreUntouched DEF IndInv, TypeOK, vars
  <2>2. QED
    BY <2>1 DEF IndInv
<1>4. QED
  BY <1>1, <1>2, <1>3 DEF Next, AllAnswered

\* In every state of the gateway, with any number of concurrent sends, webhooks
\* and faults, the inductive invariant holds.
THEOREM Invariance == Spec => []IndInv
<1>1. QED
  BY InitIndInv, NextIndInv, PTL DEF Spec

\* The variables keep their types.
THEOREM TypeCorrectness == Spec => []TypeOK
<1>1. IndInv => TypeOK
  BY DEF IndInv
<1>2. QED
  BY <1>1, Invariance, PTL

\* No interleaving stores a reportable status without its analytics fact.
THEOREM StoredStatusTheorem == Spec => []StoredStatusHasFact
<1>1. IndInv => StoredStatusHasFact
  BY DEF IndInv, StoreInv
<1>2. QED
  BY <1>1, Invariance, PTL

\* No race of receipts makes analytics count a read without a delivery.
THEOREM ReadFactTheorem == Spec => []ReadFactNeedsDeliveredFact
<1>1. IndInv => ReadFactNeedsDeliveredFact
  BY DEF IndInv, StoreInv
<1>2. QED
  BY <1>1, Invariance, PTL

\* An event about a stored message is published only after its fact is stored.
THEOREM EventTheorem == Spec => []EventFollowsStore
<1>1. IndInv => EventFollowsStore
  BY DEF IndInv, StoreInv, UpdatedEvent, EventFollowsStore
<1>2. QED
  BY <1>1, Invariance, PTL

-----------------------------------------------------------------------------
(* Webhooks one at a time: the store follows the delivery lifecycle. *)

\* A step of a send leaves the one webhook and the row it found alone.
LEMMA SendStepSerial ==
  ASSUME IndInv, SerialInv, NEW r \in Requests, SendStep(r)
  PROVE  SerialInv'
<1>1. delivery' = delivery
  BY DEF SendStep, RejectRequest, DispatchRequest, ProviderAccepts, ProviderRefuses,
         ProviderAnswers, RecordFailure, SaveMapping, CrashRequest
<1>2. ASSUME NEW id \in MessageIds, Stored(id)
      PROVE  mapping'[id] = mapping[id]
  <2>1. CASE SaveMapping(r)
    <3>1. \/ mapping' = mapping
          \/ /\ mapping[request[r].id] = None
             /\ \E row : mapping' = [mapping EXCEPT ![request[r].id] = row]
      BY <2>1 DEF SaveMapping, Saveable
    <3>2. QED
      BY <1>2, <3>1 DEF IndInv, TypeOK, Stored
  <2>2. CASE ~SaveMapping(r)
    BY <2>2 DEF SendStep, RejectRequest, DispatchRequest, ProviderAccepts,
                ProviderRefuses, ProviderAnswers, RecordFailure, CrashRequest
  <2>3. QED
    BY <2>1, <2>2
<1>3. ASSUME NEW pid \in ProviderIds, accepted[pid] \in MessageIds
      PROVE  accepted'[pid] = accepted[pid]
  BY <1>3, StatusFacts
  DEF SendStep, RejectRequest, DispatchRequest, ProviderAccepts, ProviderRefuses,
      ProviderAnswers, RecordFailure, SaveMapping, CrashRequest, IndInv, TypeOK
<1>4. ASSUME NEW d \in Deliveries, delivery[d].pc = "update"
      PROVE  mapping'[accepted'[delivery[d].pid]]
               = mapping[accepted[delivery[d].pid]]
  <2>1. FoundRow(d)
    BY <1>4 DEF IndInv, StoreInv, ValidatedUpdate
  <2>2. QED
    BY <1>2, <1>3, <2>1 DEF FoundRow
<1>5. QED
  BY <1>1, <1>4 DEF SerialInv

\* A webhook is received when no other is in flight, and its update is decided
\* from the status it has just read.
LEMMA WebhookStepSerial ==
  ASSUME IndInv, SerialInv, SerialWebhooks, NEW d \in Deliveries, WebhookStep(d)
  PROVE  SerialInv'
<1>1. /\ accepted' = accepted
      /\ \A e \in Deliveries \ {d} : delivery'[e] = delivery[e]
  BY DEF WebhookStep, RefuseWebhook, ReceiveWebhook, AcceptWebhook, LookupMapping,
         UpdateStatus, PublishEvent, CrashWebhook, IndInv, TypeOK
<1>2. ASSUME delivery'[d].pc \in DeliveryInFlight, NEW e \in Deliveries \ {d}
      PROVE  delivery[e].pc \notin DeliveryInFlight
  <2>1. CASE ReceiveWebhook(d)
    BY <2>1 DEF ReceiveWebhook, AcceptWebhook
  <2>2. CASE ~ReceiveWebhook(d)
    <3>1. delivery[d].pc \in DeliveryInFlight
      BY <1>2, <2>2 DEF WebhookStep, RefuseWebhook, LookupMapping, UpdateStatus,
        PublishEvent, CrashWebhook, IndInv, TypeOK, Delivery, DeliveryInFlight
    <3>2. QED
      BY <3>1 DEF SerialInv
  <2>3. QED
    BY <2>1, <2>2
<1>3. ASSUME NEW e \in Deliveries, NEW f \in Deliveries,
             delivery'[e].pc \in DeliveryInFlight,
             delivery'[f].pc \in DeliveryInFlight
      PROVE  e = f
  <2>1. CASE e = d \/ f = d
    BY <1>1, <1>2, <1>3, <2>1
  <2>2. CASE e # d /\ f # d
    BY <1>1, <1>3, <2>2 DEF SerialInv
  <2>3. QED
    BY <2>1, <2>2
<1>4. ASSUME NEW e \in Deliveries, delivery'[e].pc = "update"
      PROVE  mapping'[accepted'[delivery'[e].pid]].status = delivery'[e].seen
  <2>1. CASE e # d
    <3>1. delivery'[e] = delivery[e]
      BY <1>1, <2>1
    <3>2. delivery'[d].pc \notin DeliveryInFlight
      BY <1>3, <1>4, <2>1 DEF DeliveryInFlight
    <3>3. delivery[d].pc \notin DeliveryInFlight
      BY <1>4, <2>1, <3>1 DEF SerialInv, DeliveryInFlight
    <3>4. mapping' = mapping
      BY <3>3 DEF WebhookStep, RefuseWebhook, ReceiveWebhook, AcceptWebhook,
        LookupMapping, UpdateStatus, PublishEvent, CrashWebhook, DeliveryInFlight
    <3>5. QED
      BY <1>1, <1>4, <3>1, <3>4 DEF SerialInv
  <2>2. CASE e = d
    <3>1. LookupMapping(d)
      BY <1>4, <2>2 DEF WebhookStep, RefuseWebhook, ReceiveWebhook, AcceptWebhook,
        UpdateStatus, PublishEvent, CrashWebhook, IndInv, TypeOK, Delivery
    <3>2. PICK seen :
            /\ delivery' = [delivery EXCEPT ![d].pc = AfterLookup(d, seen),
                                            ![d].seen = seen]
            /\ \/ RowsOf(delivery[d].pid) = {} /\ seen = None
               \/ \E id \in RowsOf(delivery[d].pid) : seen = mapping[id].status
      BY <1>4, <2>2, <3>1 DEF LookupMapping, IndInv, TypeOK, Delivery
    <3>3. /\ AfterLookup(d, seen) = "update" /\ delivery'[d].seen = seen
          /\ delivery'[d].pid = delivery[d].pid
      BY <1>4, <2>2, <3>2 DEF IndInv, TypeOK, Delivery
    <3>4. PICK id \in RowsOf(delivery[d].pid) : seen = mapping[id].status
      BY <3>2, <3>3 DEF AfterLookup
    <3>5. accepted[delivery[d].pid] = id
      BY <3>4, RowIsAccepted
    <3>6. QED
      BY <1>1, <2>2, <3>1, <3>3, <3>4, <3>5 DEF LookupMapping
  <2>3. QED
    BY <2>1, <2>2
<1>5. QED
  BY <1>3, <1>4 DEF SerialInv

\* Under these invariants a step of the gateway is a step of the lifecycle: a
\* saved mapping registers its message, an update moves it, all else stutters.
LEMMA LifecycleStep ==
  ASSUME IndInv, SerialInv, [Next]_vars
  PROVE  [Lifecycle!Next]_StoredStatus
<1> USE DEF StoredStatus
<1>1. CASE mapping' = mapping
  BY <1>1
<1>2. ASSUME NEW r \in Requests, SaveMapping(r)
      PROVE  [Lifecycle!Next]_StoredStatus
  <2> DEFINE row == [pid |-> request[r].pid, status |-> "SENT"]
  <2>1. request[r].pid \in ProviderIds
    BY <1>2 DEF SaveMapping, IndInv, SendInv, AcceptedInput
  <2> PICK id \in MessageIds : id = request[r].id
    BY <1>2 DEF SaveMapping, IndInv, SendInv, InputKnown, AcceptedInput,
                RequestInFlight
  <2>2. \/ mapping' = mapping
        \/ mapping[id] = None /\ mapping' = [mapping EXCEPT ![id] = row]
    BY <1>2 DEF SaveMapping, Saveable
  <2>3. CASE mapping[id] = None /\ mapping' = [mapping EXCEPT ![id] = row]
    <3>1. row # None
      BY <2>1, NoneIsNoMapping DEF Mapping, DeliveryStatus
    <3>2. Lifecycle!Register(id)
      BY <2>1, <2>3, <3>1 DEF Lifecycle!Register, IndInv, TypeOK
    <3>3. QED
      BY <2>1, <3>2 DEF Lifecycle!Next
  <2>4. QED
    BY <1>1, <2>2, <2>3
<1>3. ASSUME NEW d \in Deliveries, UpdateStatus(d)
      PROVE  [Lifecycle!Next]_StoredStatus
  <2> PICK next \in DeliveryStatus : next = delivery[d].status
    BY <1>3, StatusFacts DEF UpdateStatus, IndInv, StoreInv, ValidatedUpdate
  <2>1. /\ FoundRow(d) /\ delivery[d].seen \in DeliveryStatus
        /\ IsValidTransition(delivery[d].seen, next)
        /\ mapping[accepted[delivery[d].pid]].status = delivery[d].seen
    BY <1>3, StatusFacts DEF UpdateStatus, IndInv, StoreInv, ValidatedUpdate,
                             SerialInv
  <2>2. \/ mapping' = mapping
        \/ \E id \in RowsOf(delivery[d].pid) :
             mapping' = [mapping EXCEPT ![id].status = next]
    BY <1>3 DEF UpdateStatus
  <2>3. ASSUME NEW id \in RowsOf(delivery[d].pid),
               mapping' = [mapping EXCEPT ![id].status = next]
        PROVE  Lifecycle!Move(id, next) /\ id \in MessageIds
    <3>1. /\ id \in MessageIds /\ Stored(id) /\ mapping[id] \in Mapping
          /\ accepted[delivery[d].pid] = id
      BY RowIsAccepted
    <3> DEFINE row == [mapping[id] EXCEPT !.status = next]
    <3>2. row \in Mapping /\ row # None /\ row.status = next
      BY <2>1, <3>1, NoneIsNoMapping DEF Mapping
    <3>3. mapping' = [mapping EXCEPT ![id] = row]
      BY <2>3, <3>1 DEF IndInv, TypeOK
    <3>4. /\ StoredStatus[id] # None /\ StoredStatus[id] = mapping[id].status
          /\ IsValidTransition(StoredStatus[id], next)
      BY <2>1, <3>1, StatusFacts DEF Stored, Mapping
    <3>5. StoredStatus' = [StoredStatus EXCEPT ![id] = next]
      BY <3>1, <3>2, <3>3 DEF IndInv, TypeOK
    <3>6. QED
      BY <3>1, <3>4, <3>5 DEF Lifecycle!Move, Lifecycle!IsValidTransition,
        IsValidTransition, Lifecycle!ValidTransitions, ValidTransitions
  <2>4. QED
    BY <1>1, <2>1, <2>2, <2>3, StatusFacts
    DEF Lifecycle!Next, Lifecycle!DeliveryStatus, DeliveryStatus
<1>4. QED
  BY <1>1, <1>2, <1>3 DEF Next, SendStep, WebhookStep, AllAnswered, vars,
    RejectRequest, DispatchRequest, ProviderAccepts, ProviderRefuses,
    ProviderAnswers, RecordFailure, CrashRequest, RefuseWebhook, ReceiveWebhook,
    AcceptWebhook, LookupMapping, PublishEvent, CrashWebhook

\* When webhooks are handled one at a time, the status of every message goes
\* through the delivery lifecycle, whatever the sends and the faults do.
THEOREM SerialLifecycle == ASSUME SerialWebhooks PROVE Spec => LifecycleSpec
<1>1. Init => SerialInv /\ Lifecycle!Init
  BY DEF Init, SerialInv, DeliveryInFlight, Lifecycle!Init, StoredStatus
<1>2. IndInv /\ SerialInv /\ [Next]_vars => SerialInv'
  <2> SUFFICES ASSUME IndInv, SerialInv, [Next]_vars PROVE SerialInv'
    OBVIOUS
  <2>1. CASE UNCHANGED vars
    BY <2>1 DEF SerialInv, vars
  <2>2. QED
    BY <2>1, SendStepSerial, WebhookStepSerial DEF Next, AllAnswered
<1>3. IndInv /\ SerialInv /\ [Next]_vars => [Lifecycle!Next]_StoredStatus
  BY LifecycleStep
<1>4. QED
  BY <1>1, <1>2, <1>3, Invariance, PTL DEF Spec, LifecycleSpec, Lifecycle!Spec

-----------------------------------------------------------------------------
(* What no step takes back: rows, accepted messages, answers, what a webhook says. *)

\* No row is deleted, and none changes the provider id it is found by.
RowsKept ==
  \A id \in MessageIds :
    Stored(id) => Stored(id)' /\ mapping'[id].pid = mapping[id].pid

AcceptedKept ==
  \A pid \in ProviderIds : accepted[pid] # None => accepted'[pid] = accepted[pid]

SendsKept ==
  /\ \A r \in Requests : request[r].pc \in RequestAnswered => request'[r] = request[r]
  /\ deliveryLog \subseteq deliveryLog'

WebhooksKept ==
  \A d \in Deliveries :
    delivery[d].pc # "new" =>
      /\ delivery'[d].pc # "new"
      /\ delivery'[d].kind = delivery[d].kind
      /\ delivery'[d].pid = delivery[d].pid
      /\ delivery'[d].status = delivery[d].status

\* Saving is refused when the message has a row already.
LEMMA SaveMappingRow ==
  ASSUME IndInv, NEW r \in Requests, SaveMapping(r)
  PROVE  \/ mapping' = mapping
         \/ /\ mapping[request[r].id] = None
            /\ mapping' = [mapping EXCEPT ![request[r].id] =
                             [pid |-> request[r].pid, status |-> "SENT"]]
BY DEF SaveMapping, Saveable

\* An update changes the status of the row of its provider id, and nothing else of it.
LEMMA UpdateStatusRow ==
  ASSUME IndInv, NEW d \in Deliveries, UpdateStatus(d)
  PROVE  \/ mapping' = mapping
         \/ \E id \in MessageIds :
              /\ Stored(id) /\ mapping[id] \in Mapping
              /\ mapping[id].pid = delivery[d].pid
              /\ mapping' = [mapping EXCEPT ![id].status = delivery[d].status]
              /\ delivery[d].status \in DeliveryStatus
<1>1. \/ mapping' = mapping
      \/ \E id \in RowsOf(delivery[d].pid) :
           mapping' = [mapping EXCEPT ![id].status = delivery[d].status]
  BY DEF UpdateStatus
<1>2. delivery[d].status \in DeliveryStatus
  BY StatusFacts DEF UpdateStatus, IndInv, StoreInv, ValidatedUpdate
<1> QED BY <1>1, <1>2, RowIsAccepted

\* The other steps leave the rows alone.
LEMMA RowsUntouched ==
  ASSUME [Next]_vars,
         \A r \in Requests : ~SaveMapping(r), \A d \in Deliveries : ~UpdateStatus(d)
  PROVE  mapping' = mapping
BY DEF Next, SendStep, WebhookStep, AllAnswered, vars,
    RejectRequest, DispatchRequest, ProviderAccepts, ProviderRefuses,
    ProviderAnswers, RecordFailure, CrashRequest, RefuseWebhook, ReceiveWebhook,
    AcceptWebhook, LookupMapping, PublishEvent, CrashWebhook

LEMMA StepKeepsRows ==
  ASSUME IndInv, [Next]_vars
  PROVE  RowsKept
<1>1. ASSUME NEW r \in Requests, SaveMapping(r) PROVE RowsKept
  BY <1>1, SaveMappingRow DEF RowsKept, Stored, IndInv, TypeOK
<1>2. ASSUME NEW d \in Deliveries, UpdateStatus(d) PROVE RowsKept
  <2>1. CASE mapping' = mapping
    BY <2>1 DEF RowsKept, Stored
  <2>2. ASSUME NEW id \in MessageIds, Stored(id), mapping[id] \in Mapping,
               mapping' = [mapping EXCEPT ![id].status = delivery[d].status],
               delivery[d].status \in DeliveryStatus
        PROVE  RowsKept
    <3> DEFINE row == [mapping[id] EXCEPT !.status = delivery[d].status]
    <3>1. row \in Mapping /\ row # None /\ row.pid = mapping[id].pid
      BY <2>2, NoneIsNoMapping DEF Mapping
    <3>2. mapping' = [mapping EXCEPT ![id] = row]
      BY <2>2
    <3> HIDE DEF row
    <3> QED BY <3>1, <3>2 DEF RowsKept, Stored, IndInv, TypeOK
  <2> QED BY <1>2, <2>1, <2>2, UpdateStatusRow
<1>3. CASE mapping' = mapping
  BY <1>3 DEF RowsKept, Stored
<1> QED BY <1>1, <1>2, <1>3, RowsUntouched

LEMMA StepKeepsAccepted ==
  ASSUME IndInv, [Next]_vars
  PROVE  AcceptedKept
BY DEF IndInv, TypeOK, AcceptedKept, Next, SendStep, WebhookStep, AllAnswered, vars,
    RejectRequest, DispatchRequest, ProviderAccepts, ProviderRefuses,
    ProviderAnswers, RecordFailure, SaveMapping, CrashRequest, RefuseWebhook,
    ReceiveWebhook, AcceptWebhook, LookupMapping, UpdateStatus, PublishEvent,
    CrashWebhook

LEMMA StepKeepsSends ==
  ASSUME IndInv, [Next]_vars
  PROVE  SendsKept
<1>1. ASSUME NEW r \in Requests, SendStep(r) PROVE SendsKept
  <2>1. request[r].pc \notin RequestAnswered
    BY <1>1 DEF SendStep, RejectRequest, DispatchRequest, ProviderAccepts,
      ProviderRefuses, ProviderAnswers, RecordFailure, SaveMapping, CrashRequest,
      RequestAnswered, RequestInFlight
  <2>2. \A q \in Requests : q # r => request'[q] = request[q]
    BY <1>1 DEF SendStep, RejectRequest, DispatchRequest, ProviderAccepts,
      ProviderRefuses, ProviderAnswers, RecordFailure, SaveMapping, CrashRequest,
      IndInv, TypeOK
  <2>3. deliveryLog \subseteq deliveryLog'
    BY <1>1 DEF SendStep, RejectRequest, DispatchRequest, ProviderAccepts,
      ProviderRefuses, ProviderAnswers, RecordFailure, SaveMapping, CrashRequest
  <2> QED BY <2>1, <2>2, <2>3 DEF SendsKept
<1>2. CASE UNCHANGED <<request, deliveryLog>>
  BY <1>2 DEF SendsKept
<1> QED BY <1>1, <1>2 DEF Next, WebhookStep, AllAnswered, vars, RefuseWebhook,
  ReceiveWebhook, AcceptWebhook, LookupMapping, UpdateStatus, PublishEvent, CrashWebhook

LEMMA StepKeepsWebhooks ==
  ASSUME IndInv, [Next]_vars
  PROVE  WebhooksKept
<1>1. ASSUME NEW d \in Deliveries, WebhookStep(d) PROVE WebhooksKept
  <2>1. \A e \in Deliveries : e # d => delivery'[e] = delivery[e]
    BY <1>1 DEF WebhookStep, RefuseWebhook, ReceiveWebhook, AcceptWebhook,
      LookupMapping, UpdateStatus, PublishEvent, CrashWebhook, IndInv, TypeOK
  <2> DEFINE Same == /\ delivery'[d].kind = delivery[d].kind
                     /\ delivery'[d].pid = delivery[d].pid
                     /\ delivery'[d].status = delivery[d].status
  <2>2. ASSUME delivery[d].pc # "new"
        PROVE  Same /\ delivery'[d].pc # "new"
    <3> delivery \in [Deliveries -> Delivery]
      BY DEF IndInv, TypeOK
    <3>1. CASE LookupMapping(d)
      <4>1. PICK seen : \/ delivery' = [delivery EXCEPT ![d].pc = "error"]
                        \/ delivery' = [delivery EXCEPT ![d].pc = AfterLookup(d, seen),
                                                        ![d].seen = seen]
        BY <3>1 DEF LookupMapping
      <4>2. AfterLookup(d, seen) # "new"
        BY DEF AfterLookup
      <4>3. CASE delivery' = [delivery EXCEPT ![d].pc = "error"]
        BY <4>3 DEF Delivery
      <4>4. CASE delivery' = [delivery EXCEPT ![d].pc = AfterLookup(d, seen),
                                              ![d].seen = seen]
        BY <4>2, <4>4 DEF Delivery
      <4> QED BY <4>1, <4>3, <4>4
    <3>2. CASE ~LookupMapping(d)
      <4>1. PICK pc \in {"publish", "error", "acked", "crashed"} :
              delivery' = [delivery EXCEPT ![d].pc = pc]
        BY <1>1, <2>2, <3>2 DEF WebhookStep, RefuseWebhook, ReceiveWebhook, AcceptWebhook,
          UpdateStatus, PublishEvent, CrashWebhook
      <4> QED BY <4>1 DEF Delivery
    <3> QED BY <3>1, <3>2
  <2> QED BY <2>1, <2>2 DEF WebhooksKept
<1>2. CASE delivery' = delivery
  BY <1>2 DEF WebhooksKept
<1> QED BY <1>1, <1>2 DEF Next, SendStep, AllAnswered, vars, RejectRequest,
  DispatchRequest, ProviderAccepts, ProviderRefuses, ProviderAnswers, RecordFailure,
  SaveMapping, CrashRequest

\* A row that is stored names its message and provider id for good.
THEOREM MappingTheorem == Spec => MappingNeverReplaced
<1>1. IndInv /\ [Next]_vars =>
        [\A id \in MessageIds :
           Stored(id) => Stored(id)' /\ mapping'[id].pid = mapping[id].pid]_mapping
  BY StepKeepsRows DEF RowsKept
<1> QED BY <1>1, Invariance, PTL DEF Spec, MappingNeverReplaced

-----------------------------------------------------------------------------
(* A send that is answered with success. *)

\* The message of such a send is one of the messages, so its row is a row.
SentKnown ==
  \A r \in Requests : request[r].pc = "sent" /\ request[r].pid # None =>
    /\ request[r].id \in MessageIds
    /\ Stored(request[r].id) /\ mapping[request[r].id].pid = request[r].pid

LEMMA SentKnownStep ==
  ASSUME IndInv, SentKnown, [Next]_vars
  PROVE  SentKnown'
<1> SUFFICES ASSUME NEW r \in Requests,
                    request'[r].pc = "sent", request'[r].pid # None
             PROVE  /\ request'[r].id \in MessageIds
                    /\ mapping'[request'[r].id] # None
                    /\ mapping'[request'[r].id].pid = request'[r].pid
  BY DEF SentKnown, Stored
<1>1. CASE request'[r] = request[r]
  BY <1>1, StepKeepsRows DEF RowsKept, SentKnown, Stored
<1>2. CASE SaveMapping(r)
  <2>1. PICK committed \in {FALSE, Saveable(r)}, ok \in BOOLEAN :
          /\ Reported(committed, ok)
          /\ committed => mapping' = [mapping EXCEPT ![request[r].id] =
                                [pid |-> request[r].pid, status |-> "SENT"]]
          /\ request' = [request EXCEPT ![r].pc = SaveAnswer(ok)]
    BY <1>2 DEF SaveMapping
  <2>2. request[r].id \in MessageIds /\ request[r].pid \in ProviderIds
    BY <1>2 DEF SaveMapping, IndInv, SendInv, InputKnown, AcceptedInput, RequestInFlight
  <2>3. /\ request'[r].pc = SaveAnswer(ok) /\ request'[r].id = request[r].id
        /\ request'[r].pid = request[r].pid
    BY <2>1 DEF IndInv, TypeOK, Request
  <2>4. committed
    BY <2>1, <2>3 DEF SaveAnswer, Reported
  <2> DEFINE row == [pid |-> request[r].pid, status |-> "SENT"]
  <2>5. row \in Mapping /\ row # None
    BY <2>2, NoneIsNoMapping DEF Mapping, DeliveryStatus
  <2>6. mapping'[request[r].id] = row
    BY <2>1, <2>2, <2>4 DEF IndInv, TypeOK
  <2>7. row.pid = request[r].pid
    OBVIOUS
  <2> HIDE DEF row
  <2> QED BY <2>2, <2>3, <2>5, <2>6, <2>7
<1>3. CASE request'[r] # request[r] /\ ~SaveMapping(r)
  <2>1. SendStep(r)
    <3>1. ASSUME NEW q \in Requests, q # r, SendStep(q) PROVE request'[r] = request[r]
      BY <3>1 DEF SendStep, RejectRequest, DispatchRequest, ProviderAccepts,
        ProviderRefuses, ProviderAnswers, RecordFailure, SaveMapping, CrashRequest,
        IndInv, TypeOK
    <3>2. ASSUME NEW d \in Deliveries, WebhookStep(d) PROVE request' = request
      BY <3>2 DEF WebhookStep, RefuseWebhook, ReceiveWebhook, AcceptWebhook,
        LookupMapping, UpdateStatus, PublishEvent, CrashWebhook
    <3> QED BY <1>3, <3>1, <3>2 DEF Next, AllAnswered, vars
  <2>2. ProviderAnswers(r)
    BY <1>3, <2>1 DEF SendStep, RejectRequest, DispatchRequest, ProviderAccepts,
      ProviderRefuses, RecordFailure, CrashRequest, IndInv, TypeOK, Request
  <2> QED BY <2>2 DEF ProviderAnswers, IndInv, TypeOK, Request
<1> QED BY <1>1, <1>2, <1>3

\* A send is answered with success and a provider id only when receipts for that id
\* find its row, now and ever after.
THEOREM SentTheorem == Spec => []SentMeansStored
<1>1. Init => SentKnown
  BY DEF Init, SentKnown
<1>2. SentKnown => SentMeansStored
  BY DEF SentKnown, SentMeansStored
<1> QED BY <1>1, <1>2, SentKnownStep, Invariance, PTL DEF Spec

-----------------------------------------------------------------------------
(* Where the facts come from. *)

\* What a webhook is about is known from its acceptance on, an update is that of a
\* receipt, and a send with a row in the delivery log has been answered.
WebhookKinds ==
  \A d \in Deliveries :
    /\ delivery[d].pc = "new" => delivery[d].status = None
    /\ delivery[d].pc = "lookup" => delivery[d].kind \in {"receipt", "inbound"}
    /\ delivery[d].pc = "update" => delivery[d].kind = "receipt"

LogAnswered == \A r \in deliveryLog : request[r].pc \in RequestAnswered

LEMMA WebhookKindsStep ==
  ASSUME IndInv, WebhookKinds, [Next]_vars
  PROVE  WebhookKinds'
<1>1. ASSUME NEW d \in Deliveries, WebhookStep(d) PROVE WebhookKinds'
  <2>1. \A e \in Deliveries : e # d => delivery'[e] = delivery[e]
    BY <1>1 DEF WebhookStep, RefuseWebhook, ReceiveWebhook, AcceptWebhook,
      LookupMapping, UpdateStatus, PublishEvent, CrashWebhook, IndInv, TypeOK
  <2> delivery \in [Deliveries -> Delivery]
    BY DEF IndInv, TypeOK
  <2>2. CASE ReceiveWebhook(d)
    BY <2>1, <2>2 DEF WebhookKinds, ReceiveWebhook, AcceptWebhook
  <2>3. CASE LookupMapping(d)
    <3>1. PICK pc : /\ delivery'[d].pc = pc /\ delivery'[d].kind = delivery[d].kind
                    /\ pc \notin {"new", "lookup"}
                    /\ pc = "update" => delivery[d].kind # "inbound"
      <4>1. CASE delivery' = [delivery EXCEPT ![d].pc = "error"]
        BY <4>1 DEF Delivery
      <4>2. ASSUME NEW seen,
                   delivery' = [delivery EXCEPT ![d].pc = AfterLookup(d, seen),
                                                ![d].seen = seen]
            PROVE  /\ delivery'[d].pc = AfterLookup(d, seen)
                   /\ delivery'[d].kind = delivery[d].kind
        BY <4>2 DEF Delivery
      <4>3. \A seen : /\ AfterLookup(d, seen) \notin {"new", "lookup"}
                      /\ AfterLookup(d, seen) = "update" => delivery[d].kind # "inbound"
        BY DEF AfterLookup
      <4>4. \/ delivery' = [delivery EXCEPT ![d].pc = "error"]
            \/ \E seen : delivery' = [delivery EXCEPT ![d].pc = AfterLookup(d, seen),
                                                      ![d].seen = seen]
        BY <2>3 DEF LookupMapping
      <4> QED BY <4>1, <4>2, <4>3, <4>4
    <3>2. delivery[d].kind \in {"receipt", "inbound"}
      BY <2>3 DEF LookupMapping, WebhookKinds
    <3> QED BY <2>1, <3>1, <3>2 DEF WebhookKinds
  <2>4. CASE ~ReceiveWebhook(d) /\ ~LookupMapping(d)
    <3>1. PICK pc \in {"refused", "publish", "error", "acked", "crashed"} :
            delivery' = [delivery EXCEPT ![d].pc = pc]
      BY <1>1, <2>4 DEF WebhookStep, RefuseWebhook, UpdateStatus, PublishEvent, CrashWebhook
    <3>2. delivery'[d].pc \notin {"new", "lookup", "update"}
      BY <3>1 DEF Delivery
    <3> QED BY <2>1, <3>2 DEF WebhookKinds
  <2> QED BY <2>2, <2>3, <2>4
<1>2. CASE delivery' = delivery
  BY <1>2 DEF WebhookKinds
<1> QED BY <1>1, <1>2 DEF Next, SendStep, AllAnswered, vars, RejectRequest,
  DispatchRequest, ProviderAccepts, ProviderRefuses, ProviderAnswers, RecordFailure,
  SaveMapping, CrashRequest

LEMMA LogAnsweredStep ==
  ASSUME IndInv, LogAnswered, [Next]_vars
  PROVE  LogAnswered'
<1>1. ASSUME NEW r \in Requests, RecordFailure(r) PROVE LogAnswered'
  <2>1. deliveryLog' \subseteq deliveryLog \cup {r} /\ deliveryLog \subseteq Requests
    BY <1>1 DEF RecordFailure, IndInv, TypeOK
  <2>2. request'[r].pc \in RequestAnswered
    BY <1>1 DEF RecordFailure, RequestAnswered, IndInv, TypeOK, Request
  <2> QED BY <2>1, <2>2, StepKeepsSends DEF LogAnswered, SendsKept
<1>2. CASE deliveryLog' = deliveryLog
  BY <1>2, StepKeepsSends DEF LogAnswered, SendsKept, IndInv, TypeOK
<1> QED BY <1>1, <1>2 DEF Next, SendStep, WebhookStep, AllAnswered, vars, RejectRequest,
  DispatchRequest, ProviderAccepts, ProviderRefuses, ProviderAnswers,
  SaveMapping, CrashRequest, RefuseWebhook, ReceiveWebhook, AcceptWebhook, LookupMapping,
  UpdateStatus, PublishEvent, CrashWebhook

\* A fact is new only when a failure is recorded or a receipt is stored.
LEMMA NewFact ==
  ASSUME IndInv, WebhookKinds, [Next]_vars,
         NEW id \in MessageIds, NEW status, <<id, status>> \in outbox' \ outbox
  PROVE  \/ /\ status = "FAILED"
            /\ \E r \in deliveryLog' : r \in Requests /\ request'[r].id = id
         \/ \E d \in Deliveries :
              /\ delivery[d].pc = "update" /\ delivery[d].kind = "receipt"
              /\ delivery[d].status = status /\ delivery[d].pid \in ProviderIds
              /\ accepted[delivery[d].pid] = id
<1>1. ASSUME NEW r \in Requests, RecordFailure(r)
      PROVE  /\ status = "FAILED"
             /\ \E q \in deliveryLog' : q \in Requests /\ request'[q].id = id
  <2>1. r \in deliveryLog' /\ request[r].id = id /\ status = "FAILED"
    BY <1>1 DEF RecordFailure, Enqueue
  <2>2. request'[r].id = id
    BY <1>1, <2>1 DEF RecordFailure, IndInv, TypeOK, Request
  <2> QED BY <2>1, <2>2
<1>2. ASSUME NEW d \in Deliveries, UpdateStatus(d)
      PROVE  /\ delivery[d].pc = "update" /\ delivery[d].kind = "receipt"
             /\ delivery[d].status = status /\ delivery[d].pid \in ProviderIds
             /\ accepted[delivery[d].pid] = id
  <2>1. PICK i \in RowsOf(delivery[d].pid) : Enqueue(i, delivery[d].status)
    BY <1>2 DEF UpdateStatus
  <2>2. i = id /\ delivery[d].status = status
    BY <2>1 DEF Enqueue
  <2> QED BY <1>2, <2>1, <2>2, RowIsAccepted DEF UpdateStatus, WebhookKinds
<1>3. ASSUME NEW r \in Requests, SaveMapping(r) PROVE FALSE
  BY <1>3 DEF SaveMapping, Enqueue, FactStatuses
<1>4. \/ \E r \in Requests : RecordFailure(r) \/ SaveMapping(r)
      \/ \E d \in Deliveries : UpdateStatus(d)
  BY DEF Next, SendStep, WebhookStep, AllAnswered, vars, RejectRequest,
    DispatchRequest, ProviderAccepts, ProviderRefuses, ProviderAnswers,
    CrashRequest, RefuseWebhook, ReceiveWebhook, AcceptWebhook, LookupMapping,
    PublishEvent, CrashWebhook
<1> QED BY <1>1, <1>2, <1>3, <1>4

LEMMA FactsHaveCauseStep ==
  ASSUME IndInv, WebhookKinds, LogAnswered, FactsHaveCause, [Next]_vars
  PROVE  FactsHaveCause'
<1> SUFFICES ASSUME NEW id \in MessageIds, NEW status \in DeliveryStatus,
                    <<id, status>> \in outbox'
             PROVE  \/ status = "FAILED" /\ \E r \in deliveryLog' : request'[r].id = id
                    \/ \E d \in Deliveries :
                         /\ delivery'[d].kind = "receipt" /\ delivery'[d].status = status
                         /\ delivery'[d].pid \in ProviderIds
                         /\ accepted'[delivery'[d].pid] = id
  BY DEF FactsHaveCause
<1>1. ASSUME NEW d \in Deliveries,
             delivery[d].kind = "receipt", delivery[d].status = status,
             delivery[d].pid \in ProviderIds, accepted[delivery[d].pid] = id
      PROVE  /\ delivery'[d].kind = "receipt" /\ delivery'[d].status = status
             /\ delivery'[d].pid \in ProviderIds /\ accepted'[delivery'[d].pid] = id
  <2>1. accepted[delivery[d].pid] # None
    BY <1>1, StatusFacts
  <2>2. delivery[d].pc # "new"
    BY <1>1, StatusFacts DEF WebhookKinds
  <2> QED BY <1>1, <2>1, <2>2, StepKeepsAccepted, StepKeepsWebhooks
          DEF AcceptedKept, WebhooksKept
<1>2. CASE <<id, status>> \in outbox
  <2>1. ASSUME NEW r \in deliveryLog, request[r].id = id
        PROVE  r \in deliveryLog' /\ request'[r].id = id
    BY <2>1, StepKeepsSends DEF SendsKept, LogAnswered, IndInv, TypeOK
  <2> QED BY <1>1, <1>2, <2>1 DEF FactsHaveCause
<1>3. CASE <<id, status>> \notin outbox
  BY <1>1, <1>3, NewFact
<1> QED BY <1>2, <1>3

\* Analytics counts nothing that did not happen: behind every fact is a receipt of
\* the provider for a message that it took, or a failed send in the delivery log.
THEOREM FactsTheorem == Spec => []FactsHaveCause
<1>1. Init => WebhookKinds /\ LogAnswered /\ FactsHaveCause
  BY DEF Init, WebhookKinds, LogAnswered, FactsHaveCause
<1> QED BY <1>1, WebhookKindsStep, LogAnsweredStep, FactsHaveCauseStep, Invariance, PTL
        DEF Spec

-----------------------------------------------------------------------------
(* The events of receipts. *)

HasEvent(pid, status) ==
  \E e \in Deliveries :
    /\ delivery[e].pc \in {"publish", "acked"}
    /\ delivery[e].kind = "receipt"
    /\ delivery[e].pid = pid
    /\ delivery[e].status = status

\* Without a fault, the receipt that brought a row its status is on its way to the
\* bus or was there.
StatusHasEvent ==
  faults = 0 =>
    \A id \in MessageIds :
      Stored(id) /\ mapping[id].status \in FactStatuses =>
        HasEvent(mapping[id].pid, mapping[id].status)

LEMMA FaultsGrow ==
  ASSUME IndInv, [Next]_vars, faults' = 0
  PROVE  faults = 0
<1>1. faults' \in {faults, faults + 1}
  BY DEF Next, SendStep, WebhookStep, AllAnswered, vars, Reported,
    RejectRequest, DispatchRequest, ProviderAccepts, ProviderRefuses,
    ProviderAnswers, RecordFailure, SaveMapping, CrashRequest, RefuseWebhook,
    ReceiveWebhook, AcceptWebhook, LookupMapping, UpdateStatus, PublishEvent,
    CrashWebhook
<1>2. faults \in Nat
  BY GatewayAssumption DEF IndInv, TypeOK
<1> QED BY <1>1, <1>2

\* Only a crash keeps an event from the bus.
LEMMA EventStays ==
  ASSUME IndInv, [Next]_vars, faults' = 0,
         NEW pid, NEW status, HasEvent(pid, status)
  PROVE  HasEvent(pid, status)'
<1>1. PICK e \in Deliveries :
        /\ delivery[e].pc \in {"publish", "acked"} /\ delivery[e].kind = "receipt"
        /\ delivery[e].pid = pid /\ delivery[e].status = status
  BY DEF HasEvent
<1>2. /\ delivery'[e].kind = "receipt"
      /\ delivery'[e].pid = pid /\ delivery'[e].status = status
  BY <1>1, StepKeepsWebhooks DEF WebhooksKept
<1>3. delivery'[e].pc \in {"publish", "acked"}
  <2>1. ASSUME NEW d \in Deliveries, WebhookStep(d), d # e
        PROVE  delivery'[e] = delivery[e]
    BY <2>1 DEF WebhookStep, RefuseWebhook, ReceiveWebhook, AcceptWebhook,
      LookupMapping, UpdateStatus, PublishEvent, CrashWebhook, IndInv, TypeOK
  <2>2. ASSUME WebhookStep(e) PROVE delivery'[e].pc = "acked"
    <3>1. ~CrashWebhook(e)
      BY FaultsGrow DEF CrashWebhook
    <3>2. PublishEvent(e)
      BY <1>1, <2>2, <3>1 DEF WebhookStep, RefuseWebhook, ReceiveWebhook, AcceptWebhook,
        LookupMapping, UpdateStatus
    <3> QED BY <3>2 DEF PublishEvent, IndInv, TypeOK, Delivery
  <2>3. (\A d \in Deliveries : ~WebhookStep(d)) => delivery' = delivery
    BY DEF Next, SendStep, AllAnswered, vars, RejectRequest,
      DispatchRequest, ProviderAccepts, ProviderRefuses, ProviderAnswers, RecordFailure,
      SaveMapping, CrashRequest
  <2> QED BY <1>1, <2>1, <2>2, <2>3
<1> QED BY <1>2, <1>3 DEF HasEvent

LEMMA StatusHasEventStep ==
  ASSUME IndInv, WebhookKinds, StatusHasEvent, [Next]_vars
  PROVE  StatusHasEvent'
<1> SUFFICES ASSUME faults' = 0, NEW id \in MessageIds,
                    mapping'[id] # None, mapping'[id].status \in FactStatuses
             PROVE  HasEvent(mapping[id].pid, mapping[id].status)'
  BY DEF StatusHasEvent, Stored
<1>1. CASE mapping'[id] = mapping[id]
  <2>1. HasEvent(mapping[id].pid, mapping[id].status)
    BY <1>1, FaultsGrow DEF StatusHasEvent, Stored
  <2> QED BY <1>1, <2>1, EventStays DEF HasEvent
<1>2. ASSUME NEW r \in Requests, SaveMapping(r), mapping'[id] # mapping[id]
      PROVE  FALSE
  <2> DEFINE row == [pid |-> request[r].pid, status |-> "SENT"]
  <2>1. mapping' = [mapping EXCEPT ![request[r].id] = row]
    BY <1>2, SaveMappingRow
  <2>2. mapping'[id] = row
    BY <1>2, <2>1 DEF IndInv, TypeOK
  <2> QED BY <2>2 DEF FactStatuses
<1>3. ASSUME NEW d \in Deliveries, UpdateStatus(d), mapping'[id] # mapping[id]
      PROVE  HasEvent(mapping[id].pid, mapping[id].status)'
  <2>1. PICK i \in MessageIds :
              /\ Stored(i) /\ mapping[i] \in Mapping
              /\ mapping[i].pid = delivery[d].pid
              /\ mapping' = [mapping EXCEPT ![i].status = delivery[d].status]
    BY <1>3, UpdateStatusRow
  <2>2. i = id
    BY <1>3, <2>1 DEF IndInv, TypeOK
  <2>3. mapping'[id].pid = delivery[d].pid /\ mapping'[id].status = delivery[d].status
    BY <2>1, <2>2 DEF IndInv, TypeOK, Mapping
  <2>4. delivery[d].kind = "receipt" /\ delivery[d].pc = "update"
    BY <1>3 DEF UpdateStatus, WebhookKinds
  <2>5. PICK ok \in BOOLEAN :
          /\ ok \/ faults' = faults + 1
          /\ delivery' = [delivery EXCEPT ![d].pc = IF ok THEN "publish" ELSE "error"]
    BY <1>3 DEF UpdateStatus, Reported
  <2>6. ok
    BY <2>5, FaultsGrow
  <2>7. /\ delivery'[d].pc = "publish" /\ delivery'[d].kind = "receipt"
        /\ delivery'[d].pid = delivery[d].pid /\ delivery'[d].status = delivery[d].status
    BY <2>4, <2>5, <2>6 DEF IndInv, TypeOK, Delivery
  <2> QED BY <2>3, <2>7 DEF HasEvent
<1> QED BY <1>1, <1>2, <1>3, RowsUntouched

LEMMA SkippedStep ==
  ASSUME IndInv, WebhookKinds, StatusHasEvent, SkippedReceiptReachesBus, [Next]_vars
  PROVE  SkippedReceiptReachesBus'
<1> SUFFICES ASSUME faults' = 0, NEW d \in Deliveries,
                    delivery'[d].pc = "skipped", delivery'[d].kind = "receipt",
                    delivery'[d].status \in FactStatuses
             PROVE  HasEvent(delivery[d].pid, delivery[d].status)'
  BY DEF SkippedReceiptReachesBus, HasEvent
<1>1. CASE delivery'[d] = delivery[d]
  <2>1. HasEvent(delivery[d].pid, delivery[d].status)
    BY <1>1, FaultsGrow DEF SkippedReceiptReachesBus, HasEvent
  <2> QED BY <1>1, <2>1, EventStays DEF HasEvent
<1>2. CASE delivery'[d] # delivery[d]
  <2> delivery \in [Deliveries -> Delivery]
    BY DEF IndInv, TypeOK
  <2>1. WebhookStep(d)
    <3>1. ASSUME NEW e \in Deliveries, e # d, WebhookStep(e)
          PROVE  delivery'[d] = delivery[d]
      BY <3>1 DEF WebhookStep, RefuseWebhook, ReceiveWebhook, AcceptWebhook,
        LookupMapping, UpdateStatus, PublishEvent, CrashWebhook
    <3>2. ASSUME NEW r \in Requests, SendStep(r) PROVE delivery' = delivery
      BY <3>2 DEF SendStep, RejectRequest, DispatchRequest, ProviderAccepts,
        ProviderRefuses, ProviderAnswers, RecordFailure, SaveMapping, CrashRequest
    <3> QED BY <1>2, <3>1, <3>2 DEF Next, AllAnswered, vars
  <2>2. LookupMapping(d)
    BY <2>1 DEF WebhookStep, RefuseWebhook, ReceiveWebhook, AcceptWebhook, UpdateStatus,
      PublishEvent, CrashWebhook, Delivery
  <2>3. PICK seen :
          /\ delivery' = [delivery EXCEPT ![d].pc = AfterLookup(d, seen), ![d].seen = seen]
          /\ \/ RowsOf(delivery[d].pid) = {} /\ seen = None
             \/ \E id \in RowsOf(delivery[d].pid) : seen = mapping[id].status
    BY <2>2 DEF LookupMapping, Delivery
  <2>4. /\ AfterLookup(d, seen) = "skipped" /\ delivery[d].kind = "receipt"
        /\ delivery'[d].pid = delivery[d].pid /\ delivery'[d].status = delivery[d].status
    BY <2>3 DEF Delivery
  <2>5. seen # None /\ seen = delivery[d].status
    BY <2>4 DEF AfterLookup
  <2>6. PICK id \in RowsOf(delivery[d].pid) : mapping[id].status = delivery[d].status
    BY <2>3, <2>5
  <2>7. HasEvent(delivery[d].pid, delivery[d].status)
    BY <2>4, <2>6, FaultsGrow, RowIsAccepted DEF StatusHasEvent
  <2> QED BY <2>4, <2>7, EventStays DEF HasEvent
<1> QED BY <1>1, <1>2

\* For any number of overlapping webhooks: unless there was a fault, a receipt that is
\* skipped as a duplicate loses no event, because its twin reaches the bus.
THEOREM SkippedTheorem == Spec => []SkippedReceiptReachesBus
<1>1. Init => WebhookKinds /\ StatusHasEvent /\ SkippedReceiptReachesBus
  BY DEF Init, WebhookKinds, StatusHasEvent, SkippedReceiptReachesBus, Stored
<1> QED BY <1>1, WebhookKindsStep, StatusHasEventStep, SkippedStep, Invariance, PTL
        DEF Spec

=============================================================================
