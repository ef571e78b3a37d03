-------------------------- MODULE MessageApiProofs --------------------------
(***************************************************************************)
(* Theorems about MessageApi, for any numbers of messages, webhooks, health *)
(* queries and faults: the interface chooses providers as ProviderSelection *)
(* does, a stored mapping is filed under the provider that handed out its  *)
(* id, and no webhook gets in without a credential.                        *)
(***************************************************************************)
EXTENDS MessageApi, ProviderSelectionProofs

-----------------------------------------------------------------------------
(* The interface implements ProviderSelection *)

LEMMA AdmittedChannel ==
  ASSUME NEW in \in Here(Admitted)
  PROVE  in.channel \in Channels
BY DEF Here, Admitted, Sends, SendInputs

\* A step of a send is one of its dispatch, or the dispatch has no part in it.
LEMMA SendStepSelects ==
  ASSUME NEW m \in Messages,
         RefuseSend(m) \/ ReceiveSend(m) \/ SendStep(m)
  PROVE  [Next]_vars
<1>1. CASE RefuseSend(m)
  BY <1>1 DEF RefuseSend, selectionVars
<1>2. CASE ReceiveSend(m)
  BY <1>2, AdmittedChannel DEF ReceiveSend, Next
<1>3. CASE Probe(m) \/ TryNext(m) \/ FindNone(m) \/ CallProvider(m)
  BY <1>3 DEF Probe, TryNext, FindNone, CallProvider, Next
<1>4. CASE AdapterRefuses(m) \/ AttemptFails(m) \/ ResponseArrives(m)
  BY <1>4 DEF AdapterRefuses, AttemptFails, ResponseArrives, Next
<1>5. ASSUME NEW pid \in ProviderIds, MessageTaken(m, pid)
      PROVE  [Next]_vars
  BY <1>5 DEF MessageTaken, Next
<1>6. CASE FailureRecorded(m) \/ MappingSaved(m)
  BY <1>6 DEF FailureRecorded, MappingSaved, selectionVars
<1> QED BY <1>1, <1>2, <1>3, <1>4, <1>5, <1>6 DEF SendStep

\* The other steps: webhooks leave the providers alone.
LEMMA ApiSelectionStep == [ApiNext]_apiVars => [Next]_vars
<1> SUFFICES ASSUME [ApiNext]_apiVars
             PROVE  [Next]_vars
  OBVIOUS
<1>1. CASE UNCHANGED apiVars
  BY <1>1 DEF apiVars, selectionVars
<1>2. ASSUME NEW d \in Deliveries,
             \/ RefuseWebhook(d) \/ IgnoreWebhook(d) \/ WebhookStep(d)
             \/ \E pid \in ProviderIds \cup ForeignIds : AcceptWebhook(d, pid)
      PROVE  [Next]_vars
  BY <1>2 DEF RefuseWebhook, IgnoreWebhook, WebhookStep, AcceptWebhook, selectionVars
<1>3. ASSUME NEW q \in Queries, QueryStep(q)
      PROVE  [Next]_vars
  BY <1>3 DEF QueryStep, Next
<1>4. CASE HealthStep
  BY <1>4 DEF HealthStep, Next
<1> QED BY <1>1, <1>2, <1>3, <1>4, SendStepSelects DEF ApiNext

\* Whatever the guard, the adapters, the store and the webhooks do, the interface
\* chooses its providers as ProviderSelection says: every step of it is one of
\* that specification or leaves its state alone.
THEOREM ApiSelects == ApiSpec => Spec
<1>1. ApiInit => Init
  BY DEF ApiInit
<1> QED BY <1>1, ApiSelectionStep, PTL DEF ApiSpec, Spec

\* So a fallback is earned by every send that comes in over HTTP, too.
THEOREM ApiFallbackIsEarned == FairApi => []FallbackEarned
BY ApiSelects, FallbackIsEarned, PTL DEF FairApi

\* And a gateway that calls itself healthy saw each of its providers up.
THEOREM ApiHealthySawEachUp == FairApi => []HealthyMeansEachWasUp
BY ApiSelects, HealthySawEachUp, PTL DEF FairApi

-----------------------------------------------------------------------------
(* The inductive invariant *)

\* Which variables are functions on what, and the fields that later steps change.
Shape ==
  /\ request \in [Messages -> Core!Request]
  /\ DOMAIN accepted = ProviderIds /\ DOMAIN holder = ProviderIds
  /\ DOMAIN mapping = MessageIds /\ DOMAIN filed = MessageIds
  /\ DOMAIN input = Messages /\ DOMAIN response = Messages
  /\ DOMAIN delivery = Deliveries /\ DOMAIN known = Deliveries
  /\ \A d \in Deliveries :
       /\ {"pc", "status"} \subseteq DOMAIN delivery[d]
       /\ delivery[d].pc = "update" => delivery[d].status \in Core!DeliveryStatus

\* What the parts know of the same send: the store has the id that came in, and the
\* holder of the id in hand is the provider that was chosen, then the one that
\* answered.
SendLinks(m) ==
  /\ send[m].pc # "none" => input[m] \in Input
  /\ request[m].pc \in {"dispatching", "accepted", "saving"} =>
       send[m].pc # "none" /\ request[m].id = input[m].id
  /\ request[m].pc \in {"accepted", "saving"} =>
       request[m].pid \in ProviderIds /\ accepted[request[m].pid] # None
  /\ request[m].pc = "accepted" =>
       send[m].pc = "taken" /\ holder[request[m].pid] = Candidate(m)
  /\ request[m].pc = "saving" => response[m].by = holder[request[m].pid]

\* What is known of a stored row.
RowLinks(id) ==
  Stored(id) =>
    /\ mapping[id] \in Core!Mapping
    /\ accepted[mapping[id].pid] # None
    /\ filed[id] = holder[mapping[id].pid]

ApiInv ==
  /\ IndInv
  /\ Shape
  /\ \A m \in Messages : SendLinks(m)
  /\ \A id \in MessageIds : RowLinks(id)
  /\ WebhooksAuthentic

LEMMA InitApiInv == ApiInit => ApiInv
<1> SUFFICES ASSUME ApiInit
             PROVE  ApiInv
  OBVIOUS
<1>1. IndInv /\ \A m \in Messages : send[m].pc = "none"
  BY InitIndInv DEF ApiInit, Init
<1>2. Shape
  BY DEF ApiInit, Core!Init, Shape, Core!Request
<1>3. \A m \in Messages : SendLinks(m)
  BY <1>1 DEF ApiInit, Core!Init, SendLinks
<1>4. \A id \in MessageIds : RowLinks(id)
  BY DEF ApiInit, Core!Init, RowLinks, Stored
<1>5. WebhooksAuthentic
  BY DEF ApiInit, Core!Init, WebhooksAuthentic
<1> QED BY <1>1, <1>2, <1>3, <1>4, <1>5 DEF ApiInv

-----------------------------------------------------------------------------
(* What a step leaves alone *)

\* An id that was handed out stays with its holder.
HoldersKept ==
  \A pid \in ProviderIds : accepted[pid] # None =>
    accepted'[pid] = accepted[pid] /\ holder'[pid] = holder[pid]

LEMMA LinksUntouched ==
  ASSUME ApiInv, NEW m \in Messages, HoldersKept, config' = config,
         UNCHANGED <<send[m], request[m], input[m], response[m]>>
  PROVE  SendLinks(m)'
<1>1. Candidate(m)' = Candidate(m)
  BY SameCandidates DEF Candidate
<1> QED BY <1>1 DEF ApiInv, SendLinks, HoldersKept

LEMMA RowsUntouched ==
  ASSUME ApiInv, HoldersKept, NEW id \in MessageIds,
         UNCHANGED <<mapping[id], filed[id]>>
  PROVE  RowLinks(id)'
BY DEF ApiInv, RowLinks, Stored, HoldersKept, Core!Mapping, Core!DeliveryStatus

\* The configured secrets are fixed at the start.
LEMMA AuthenticUntouched ==
  ASSUME ApiInv, UNCHANGED <<config, delivery, known>>
  PROVE  WebhooksAuthentic'
BY DEF ApiInv, WebhooksAuthentic, ConfiguredSecrets

\* A step of one send that leaves the stored rows alone.
LEMMA OneSendKeeps ==
  ASSUME ApiInv, [Next]_vars, config' = config, HoldersKept, Shape',
         UNCHANGED <<mapping, filed, delivery, known>>,
         NEW m \in Messages, SendLinks(m)',
         \A n \in Messages \ {m} :
           UNCHANGED <<send[n], request[n], input[n], response[n]>>
  PROVE  ApiInv'
<1>1. IndInv'
  BY NextIndInv DEF ApiInv
<1>2. \A n \in Messages : SendLinks(n)'
  BY LinksUntouched
<1>3. \A id \in MessageIds : RowLinks(id)'
  BY RowsUntouched
<1> QED BY <1>1, <1>2, <1>3, AuthenticUntouched DEF ApiInv

-----------------------------------------------------------------------------
(* The steps of a send *)

LEMMA RefuseSendKeeps ==
  ASSUME ApiInv, NEW m \in Messages, RefuseSend(m)
  PROVE  ApiInv'
<1> USE DEF RefuseSend, Core!RejectRequest, selectionVars, vars, storeVars, webhookVars
<1>1. request'[m].pc = "rejected"
  BY DEF ApiInv, Shape, Core!Request
<1>2. Shape'
  BY DEF ApiInv, Shape, Core!Request, Core!RequestAnswered
<1>3. SendLinks(m)'
  BY <1>1 DEF ApiInv, SendLinks
<1>4. \A n \in Messages \ {m} : request'[n] = request[n]
  BY DEF ApiInv, Shape
<1> QED BY <1>2, <1>3, <1>4, OneSendKeeps DEF HoldersKept

LEMMA AdmittedInput ==
  ASSUME NEW in \in Here(Admitted)
  PROVE  [id |-> in.id, v4 |-> in.v4, text |-> in.text] \in Input
<1>1. PICK k \in BOOLEAN, cs \in SUBSET Channels, i \in Sends :
        in = [keyConfigured |-> k, channels |-> cs, channel |-> i.channel,
              id |-> i.id, v4 |-> i.tenant = "v4", text |-> TextOf(i)]
  BY DEF Here, Admitted
<1>2. in.id = i.id /\ in.v4 = (i.tenant = "v4") /\ in.text = TextOf(i)
  BY <1>1
<1>3. in.id \in MessageIds
  BY <1>2 DEF Sends, SendInputs
<1>4. in.v4 \in BOOLEAN
  BY <1>2
<1>5. in.text \in {"plain", "given", "blank"}
  BY <1>2 DEF TextOf
<1> QED BY <1>3, <1>4, <1>5 DEF Input

LEMMA ReceiveSendKeeps ==
  ASSUME ApiInv, NEW m \in Messages, ReceiveSend(m)
  PROVE  ApiInv'
<1> USE DEF ReceiveSend, Dispatch, coreVars, storeVars, webhookVars
<1>1. [Next]_vars
  BY SendStepSelects
<1>2. Shape'
  BY DEF ApiInv, Shape
<1>3. SendLinks(m)'
  <2>1. input'[m] \in Input
    BY AdmittedInput DEF ApiInv, Shape
  <2>2. request[m].pc \notin {"dispatching", "accepted", "saving"}
    BY DEF ApiInv, SendLinks
  <2> QED BY <2>1, <2>2 DEF SendLinks
<1>4. \A n \in Messages \ {m} : send'[n] = send[n] /\ input'[n] = input[n]
  BY DEF ApiInv, IndInv, TypeOK, Shape
<1> QED BY <1>1, <1>2, <1>3, <1>4, OneSendKeeps DEF HoldersKept

\* A step of the choice touches neither the store nor what is known of the input.
LEMMA ChoiceKeeps ==
  ASSUME ApiInv, [Next]_vars, config' = config, NEW m \in Messages,
         \A n \in Messages \ {m} : send'[n] = send[n],
         send[m].pc \in {"probing", "probed"},
         Shape', UNCHANGED <<accepted, mapping, delivery, input, response>>,
         \A n \in Messages \ {m} : request'[n] = request[n],
         request'[m].pc \in {"dispatching", "accepted", "saving"} =>
           /\ request'[m] = request[m] \/ request'[m].pc = "dispatching"
           /\ send'[m].pc # "none" /\ request'[m].id = input[m].id,
         UNCHANGED <<storeVars, webhookVars>>
  PROVE  ApiInv'
<1> USE DEF storeVars, webhookVars
<1>1. SendLinks(m)'
  BY DEF ApiInv, SendLinks
<1> QED BY <1>1, OneSendKeeps DEF HoldersKept

LEMMA ChoosingKeeps ==
  ASSUME ApiInv, NEW m \in Messages, Probe(m) \/ TryNext(m)
  PROVE  ApiInv'
<1> USE DEF Probe, TryNext, ProbeAnswered, ProbeFails, Resolve, coreVars, sendVars,
            storeVars, webhookVars
<1>1. [Next]_vars
  BY SendStepSelects DEF SendStep
<1>2. Shape'
  BY DEF ApiInv, Shape
<1>3. request[m].pc \in {"dispatching", "accepted", "saving"} =>
        send'[m].pc # "none" /\ request[m].id = input[m].id
  BY DEF ApiInv, SendLinks, IndInv, TypeOK, Send
<1>4. \A n \in Messages \ {m} : send'[n] = send[n]
  BY DEF ApiInv, IndInv, TypeOK
<1> QED BY <1>1, <1>2, <1>3, <1>4, ChoiceKeeps

LEMMA FindNoneKeeps ==
  ASSUME ApiInv, NEW m \in Messages, FindNone(m)
  PROVE  ApiInv'
<1> USE DEF FindNone, Resolve, Core!RejectRequest, storeVars, webhookVars
<1>1. [Next]_vars
  BY SendStepSelects DEF SendStep
<1>2. Shape'
  BY DEF ApiInv, Shape, Core!Request, Core!RequestAnswered
<1>3. request'[m].pc = "rejected"
  BY DEF ApiInv, Shape, Core!Request
<1>4. \A n \in Messages \ {m} : send'[n] = send[n] /\ request'[n] = request[n]
  BY DEF ApiInv, IndInv, TypeOK, Shape
<1> QED BY <1>1, <1>2, <1>3, <1>4, ChoiceKeeps

LEMMA CallProviderKeeps ==
  ASSUME ApiInv, NEW m \in Messages, CallProvider(m)
  PROVE  ApiInv'
<1> USE DEF CallProvider, Resolve, Core!DispatchRequest, sendVars, storeVars,
            webhookVars
<1>1. [Next]_vars
  BY SendStepSelects DEF SendStep
<1>2. input[m] \in Input
  BY DEF ApiInv, SendLinks
<1>3. Shape'
  BY <1>2 DEF ApiInv, Shape, Input, Core!Request, Core!RequestInFlight
<1>4. request'[m].pc = "dispatching" /\ request'[m].id = input[m].id
  BY DEF ApiInv, Shape
<1>5. \A n \in Messages \ {m} : send'[n] = send[n] /\ request'[n] = request[n]
  BY DEF ApiInv, IndInv, TypeOK, Shape
<1> QED BY <1>1, <1>3, <1>4, <1>5, ChoiceKeeps

LEMMA AttemptFailsKeeps ==
  ASSUME ApiInv, NEW m \in Messages, AdapterRefuses(m) \/ AttemptFails(m)
  PROVE  ApiInv'
<1>1. [Next]_vars
  BY SendStepSelects DEF SendStep
<1>2. /\ SendFails(m) /\ Core!ProviderRefuses(m)
      /\ UNCHANGED <<input, holder, filed, known>>
      /\ \E r : response' = [response EXCEPT ![m] = r]
  BY DEF AdapterRefuses, AttemptFails, storeVars, webhookVars
<1>3. /\ request' = [request EXCEPT ![m].pc = "recording"]
      /\ UNCHANGED <<config, accepted, mapping, delivery>>
      /\ \A n \in Messages \ {m} : send'[n] = send[n]
  BY <1>2 DEF SendFails, Core!ProviderRefuses, ApiInv, IndInv, TypeOK
<1>4. request[m] \in Core!Request
  BY DEF ApiInv, Shape
<1>5. request'[m].pc = "recording"
  BY <1>3, <1>4 DEF ApiInv, Shape, Core!Request
<1>6. [request[m] EXCEPT !.pc = "recording"] \in Core!Request
  BY <1>4 DEF Core!Request, Core!RequestInFlight
<1>7. Shape'
  BY <1>2, <1>3, <1>6 DEF ApiInv, Shape
<1>8. send[m].pc # "none"
  BY <1>2 DEF SendFails
<1>9. SendLinks(m)'
  BY <1>2, <1>5, <1>8 DEF ApiInv, SendLinks
<1>10. \A n \in Messages \ {m} :
         UNCHANGED <<request[n], input[n], response[n]>>
  BY <1>2, <1>3 DEF ApiInv, Shape
<1> QED BY <1>1, <1>2, <1>3, <1>7, <1>9, <1>10, OneSendKeeps DEF HoldersKept

\* The id is new, and its holder the provider that was called.
LEMMA MessageTakenKeeps ==
  ASSUME ApiInv, NEW m \in Messages, NEW pid \in ProviderIds, MessageTaken(m, pid)
  PROVE  ApiInv'
<1> USE DEF MessageTaken, ProviderTakes, Core!ProviderAccepts, sendVars, webhookVars
<1>1. [Next]_vars
  BY SendStepSelects DEF SendStep
<1>2. Shape'
  <2>1. request[m] \in Core!Request
    BY DEF ApiInv, Shape
  <2>2. [request[m] EXCEPT !.pc = "accepted", !.pid = pid] \in Core!Request
    BY <2>1 DEF Core!Request, Core!RequestInFlight
  <2>3. request' \in [Messages -> Core!Request]
    BY <2>2 DEF ApiInv, Shape
  <2> QED BY <2>3 DEF ApiInv, Shape
<1>3. /\ request'[m].pc = "accepted" /\ request'[m].pid = pid
      /\ request'[m].id = request[m].id /\ request[m].id = input[m].id
      /\ send'[m].pc = "taken"
  BY DEF ApiInv, IndInv, TypeOK, Send, Shape, Core!Request, SendLinks
<1>4. Candidate(m)' = Candidate(m)
  <2>1. send'[m].channel = send[m].channel /\ send'[m].at = send[m].at
    BY DEF ApiInv, IndInv, TypeOK, Send
  <2> QED BY <2>1, SameCandidates DEF Candidate
<1>5. holder'[pid] = Candidate(m)
  BY DEF ApiInv, Shape, Provider
<1>6. accepted'[pid] = input[m].id /\ input[m] \in Input
  BY <1>3 DEF ApiInv, Shape, SendLinks
<1>7. accepted'[pid] # None
  BY <1>6, StoreAssumption DEF Input
<1>8. SendLinks(m)'
  BY <1>3, <1>4, <1>5, <1>6, <1>7 DEF SendLinks
<1>9. HoldersKept
  BY DEF ApiInv, Shape, HoldersKept
<1>10. \A n \in Messages \ {m} : send'[n] = send[n] /\ request'[n] = request[n]
  BY DEF ApiInv, IndInv, TypeOK, Shape
<1> QED BY <1>1, <1>2, <1>8, <1>9, <1>10, OneSendKeeps

\* An answer names the provider it comes from.
LEMMA AnsweredBy ==
  ASSUME NEW p \in Providers, NEW r \in AfterTaking(p)
  PROVE  r.by = p
<1>1. CASE p = "EVOLUTION"
  <2>1. ASSUME NEW o
        PROVE  EvolutionSend(o).by = "EVOLUTION"
    <3>1. CASE o.status = 200 /\ o.body # "none"
      BY <3>1 DEF EvolutionSend, Success
    <3>2. CASE o.status = 200 /\ o.body = "none"
      BY <3>2 DEF EvolutionSend, Failure
    <3>3. CASE o.status = 0
      BY <3>3 DEF EvolutionSend, Failure
    <3>4. CASE o.status \notin {0, 200}
      BY <3>4 DEF EvolutionSend, Failure
    <3> QED BY <3>1, <3>2, <3>3, <3>4
  <2> QED BY <1>1, <2>1 DEF AfterTaking
<1>2. CASE p = "RESEND"
  BY <1>2 DEF AfterTaking, ResendSend, Success, Failure, HttpOutcomes
<1>3. CASE p = "STALWART"
  BY <1>3 DEF AfterTaking, StalwartSend, Success, Failure
<1> QED BY <1>1, <1>2, <1>3 DEF Providers

LEMMA ResponseArrivesKeeps ==
  ASSUME ApiInv, NEW m \in Messages, ResponseArrives(m)
  PROVE  ApiInv'
<1>1. [Next]_vars
  BY SendStepSelects DEF SendStep
<1>2. PICK r \in AfterTaking(Provider(m)) :
        /\ IF r.success THEN SendSucceeds(m) ELSE SendFails(m)
        /\ Core!ProviderAnswers(m)
        /\ response' = [response EXCEPT ![m] = r]
        /\ send[m].pc = "taken"
        /\ UNCHANGED <<input, holder, filed, known>>
  BY DEF ResponseArrives, storeVars, webhookVars
<1>3. /\ UNCHANGED <<config, accepted, mapping, delivery>>
      /\ send'[m].pc \in {"sent", "failed"}
      /\ \A n \in Messages \ {m} : send'[n] = send[n]
  BY <1>2 DEF SendSucceeds, SendFails, GivenUp, Core!ProviderAnswers, ApiInv, IndInv,
              TypeOK, Send
<1>4. request[m] \in Core!Request /\ request[m].pc = "accepted"
  BY <1>2 DEF ApiInv, Shape, Core!ProviderAnswers
<1>5. PICK c \in Core!Request :
        /\ request' = [request EXCEPT ![m] = c]
        /\ c.pc \in {"saving", "sent", "recording"}
        /\ c.id = request[m].id
        /\ c.pc = "saving" => c.pid = request[m].pid
  <2> DEFINE saving == [request[m] EXCEPT !.pc = "saving"]
             sent == [request[m] EXCEPT !.pc = "sent", !.pid = None]
             recording == [request[m] EXCEPT !.pc = "recording", !.pid = None]
  <2>1. /\ saving \in Core!Request /\ saving.pc = "saving"
        /\ saving.id = request[m].id /\ saving.pid = request[m].pid
    BY <1>4 DEF Core!Request, Core!RequestInFlight
  <2>2. sent \in Core!Request /\ sent.pc = "sent" /\ sent.id = request[m].id
    BY <1>4 DEF Core!Request, Core!RequestAnswered
  <2>3. /\ recording \in Core!Request /\ recording.pc = "recording"
        /\ recording.id = request[m].id
    BY <1>4 DEF Core!Request, Core!RequestInFlight
  <2>4. request' \in {[request EXCEPT ![m] = saving], [request EXCEPT ![m] = sent],
                      [request EXCEPT ![m] = recording]}
    BY <1>2 DEF Core!ProviderAnswers, ApiInv, Shape
  <2> HIDE DEF saving, sent, recording
  <2> QED BY <2>1, <2>2, <2>3, <2>4
<1>6. request'[m] = c /\ \A n \in Messages \ {m} : request'[n] = request[n]
  BY <1>5 DEF ApiInv, Shape
<1>7. Shape'
  BY <1>2, <1>3, <1>5 DEF ApiInv, Shape
<1>8. response'[m].by = Candidate(m)
  <2>1. Candidate(m) \in Providers
    <3>1. /\ send[m].channel \in Channels /\ send[m].at \in 1..3
          /\ send[m].at <= Len(Candidates(send[m].channel))
      BY <1>2 DEF ApiInv, IndInv, TypeOK, InProgress, Send
    <3> QED BY <3>1, CandidateOrder DEF Candidate
  <2> QED BY <1>2, <2>1, AnsweredBy DEF ApiInv, Shape, Provider
<1>9. SendLinks(m)'
  BY <1>2, <1>3, <1>4, <1>5, <1>6, <1>8 DEF ApiInv, SendLinks
<1>10. \A n \in Messages \ {m} : UNCHANGED <<input[n], response[n]>>
  BY <1>2 DEF ApiInv, Shape
<1> QED BY <1>1, <1>2, <1>3, <1>6, <1>7, <1>9, <1>10, OneSendKeeps DEF HoldersKept

LEMMA FailureRecordedKeeps ==
  ASSUME ApiInv, NEW m \in Messages, FailureRecorded(m)
  PROVE  ApiInv'
<1> USE DEF FailureRecorded, selectionVars, vars, storeVars, webhookVars
<1>1. /\ request' = [request EXCEPT ![m].pc = "badGateway"]
      /\ UNCHANGED <<accepted, mapping, delivery>>
  BY DEF Core!RecordFailure
<1>2. request[m] \in Core!Request
  BY DEF ApiInv, Shape
<1>3. [request[m] EXCEPT !.pc = "badGateway"] \in Core!Request
  BY <1>2 DEF Core!Request, Core!RequestAnswered
<1>4. Shape'
  BY <1>1, <1>3 DEF ApiInv, Shape
<1>5. request'[m].pc = "badGateway"
  BY <1>1, <1>2 DEF ApiInv, Shape, Core!Request
<1>6. SendLinks(m)'
  BY <1>5 DEF ApiInv, SendLinks
<1>7. \A n \in Messages \ {m} : request'[n] = request[n]
  BY <1>1 DEF ApiInv, Shape
<1> QED BY <1>1, <1>4, <1>6, <1>7, OneSendKeeps DEF HoldersKept

\* A row is filed under the provider whose answer brought its id; or nothing is
\* stored, for nothing was committed.
LEMMA MappingSavedKeeps ==
  ASSUME ApiInv, NEW m \in Messages, MappingSaved(m)
  PROVE  ApiInv'
<1> DEFINE id == input[m].id
           row == [pid |-> request[m].pid, status |-> "SENT"]
<1>1. /\ UNCHANGED <<vars, input, response, holder, known, accepted, delivery>>
      /\ request[m].pc = "saving" /\ request[m].id = id /\ id \in MessageIds
      /\ filed' = IF mapping' = mapping THEN filed
                  ELSE [filed EXCEPT ![id] = response[m].by]
  <2>1. request[m].pc = "saving"
    BY DEF MappingSaved, Core!SaveMapping
  <2>2. request[m].id = id /\ id \in MessageIds
    BY <2>1 DEF ApiInv, SendLinks, Input
  <2> QED
    BY <2>1, <2>2 DEF MappingSaved, Core!SaveMapping, FiledUnder, webhookVars, selectionVars
<1>2. mapping' = mapping \/ mapping' = [mapping EXCEPT ![id] = row]
  BY <1>1 DEF MappingSaved, Core!SaveMapping
<1>3. PICK pc \in {"sent", "unavailable"} :
        request' = [request EXCEPT ![m].pc = pc]
  BY DEF MappingSaved, Core!SaveMapping, Core!SaveAnswer
<1>4. request[m] \in Core!Request
  BY DEF ApiInv, Shape
<1>5. [request[m] EXCEPT !.pc = pc] \in Core!Request
  BY <1>4 DEF Core!Request, Core!RequestAnswered
<1>6. Shape'
  BY <1>1, <1>2, <1>3, <1>5 DEF ApiInv, Shape
<1>7. ASSUME NEW n \in Messages
      PROVE  SendLinks(n)'
  <2>1. CASE n = m
    <3>1. request'[m].pc = pc
      BY <1>3, <1>4 DEF ApiInv, Shape, Core!Request
    <3> QED BY <1>1, <2>1, <3>1 DEF vars, ApiInv, SendLinks
  <2>2. CASE n # m
    <3>1. request'[n] = request[n]
      BY <1>3, <2>2 DEF ApiInv, Shape
    <3> QED BY <1>1, <3>1, LinksUntouched DEF vars, HoldersKept
  <2> QED BY <2>1, <2>2
<1>8. ASSUME NEW i \in MessageIds
      PROVE  RowLinks(i)'
  <2>1. CASE mapping' = mapping \/ i # id
    BY <1>1, <1>2, <2>1, RowsUntouched DEF ApiInv, Shape, HoldersKept
  <2>2. CASE mapping' # mapping /\ i = id
    <3>1. mapping'[i] = row /\ filed'[i] = response[m].by
      BY <1>1, <1>2, <2>2 DEF ApiInv, Shape
    <3>2. row.pid = request[m].pid /\ (request[m].pid \in ProviderIds => row \in Core!Mapping)
      BY DEF Core!Mapping, Core!DeliveryStatus
    <3>3. /\ request[m].pid \in ProviderIds /\ accepted[request[m].pid] # None
          /\ response[m].by = holder[request[m].pid]
      BY <1>1 DEF ApiInv, SendLinks
    <3> HIDE DEF row
    <3> QED BY <1>1, <3>1, <3>2, <3>3 DEF RowLinks
  <2> QED BY <2>1, <2>2
<1>9. WebhooksAuthentic'
  BY <1>1, AuthenticUntouched DEF vars
<1>10. IndInv'
  BY <1>1, NextIndInv DEF ApiInv
<1> QED BY <1>6, <1>7, <1>8, <1>9, <1>10 DEF ApiInv

-----------------------------------------------------------------------------
(* The other steps *)

\* A verified webhook presents a right credential of a configured secret.
LEMMA VerifiedKnows ==
  ASSUME NEW a \in Arrivals, a.verified
  PROVE  a.known \cap a.configured # {}
<1>1. PICK configured \in SUBSET {"EVOLUTION_API_KEY", "EVOLUTION_WEBHOOK_SECRET"},
           c \in Credentials :
        a = [configured |-> configured, verified |-> VerifyWebhook(configured, c),
             known |-> Known(configured, c)]
  BY DEF Arrivals
<1>2. /\ a.configured = configured
      /\ a.known = Known(configured, c)
      /\ VerifyWebhook(configured, c)
  BY <1>1
<1>3. PICK slot \in Slots : c[slot] = "right" /\ SecretOf(slot) \in configured
  <2>1. CASE Matches(HeaderKey(c), "EVOLUTION_API_KEY" \in configured)
    <3>1. PICK slot \in {"apikey", "x-api-key"} : c[slot] = "right"
      BY <2>1 DEF Matches, HeaderKey
    <3> QED BY <2>1, <3>1 DEF Matches, Slots, SecretOf
  <2>2. CASE Matches(c["body"], "EVOLUTION_API_KEY" \in configured)
    BY <2>2 DEF Matches, Slots, SecretOf
  <2>3. CASE Matches(c["bearer"], "EVOLUTION_WEBHOOK_SECRET" \in configured)
    BY <2>3 DEF Matches, Slots, SecretOf
  <2>4. CASE Matches(Signature(c), "EVOLUTION_WEBHOOK_SECRET" \in configured)
    <3>1. PICK slot \in {"x-signature", "x-evolution-signature"} : c[slot] = "right"
      BY <2>4 DEF Matches, Signature
    <3> QED BY <2>4, <3>1 DEF Matches, Slots, SecretOf
  <2> QED BY <1>2, <2>1, <2>2, <2>3, <2>4 DEF VerifyWebhook
<1>4. SecretOf(slot) \in Known(configured, c) \cap configured
  BY <1>3 DEF Known
<1> QED BY <1>2, <1>4

\* A webhook changes neither the sends nor who holds and filed which id.
LEMMA WebhookKeeps ==
  ASSUME ApiInv, Shape', WebhooksAuthentic',
         UNCHANGED <<vars, request, accepted, sendVars, storeVars>>,
         \A id \in MessageIds : Stored(id)' =>
           /\ Stored(id)
           /\ mapping'[id] \in Core!Mapping /\ mapping'[id].pid = mapping[id].pid
  PROVE  ApiInv'
<1> USE DEF vars, sendVars, storeVars
<1>1. IndInv'
  BY NextIndInv DEF ApiInv
<1>2. \A m \in Messages : SendLinks(m)'
  BY LinksUntouched DEF HoldersKept
<1>3. \A id \in MessageIds : RowLinks(id)'
  BY DEF ApiInv, RowLinks
<1> QED BY <1>1, <1>2, <1>3 DEF ApiInv

LEMMA RefuseWebhookKeeps ==
  ASSUME ApiInv, NEW d \in Deliveries, RefuseWebhook(d) \/ IgnoreWebhook(d)
  PROVE  ApiInv'
<1>1. /\ delivery' = [delivery EXCEPT ![d].pc = "refused"]
      /\ UNCHANGED <<vars, request, accepted, mapping, sendVars, storeVars, known>>
  BY DEF RefuseWebhook, IgnoreWebhook, Core!RefuseWebhook, selectionVars
<1> USE <1>1 DEF vars, sendVars, storeVars
<1>2. Shape'
  BY DEF ApiInv, Shape
<1>3. delivery'[d].pc = "refused"
  BY DEF ApiInv, Shape
<1>4. \A e \in Deliveries \ {d} : delivery'[e] = delivery[e]
  BY DEF ApiInv, Shape
<1>5. WebhooksAuthentic'
  BY <1>3, <1>4 DEF ApiInv, WebhooksAuthentic, ConfiguredSecrets
<1> QED BY <1>2, <1>5, WebhookKeeps DEF ApiInv, RowLinks, Stored

LEMMA AcceptWebhookKeeps ==
  ASSUME ApiInv, NEW d \in Deliveries, NEW pid \in ProviderIds \cup ForeignIds,
         AcceptWebhook(d, pid)
  PROVE  ApiInv'
<1>1. /\ \E kind, status :
           delivery' = [delivery EXCEPT ![d] =
             [pc |-> "lookup", kind |-> kind, pid |-> pid, status |-> status,
              seen |-> None]]
      /\ UNCHANGED <<vars, request, accepted, mapping, sendVars, storeVars>>
  BY DEF AcceptWebhook, Core!AcceptWebhook, selectionVars
<1>2. PICK a \in ArrivalsHere :
        /\ WebhookRefusal("EVOLUTION", TRUE, a.verified) = {}
        /\ known' = [known EXCEPT ![d] = a.known]
  BY DEF AcceptWebhook
<1> USE <1>1 DEF vars, sendVars, storeVars
<1>3. Shape'
  BY <1>2 DEF ApiInv, Shape
<1>4. \A e \in Deliveries \ {d} :
        delivery'[e] = delivery[e] /\ known'[e] = known[e]
  BY <1>2 DEF ApiInv, Shape
<1>5. a.verified
  BY <1>2 DEF WebhookRefusal
<1>6. known'[d] \cap ConfiguredSecrets # {}
  BY <1>2, <1>5, VerifiedKnows DEF ArrivalsHere, ApiInv, Shape
<1>7. WebhooksAuthentic'
  BY <1>4, <1>6 DEF ApiInv, WebhooksAuthentic, ConfiguredSecrets
<1> QED BY <1>3, <1>7, WebhookKeeps DEF ApiInv, RowLinks, Stored

\* How a handler leaves its webhook: what it is about to write is a status.
HandlerLeaves(d, row) ==
  /\ delivery' = [delivery EXCEPT ![d] = row]
  /\ {"pc", "status"} \subseteq DOMAIN row
  /\ row.pc = "update" => row.status \in Core!DeliveryStatus

\* A handler under way belongs to a webhook that was accepted.
LEMMA HandlerStep ==
  ASSUME ApiInv, NEW d \in Deliveries, WebhookStep(d)
  PROVE  /\ delivery[d].pc \notin {"new", "refused"}
         /\ \E row : HandlerLeaves(d, row)
<1>1. CASE Core!LookupMapping(d)
  <2>1. \/ delivery' = [delivery EXCEPT ![d].pc = "error"]
        \/ \E seen \in Core!DeliveryStatus \cup {None} :
             delivery' = [delivery EXCEPT ![d].pc = Core!AfterLookup(d, seen),
                                          ![d].seen = seen]
    <3>1. \A id \in Core!RowsOf(delivery[d].pid) :
            mapping[id].status \in Core!DeliveryStatus
      BY DEF ApiInv, RowLinks, Stored, Core!RowsOf, Core!Mapping
    <3> QED BY <1>1, <3>1 DEF Core!LookupMapping
  <2>2. delivery[d].pc = "lookup"
    BY <1>1 DEF Core!LookupMapping
  <2>3. ASSUME NEW seen \in Core!DeliveryStatus \cup {None},
               delivery' = [delivery EXCEPT ![d].pc = Core!AfterLookup(d, seen),
                                            ![d].seen = seen]
        PROVE  \E row : HandlerLeaves(d, row)
    <3> DEFINE new == [delivery[d] EXCEPT !.pc = Core!AfterLookup(d, seen),
                                          !.seen = seen]
    <3>1. /\ delivery' = [delivery EXCEPT ![d] = new]
          /\ {"pc", "status"} \subseteq DOMAIN new
          /\ new.pc = Core!AfterLookup(d, seen) /\ new.status = delivery[d].status
      BY <2>3 DEF ApiInv, Shape
    <3>2. Core!AfterLookup(d, seen) = "update" =>
            delivery[d].status \in Core!DeliveryStatus
      BY DEF Core!AfterLookup, Core!IsValidTransition, Core!ValidTransitions,
             Core!DeliveryStatus
    <3> HIDE DEF new
    <3> QED BY <3>1, <3>2 DEF HandlerLeaves
  <2>4. ASSUME delivery' = [delivery EXCEPT ![d].pc = "error"]
        PROVE  \E row : HandlerLeaves(d, row)
    <3> DEFINE new == [delivery[d] EXCEPT !.pc = "error"]
    <3>1. HandlerLeaves(d, new)
      BY <2>4 DEF HandlerLeaves, ApiInv, Shape
    <3> HIDE DEF new
    <3> QED BY <3>1
  <2> QED BY <2>1, <2>2, <2>3, <2>4
<1>2. CASE Core!UpdateStatus(d) \/ Core!PublishEvent(d)
  <2>1. PICK pc \in {"publish", "error", "acked"} :
          delivery' = [delivery EXCEPT ![d].pc = pc]
    BY <1>2 DEF Core!UpdateStatus, Core!PublishEvent
  <2>2. delivery[d].pc \in {"update", "publish"}
    BY <1>2 DEF Core!UpdateStatus, Core!PublishEvent
  <2> DEFINE new == [delivery[d] EXCEPT !.pc = pc]
  <2>3. HandlerLeaves(d, new)
    BY <2>1 DEF HandlerLeaves, ApiInv, Shape
  <2> HIDE DEF new
  <2> QED BY <2>2, <2>3
<1> QED BY <1>1, <1>2 DEF WebhookStep

\* What it writes to the store: the status of a row that is there, or nothing.
HandlerWrites ==
  \/ mapping' = mapping
  \/ \E id \in MessageIds, status \in Core!DeliveryStatus :
       Stored(id) /\ mapping' = [mapping EXCEPT ![id].status = status]

LEMMA HandlerWritesStatus ==
  ASSUME ApiInv, NEW d \in Deliveries, WebhookStep(d)
  PROVE  HandlerWrites
<1> USE DEF HandlerWrites
<1>1. CASE Core!LookupMapping(d) \/ Core!PublishEvent(d)
  BY <1>1 DEF Core!LookupMapping, Core!PublishEvent
<1>2. CASE Core!UpdateStatus(d)
  <2>1. delivery[d].status \in Core!DeliveryStatus
    BY <1>2 DEF Core!UpdateStatus, ApiInv, Shape
  <2> QED BY <1>2, <2>1 DEF Core!UpdateStatus, Core!RowsOf, Stored
<1> QED BY <1>1, <1>2 DEF WebhookStep

LEMMA WebhookStepKeeps ==
  ASSUME ApiInv, NEW d \in Deliveries, WebhookStep(d)
  PROVE  ApiInv'
<1>1. UNCHANGED <<vars, request, accepted, sendVars, storeVars, known>>
  BY DEF WebhookStep, Core!LookupMapping, Core!UpdateStatus, Core!PublishEvent,
         selectionVars
<1>2. delivery[d].pc \notin {"new", "refused"}
  BY HandlerStep
<1>3. HandlerWrites
  BY HandlerWritesStatus
<1> USE <1>1 DEF vars, sendVars, storeVars
<1>4. PICK row : HandlerLeaves(d, row)
  BY HandlerStep
<1>5. /\ DOMAIN delivery' = Deliveries /\ delivery'[d] = row
      /\ \A e \in Deliveries \ {d} : delivery'[e] = delivery[e]
  BY <1>4 DEF HandlerLeaves, ApiInv, Shape
<1>6. WebhooksAuthentic'
  BY <1>2, <1>5 DEF ApiInv, WebhooksAuthentic, ConfiguredSecrets
<1>7. ASSUME NEW id \in MessageIds, Stored(id)'
      PROVE  /\ Stored(id)
             /\ mapping'[id] \in Core!Mapping /\ mapping'[id].pid = mapping[id].pid
  BY <1>3, <1>7 DEF HandlerWrites, ApiInv, Shape, RowLinks, Stored, Core!Mapping
<1>8. DOMAIN mapping' = MessageIds
  BY <1>3 DEF HandlerWrites, ApiInv, Shape
<1>9. Shape'
  BY <1>4, <1>5, <1>8 DEF HandlerLeaves, ApiInv, Shape, Core!DeliveryStatus
<1> QED BY <1>6, <1>7, <1>9, WebhookKeeps

\* Queries and changes of health concern the selection alone.
LEMMA ProvidersKeep ==
  ASSUME ApiInv, (\E q \in Queries : QueryStep(q)) \/ HealthStep
  PROVE  ApiInv'
<1>1. [Next]_vars
  BY DEF QueryStep, HealthStep, Next
<1>2. /\ UNCHANGED <<config, send>>
      /\ UNCHANGED <<coreVars, sendVars, storeVars, webhookVars>>
  BY DEF QueryStep, HealthStep, Ask, Report, QueryAnswered, ChangeHealth
<1> USE <1>2 DEF coreVars, sendVars, storeVars, webhookVars
<1>3. \A m \in Messages : SendLinks(m)'
  BY LinksUntouched DEF HoldersKept
<1>4. \A id \in MessageIds : RowLinks(id)'
  BY RowsUntouched DEF HoldersKept
<1>5. Shape'
  BY DEF ApiInv, Shape
<1>6. IndInv'
  BY <1>1, NextIndInv DEF ApiInv
<1> QED BY <1>3, <1>4, <1>5, <1>6, AuthenticUntouched DEF ApiInv

LEMMA NextApiInv == ApiInv /\ [ApiNext]_apiVars => ApiInv'
<1> SUFFICES ASSUME ApiInv, [ApiNext]_apiVars
             PROVE  ApiInv'
  OBVIOUS
<1>1. CASE UNCHANGED apiVars
  <2> USE <1>1 DEF apiVars, selectionVars, vars, coreVars, sendVars, storeVars,
                   webhookVars
  <2>1. Shape'
    BY DEF ApiInv, Shape
  <2>2. WebhooksAuthentic'
    BY AuthenticUntouched
  <2> QED BY <2>1, <2>2, WebhookKeeps DEF ApiInv, RowLinks, Stored
<1>2. ASSUME NEW m \in Messages, RefuseSend(m) \/ ReceiveSend(m) \/ SendStep(m)
      PROVE  ApiInv'
  BY <1>2, RefuseSendKeeps, ReceiveSendKeeps, ChoosingKeeps, FindNoneKeeps,
     CallProviderKeeps, AttemptFailsKeeps, MessageTakenKeeps, ResponseArrivesKeeps,
     FailureRecordedKeeps, MappingSavedKeeps
     DEF SendStep
<1>3. ASSUME NEW d \in Deliveries,
             \/ RefuseWebhook(d) \/ IgnoreWebhook(d) \/ WebhookStep(d)
             \/ \E pid \in ProviderIds \cup ForeignIds : AcceptWebhook(d, pid)
      PROVE  ApiInv'
  BY <1>3, RefuseWebhookKeeps, WebhookStepKeeps, AcceptWebhookKeeps
<1>4. CASE (\E q \in Queries : QueryStep(q)) \/ HealthStep
  BY <1>4, ProvidersKeep
<1> QED BY <1>1, <1>2, <1>3, <1>4 DEF ApiNext

\* What Evolution reports is what the store expects of a webhook.
LEMMA ContentKnown ==
  ASSUME NEW content \in Contents
  PROVE  \/ content.kind = "inbound" /\ content.status = None
         \/ content.kind = "receipt" /\ content.status \in Core!ReceiptStatuses
<1>1. PICK payload \in Payload :
        /\ KindOf(payload) # "ignored"
        /\ content.kind = KindOf(payload)
        /\ content.status = IF KindOf(payload) = "receipt"
                              THEN ReceiptStatus(payload.type) ELSE None
  BY DEF Contents
<1>2. KindOf(payload) \in {"inbound", "receipt"}
  BY <1>1 DEF KindOf
<1>3. ReceiptStatus(payload.type) \in Core!ReceiptStatuses
  BY DEF ReceiptStatus, Core!ReceiptStatuses
<1> QED BY <1>1, <1>2, <1>3

\* A step of a send is one of its request in the store, or the store has no part in it.
LEMMA SendStepStores ==
  ASSUME ApiInv, NEW m \in Messages,
         RefuseSend(m) \/ ReceiveSend(m) \/ SendStep(m)
  PROVE  Core!SendStep(m) \/ UNCHANGED coreVars
<1>1. CASE RefuseSend(m) \/ FindNone(m)
  BY <1>1 DEF RefuseSend, FindNone, Core!SendStep
<1>2. CASE ReceiveSend(m) \/ Probe(m) \/ TryNext(m)
  BY <1>2 DEF ReceiveSend, Probe, TryNext
<1>3. CASE CallProvider(m)
  <2>1. input[m].id \in MessageIds /\ input[m].v4 \in BOOLEAN
    BY <1>3 DEF CallProvider, Resolve, ApiInv, SendLinks, Input
  <2>2. Core!DispatchRequest(m, input[m].id, input[m].v4)
    BY <1>3 DEF CallProvider
  <2> QED BY <2>1, <2>2 DEF Core!SendStep
<1>4. CASE AdapterRefuses(m) \/ AttemptFails(m) \/ ResponseArrives(m)
  BY <1>4 DEF AdapterRefuses, AttemptFails, ResponseArrives, Core!SendStep
<1>5. ASSUME NEW pid \in ProviderIds, MessageTaken(m, pid)
      PROVE  Core!SendStep(m)
  BY <1>5 DEF MessageTaken, Core!SendStep
<1>6. CASE FailureRecorded(m) \/ MappingSaved(m)
  BY <1>6 DEF FailureRecorded, MappingSaved, Core!SendStep
<1> QED BY <1>1, <1>2, <1>3, <1>4, <1>5, <1>6 DEF SendStep

\* The same for webhooks.
LEMMA WebhookStepStores ==
  ASSUME NEW d \in Deliveries,
         \/ RefuseWebhook(d) \/ IgnoreWebhook(d) \/ WebhookStep(d)
         \/ \E pid \in ProviderIds \cup ForeignIds : AcceptWebhook(d, pid)
  PROVE  Core!WebhookStep(d)
<1>1. CASE RefuseWebhook(d) \/ IgnoreWebhook(d) \/ WebhookStep(d)
  BY <1>1 DEF RefuseWebhook, IgnoreWebhook, WebhookStep, Core!WebhookStep
<1>2. ASSUME NEW pid \in ProviderIds \cup ForeignIds, AcceptWebhook(d, pid)
      PROVE  Core!WebhookStep(d)
  <2>1. PICK content \in Contents :
          Core!AcceptWebhook(d, content.kind, pid, content.status)
    BY <1>2 DEF AcceptWebhook
  <2>2. Core!ReceiveWebhook(d)
    BY <2>1, ContentKnown DEF Core!ReceiveWebhook
  <2> QED BY <2>2 DEF Core!WebhookStep
<1> QED BY <1>1, <1>2

LEMMA ApiStoreStep == ApiInv /\ [ApiNext]_apiVars => [Core!Next]_coreVars
<1> SUFFICES ASSUME ApiInv, [ApiNext]_apiVars
             PROVE  [Core!Next]_coreVars
  OBVIOUS
<1>1. CASE UNCHANGED apiVars
  BY <1>1 DEF apiVars
<1>2. ASSUME NEW m \in Messages, RefuseSend(m) \/ ReceiveSend(m) \/ SendStep(m)
      PROVE  [Core!Next]_coreVars
  BY <1>2, SendStepStores DEF Core!Next
<1>3. ASSUME NEW d \in Deliveries,
             \/ RefuseWebhook(d) \/ IgnoreWebhook(d) \/ WebhookStep(d)
             \/ \E pid \in ProviderIds \cup ForeignIds : AcceptWebhook(d, pid)
      PROVE  [Core!Next]_coreVars
  BY <1>3, WebhookStepStores DEF Core!Next
<1>4. CASE (\E q \in Queries : QueryStep(q)) \/ HealthStep
  BY <1>4 DEF QueryStep, HealthStep
<1> QED BY <1>1, <1>2, <1>3, <1>4 DEF ApiNext

-----------------------------------------------------------------------------
(* The theorems *)

LEMMA AlwaysApiInv == ApiSpec => []ApiInv
BY InitApiInv, NextApiInv, PTL DEF ApiSpec

\* The interface uses the store as MessageGateway says: every step of it is one of
\* that specification or leaves its state alone, so what is proved of the store holds
\* of requests and webhooks as they come in over HTTP.
THEOREM ApiImplementsStore == ApiSpec => Core!Spec
<1>1. ApiInit => Core!Init
  BY DEF ApiInit
<1>2. ApiInv /\ [ApiNext]_apiVars => [Core!Next]_(Core!vars)
  BY ApiStoreStep DEF coreVars, Core!vars
<1> QED BY <1>1, <1>2, AlwaysApiInv, PTL DEF ApiSpec, Core!Spec

\* For any numbers of sends, providers' ids and receipts: a stored mapping is filed
\* under the provider that handed out its id, whichever one the send fell back to,
\* so the lookup of a receipt by both can find it.
THEOREM MappingsFiledUnderHolder == ApiSpec => []FiledUnderHolder
<1>1. ApiInv => FiledUnderHolder
  BY DEF ApiInv, RowLinks, FiledUnderHolder
<1> QED BY <1>1, AlwaysApiInv, PTL

\* For any webhooks with any number of credentials, and any set of configured
\* secrets, none of them included: a webhook that gets in comes with a secret that
\* this gateway was given.
THEOREM WebhooksAreAuthentic == ApiSpec => []WebhooksAuthentic
<1>1. ApiInv => WebhooksAuthentic
  BY DEF ApiInv
<1> QED BY <1>1, AlwaysApiInv, PTL

=============================================================================
