--------------------------- MODULE EventForwarder ---------------------------
(***************************************************************************)
(* HttpEventForwarder (http-event.forwarder.ts): two loops take the events *)
(* of the bus and post them to the notification and the chat service, with *)
(* a bounded number of attempts.  One action is what a loop does between   *)
(* two awaits, or what the network and the service behind it do meanwhile. *)
(*                                                                         *)
(* The bus is taken as what EventBus is shown to implement: one lossless   *)
(* queue per loop that ends once it is closed and drained.                 *)
(***************************************************************************)
EXTENDS Naturals, Sequences, SequencesExt

CONSTANTS
  Inbounds,    \* InboundMessageReceived events; each is published at most once
  Receipts,    \* MessageDelivered events
  MaxEvents,   \* bound: events published
  MaxAttempts, \* config.maxAttempts, which env.ts wants positive
  None

ASSUME ForwarderAssumption ==
  /\ Inbounds \cap Receipts = {}
  /\ MaxEvents \in Nat
  /\ MaxAttempts \in Nat \ {0}
  /\ None \notin Inbounds \cup Receipts

Events == Inbounds \cup Receipts

Loops == {"inbound", "deliveries"}

EventsOf(l) == IF l = "inbound" THEN Inbounds ELSE Receipts

VARIABLES
  closing,   \* publisher.close was called
  log,       \* log[l]: events of its kind published before that, in order
  loop,      \* loop[l]: the loop with its queue on the bus
  outcome,   \* outcome[e]: how the loop was done with the event (history)
  late,      \* late[e]: requests given up here and not yet seen by the service
  arrived    \* arrived[l]: events the service behind the loop took, in order

forwarderVars == <<closing, log, loop, outcome, late, arrived>>

Outcomes == {"forwarded", "rejected", "exhausted", "unrouted"}

\* waiting: at the for await; lookup: the mapping is read; posting: the request
\* is under way; succeeded, retryable, refused: so is an answer to it;
\* backoff: at the delay.
Answers == {"succeeded", "retryable", "refused"}

Loop == [pc      : {"waiting", "lookup", "posting", "backoff", "ended"}
                     \cup Answers,
         queue   : Seq(Events),
         event   : Events \cup {None},
         attempt : 0..MaxAttempts]

\* Nothing has happened and both loops are at pc.
NothingYet(pc) ==
  /\ closing = FALSE
  /\ log = [l \in Loops |-> <<>>]
  /\ loop = [l \in Loops |->
       [pc |-> pc, queue |-> <<>>, event |-> None, attempt |-> 0]]
  /\ outcome = [e \in Events |-> "none"]
  /\ late = [e \in Events |-> 0]
  /\ arrived = [l \in Loops |-> <<>>]

\* After start: both subscriptions are taken before the first event.
ForwarderInit == NothingYet("waiting")

-----------------------------------------------------------------------------
(* The bus *)

Published(e) == \E l \in Loops : Contains(log[l], e)

Publish(l, e) ==
  /\ ~Published(e)
  /\ Len(log["inbound"]) + Len(log["deliveries"]) < MaxEvents
  /\ ~closing
  /\ log' = [log EXCEPT ![l] = Append(@, e)]
  /\ loop' = [loop EXCEPT ![l].queue = Append(@, e)]
  /\ UNCHANGED <<closing, outcome, late, arrived>>

\* stop() closes the bus and waits for both loops.
Close ==
  /\ ~closing
  /\ closing' = TRUE
  /\ UNCHANGED <<log, loop, outcome, late, arrived>>

LoopsEnded == \A l \in Loops : loop[l].pc = "ended"

\* A loop of a closed bus ends when its queue is drained.
End(l) ==
  /\ loop[l].pc = "waiting"
  /\ loop[l].queue = <<>>
  /\ closing
  /\ loop' = [loop EXCEPT ![l].pc = "ended"]
  /\ UNCHANGED <<closing, log, outcome, late, arrived>>

-----------------------------------------------------------------------------
(* One event *)

Busy(c, pc, attempt) ==
  [pc |-> pc, queue |-> Tail(c.queue), event |-> Head(c.queue), attempt |-> attempt]

Posting(c) == [c EXCEPT !.pc = "posting", !.attempt = @ + 1]

Idle(c) == [pc |-> "waiting", queue |-> c.queue, event |-> None, attempt |-> 0]

\* The loop is done with the event it holds.
Finish(l, how) ==
  /\ outcome' = [outcome EXCEPT ![loop[l].event] = how]
  /\ loop' = [loop EXCEPT ![l] = Idle(@)]

\* The next event: a receipt needs its mapping first, an inbound message a route,
\* which its provider instance has or has not.
Take(l) ==
  /\ loop[l].pc = "waiting"
  /\ loop[l].queue # <<>>
  /\ LET e == Head(loop[l].queue) IN
     \/ /\ e \in Receipts
        /\ loop' = [loop EXCEPT ![l] = Busy(@, "lookup", 0)]
        /\ UNCHANGED outcome
     \/ /\ e \in Inbounds
        /\ loop' = [loop EXCEPT ![l] = Busy(@, "posting", 1)]
        /\ UNCHANGED outcome
     \/ /\ e \in Inbounds
        /\ loop' = [loop EXCEPT ![l].queue = Tail(@)]
        /\ outcome' = [outcome EXCEPT ![e] = "unrouted"]
  /\ UNCHANGED <<closing, log, late, arrived>>

\* Found, unknown or failed: the receipt goes out either way.
LookUp(l) ==
  /\ loop[l].pc = "lookup"
  /\ loop' = [loop EXCEPT ![l] = Posting(@)]
  /\ UNCHANGED <<closing, log, outcome, late, arrived>>

\* The service handles the request.  An answer that is worth another attempt
\* says nothing about what the service did before it failed.
Receive(l) ==
  /\ loop[l].pc = "posting"
  /\ \E a \in Answers, taken \in BOOLEAN :
       /\ a = "succeeded" => taken
       /\ a = "refused" => ~taken
       /\ loop' = [loop EXCEPT ![l].pc = a]
       /\ arrived' = IF taken
                     THEN [arrived EXCEPT ![l] = Append(@, loop[l].event)]
                     ELSE arrived
  /\ UNCHANGED <<closing, log, outcome, late>>

-----------------------------------------------------------------------------
(* postWithRetry *)

\* Mutation of the failure below: one attempt too many.
AfterFailureOneMore(l) ==
  \/ /\ loop[l].attempt <= MaxAttempts
     /\ loop' = [loop EXCEPT ![l].pc = "backoff"]
     /\ UNCHANGED outcome
  \/ /\ loop[l].attempt > MaxAttempts
     /\ Finish(l, "exhausted")

\* Mutation of the failure below: the event goes back to the end of the queue.
AfterFailureRequeued(l) ==
  \/ /\ loop[l].attempt < MaxAttempts
     /\ loop' = [loop EXCEPT
          ![l] = [Idle(@) EXCEPT !.queue = Append(@, loop[l].event)]]
     /\ UNCHANGED outcome
  \/ /\ loop[l].attempt = MaxAttempts
     /\ Finish(l, "exhausted")

\* Another attempt after a delay, or none if this was the last.
AfterFailure(l) ==
  \/ /\ loop[l].attempt < MaxAttempts
     /\ loop' = [loop EXCEPT ![l].pc = "backoff"]
     /\ UNCHANGED outcome
  \/ /\ loop[l].attempt = MaxAttempts
     /\ Finish(l, "exhausted")

\* Mutation of the answer below: any answer of the service will do.
AnsweredAnyStatus(l) ==
  /\ loop[l].pc \in Answers
  /\ Finish(l, "forwarded")
  /\ UNCHANGED <<closing, log, late, arrived>>

\* The answer arrives.
Answered(l) ==
  /\ \/ loop[l].pc = "succeeded" /\ Finish(l, "forwarded")
     \/ loop[l].pc = "refused" /\ Finish(l, "rejected")
     \/ loop[l].pc = "retryable" /\ AfterFailure(l)
  /\ UNCHANGED <<closing, log, late, arrived>>

\* The request times out or its connection breaks, before the service handled it
\* (and then it may still do so) or while the answer was under way.
TransportFails(l) ==
  /\ loop[l].pc \in {"posting"} \cup Answers
  /\ \/ loop[l].pc = "posting" /\ late' = [late EXCEPT ![loop[l].event] = @ + 1]
     \/ UNCHANGED late
  /\ AfterFailure(l)
  /\ UNCHANGED <<closing, log, arrived>>

\* A request that nobody waits for is taken, or was lost.
LateRequest(l, e) ==
  /\ e \in EventsOf(l)
  /\ late[e] > 0
  /\ late' = [late EXCEPT ![e] = @ - 1]
  /\ arrived' \in {arrived, [arrived EXCEPT ![l] = Append(@, e)]}
  /\ UNCHANGED <<closing, log, loop, outcome>>

DelayEnds(l) ==
  /\ loop[l].pc = "backoff"
  /\ loop' = [loop EXCEPT ![l] = Posting(@)]
  /\ UNCHANGED <<closing, log, outcome, late, arrived>>

-----------------------------------------------------------------------------
(* Properties *)

\* Types of the state; a requested attempt is counted, and no more than
\* MaxAttempts are made.
TypeOK ==
  /\ closing \in BOOLEAN
  /\ log \in [Loops -> Seq(Events)]
  /\ loop \in [Loops -> Loop]
  /\ outcome \in [Events -> Outcomes \cup {"none"}]
  /\ late \in [Events -> 0..MaxAttempts]
  /\ arrived \in [Loops -> Seq(Events)]

\* What the loop has yet to be done with, the event it holds first.
Unsettled(l) ==
  (IF loop[l].event = None THEN <<>> ELSE <<loop[l].event>>) \o loop[l].queue

\* How many of the published events the loop is done with.
Settled(l) == Len(log[l]) - Len(Unsettled(l))

\* Every published event is accounted for at any moment: done with, held by its
\* loop or queued, in this order of publication.  So a loop neither skips an event
\* nor goes on to the next before it is done with the last, retries included.
EventsAccounted ==
  \A l \in Loops :
    /\ Unsettled(l) = SubSeq(log[l], Settled(l) + 1, Len(log[l]))
    /\ \A i \in 1..Len(log[l]) : outcome[log[l][i]] = "none" <=> i > Settled(l)

\* What the log reports as forwarded has reached its service, in the order in
\* which it was published: no copy of a later event comes before all copies of an
\* earlier one.  (Later copies, of requests that timed out here, may come at any
\* time.)
Before(l, k, e) == \E h \in 1..(k - 1) : arrived[l][h] = e

ForwardedInOrder ==
  \A l \in Loops : \A i \in 1..Len(log[l]) :
    LET e == log[l][i] IN
    outcome[e] = "forwarded" =>
      /\ Contains(arrived[l], e)
      /\ \A j \in (i + 1)..Len(log[l]), k \in 1..Len(arrived[l]) :
           arrived[l][k] = log[l][j] => Before(l, k, e)

=============================================================================
