------------------------------ MODULE EventBus ------------------------------
(***************************************************************************)
(* The in-process event bus (in-memory-event.publisher.ts) with the loops  *)
(* that consume it: HttpEventForwarder and KafkaDeliveryEventHandler.      *)
(*                                                                         *)
(* One action is what JavaScript runs without a break: publish, close, or  *)
(* the generator of a subscription from one suspension to the next.  A     *)
(* promise that is resolved continues its generator only later, so events  *)
(* may be published and the bus may be closed in between.                  *)
(*                                                                         *)
(* Events of one kind are modelled: the map of the bus keeps kinds apart.  *)
(***************************************************************************)
EXTENDS Naturals, Sequences

CONSTANTS
  Subscribers, \* calls of subscribe
  Events,
  MaxQueue,    \* bound: no event is published while a queue is longer
  None,        \* a promise that is not resolved
  Done         \* the IteratorResult with done: true

ASSUME BusAssumption ==
  /\ MaxQueue \in Nat
  /\ None # Done
  /\ None \notin Events /\ Done \notin Events

VARIABLES sub \* sub[s]: the subscriber and its generator

-----------------------------------------------------------------------------
(* Types *)

\* fresh: the generator was never advanced; awaiting: suspended at its promise;
\* busy: suspended at a yield, the consumer works on the event.
Suspended == {"fresh", "awaiting", "busy"}

Subscriber == [registered : BOOLEAN,        \* member of the set of its kind
               queue      : Seq(Events),
               waiting    : BOOLEAN,        \* a resolve function is stored
               handed     : Events \cup {None, Done}, \* what it was called with
               closing    : BOOLEAN,
               pc         : {"none", "ended", "left"} \cup Suspended]

Init == sub = [s \in Subscribers |->
                 [registered |-> FALSE, queue |-> <<>>, waiting |-> FALSE,
                  handed |-> None, closing |-> FALSE, pc |-> "none"]]

-----------------------------------------------------------------------------
(* The bus *)

Subscribe(s) ==
  /\ sub[s].pc = "none"
  /\ sub' = [sub EXCEPT ![s].registered = TRUE, ![s].pc = "fresh"]

\* Mutation of the delivery below: the resolve function stays stored.
DeliveredTwice(c, e) ==
  IF ~c.registered \/ c.closing THEN c
  ELSE IF c.waiting THEN [c EXCEPT !.handed = IF @ = None THEN e ELSE @]
  ELSE [c EXCEPT !.queue = Append(@, e)]

\* A consumer that waits is handed the event, the others find it in the queue.
Delivered(c, e) ==
  IF ~c.registered \/ c.closing THEN c
  ELSE IF c.waiting THEN [c EXCEPT !.waiting = FALSE, !.handed = e]
  ELSE [c EXCEPT !.queue = Append(@, e)]

Publish(e) ==
  /\ \A s \in Subscribers : sub[s].registered => Len(sub[s].queue) <= MaxQueue
  /\ sub' = [s \in Subscribers |-> Delivered(sub[s], e)]

\* Mutation of the close below: a consumer that waits is not woken.
ClosedQuietly(c) == IF c.registered THEN [c EXCEPT !.closing = TRUE] ELSE c

\* A consumer that waits is told to end; the resolve function stays stored, and
\* a second close calls it in vain.
Closed(c) ==
  IF ~c.registered THEN c
  ELSE [c EXCEPT !.closing = TRUE,
                 !.handed = IF c.queue = <<>> /\ c.waiting THEN Done ELSE @]

Close == sub' = [s \in Subscribers |-> Closed(sub[s])]

-----------------------------------------------------------------------------
(* The generator of a subscription *)

\* The finally block removes the subscriber, after a return of its own ("ended")
\* or when its consumer walked away ("left").
Removed(c, how) == [c EXCEPT !.pc = how, !.registered = FALSE]

\* Mutation of the loop below: closing is looked at before the queue.
TurnClosingFirst(c) ==
  IF c.closing THEN Removed(c, "ended")
  ELSE IF c.queue # <<>> THEN [c EXCEPT !.pc = "busy", !.queue = Tail(@)]
  ELSE [c EXCEPT !.pc = "awaiting", !.waiting = TRUE, !.handed = None]

\* The body of the loop up to the yield or the await.
Turn(c) ==
  IF c.queue # <<>> THEN [c EXCEPT !.pc = "busy", !.queue = Tail(@)]
  ELSE IF c.closing THEN Removed(c, "ended")
  ELSE [c EXCEPT !.pc = "awaiting", !.waiting = TRUE, !.handed = None]

\* The consumer asks for the next event.
Advance(s) ==
  /\ sub[s].pc \in {"fresh", "busy"}
  /\ sub' = [sub EXCEPT ![s] = Turn(@)]

\* The generator continues behind its await.
Resume(s) ==
  /\ sub[s].pc = "awaiting"
  /\ sub[s].handed # None
  /\ sub' = [sub EXCEPT ![s] =
       IF @.handed = Done THEN Removed(@, "ended")
                          ELSE [@ EXCEPT !.pc = "busy", !.handed = None]]

\* The consumer leaves its loop with break or an exception.
Abandon(s) ==
  /\ sub[s].pc = "busy"
  /\ sub' = [sub EXCEPT ![s] = Removed(@, "left")]

-----------------------------------------------------------------------------

Next ==
  \/ \E e \in Events : Publish(e)
  \/ Close
  \/ \E s \in Subscribers :
       Subscribe(s) \/ Advance(s) \/ Resume(s) \/ Abandon(s)

Spec == Init /\ [][Next]_sub

\* Resolved promises continue, and consumers come back for the next event: the
\* requests and retries they make are bounded in number and in time.
Fairness == \A s \in Subscribers : WF_sub(Advance(s)) /\ WF_sub(Resume(s))

FairSpec == Spec /\ Fairness

-----------------------------------------------------------------------------
(* Properties *)

\* Type of the Subscriber objects and of their generators.
TypeOK == sub \in [Subscribers -> Subscriber]

\* No consumer sleeps while there is something for it: one that awaits an
\* unresolved promise can be woken, has an empty queue and was not told to end.
NoLostWakeup ==
  \A s \in Subscribers :
    sub[s].pc = "awaiting" /\ sub[s].handed = None =>
      sub[s].waiting /\ sub[s].queue = <<>> /\ ~sub[s].closing

\* Behind it: a resolve function is stored for the promise that is awaited, and
\* only close leaves it stored when it has called it.
Consistent(c) ==
  /\ c.registered <=> c.pc \in Suspended
  /\ c.registered /\ c.waiting =>
       c.pc = "awaiting" /\ c.queue = <<>> /\ c.handed \in {None, Done}
  /\ c.registered /\ c.handed # None => c.pc = "awaiting"
  /\ c.registered /\ c.handed = Done => c.closing /\ c.queue = <<>>
  /\ c.pc = "awaiting" /\ c.handed = None =>
       c.waiting /\ c.queue = <<>> /\ ~c.closing
  /\ c.pc = "none" =>
       c.queue = <<>> /\ ~c.waiting /\ c.handed = None /\ ~c.closing

IndInv == TypeOK /\ \A s \in Subscribers : Consistent(sub[s])

\* The bus keeps what EventChannels promises: every event once and in order,
\* also when it is closed with events queued or just handed over, and every
\* consumer of a closed bus ends.
HandedOver(c) == IF c.handed \in Events THEN <<c.handed>> ELSE <<>>

PendingOf(c) == IF c.registered THEN HandedOver(c) \o c.queue ELSE <<>>

StateOf(c) ==
  IF ~c.registered THEN c.pc ELSE IF c.closing THEN "closing" ELSE "open"

Channels == INSTANCE EventChannels WITH
  state <- [s \in Subscribers |-> StateOf(sub[s])],
  pending <- [s \in Subscribers |-> PendingOf(sub[s])]

ChannelsSpec == Channels!Spec

=============================================================================
