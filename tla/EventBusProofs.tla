--------------------------- MODULE EventBusProofs ---------------------------
(***************************************************************************)
(* Theorems about EventBus, for any number of consumers: the inductive     *)
(* invariant, that no consumer misses its wake-up, and that the bus        *)
(* implements the safety part of EventChannels.                            *)
(***************************************************************************)
EXTENDS EventBus, TLAPS

\* Publishing keeps a subscriber consistent.
LEMMA DeliveredKeeps ==
  ASSUME NEW c \in Subscriber, Consistent(c), NEW e \in Events
  PROVE  Delivered(c, e) \in Subscriber /\ Consistent(Delivered(c, e))
<1>1. CASE ~c.registered \/ c.closing
  BY <1>1 DEF Delivered
<1>2. CASE c.registered /\ ~c.closing /\ c.waiting
  <2> DEFINE d == [c EXCEPT !.waiting = FALSE, !.handed = e]
  <2>1. Delivered(c, e) = d
    BY <1>2 DEF Delivered
  <2>2. d \in Subscriber
    BY DEF Subscriber
  <2>3. Consistent(d)
    BY <1>2, BusAssumption DEF Consistent, Subscriber, Suspended
  <2> QED BY <2>1, <2>2, <2>3
<1>3. CASE c.registered /\ ~c.closing /\ ~c.waiting
  <2> DEFINE d == [c EXCEPT !.queue = Append(@, e)]
  <2>1. Delivered(c, e) = d
    BY <1>3 DEF Delivered
  <2>2. d \in Subscriber
    BY DEF Subscriber
  <2>3. Consistent(d)
    BY <1>3, BusAssumption DEF Consistent, Subscriber, Suspended
  <2> QED BY <2>1, <2>2, <2>3
<1> QED BY <1>1, <1>2, <1>3

\* So does closing.
LEMMA ClosedKeeps ==
  ASSUME NEW c \in Subscriber, Consistent(c)
  PROVE  Closed(c) \in Subscriber /\ Consistent(Closed(c))
<1>1. CASE ~c.registered
  BY <1>1 DEF Closed
<1>2. CASE c.registered
  <2> DEFINE d == [c EXCEPT !.closing = TRUE,
                            !.handed = IF c.queue = <<>> /\ c.waiting THEN Done ELSE @]
  <2>1. Closed(c) = d
    BY <1>2 DEF Closed
  <2>2. d \in Subscriber
    BY DEF Subscriber
  <2>3. Consistent(d)
    BY <1>2, BusAssumption DEF Consistent, Subscriber, Suspended
  <2> QED BY <2>1, <2>2, <2>3
<1> QED BY <1>1, <1>2

\* So does the end of a generator.
LEMMA RemovedKeeps ==
  ASSUME NEW c \in Subscriber, Consistent(c), NEW how \in {"ended", "left"}
  PROVE  Removed(c, how) \in Subscriber /\ Consistent(Removed(c, how))
BY DEF Removed, Consistent, Subscriber, Suspended

\* So does a turn of the loop.
LEMMA TurnKeeps ==
  ASSUME NEW c \in Subscriber, Consistent(c), c.pc \in {"fresh", "busy"}
  PROVE  Turn(c) \in Subscriber /\ Consistent(Turn(c))
<1>1. CASE c.queue # <<>>
  <2> DEFINE d == [c EXCEPT !.pc = "busy", !.queue = Tail(@)]
  <2>1. Turn(c) = d
    BY <1>1 DEF Turn
  <2>2. d \in Subscriber
    <3>1. c.queue \in Seq(Events)
      BY DEF Subscriber
    <3>2. Tail(c.queue) \in Seq(Events)
      BY <1>1, <3>1
    <3> QED BY <3>2 DEF Subscriber, Suspended
  <2>3. Consistent(d)
    BY <1>1, BusAssumption DEF Consistent, Subscriber, Suspended
  <2> QED BY <2>1, <2>2, <2>3
<1>2. CASE c.queue = <<>> /\ c.closing
  BY <1>2, RemovedKeeps DEF Turn
<1>3. CASE c.queue = <<>> /\ ~c.closing
  <2> DEFINE d == [c EXCEPT !.pc = "awaiting", !.waiting = TRUE, !.handed = None]
  <2>1. Turn(c) = d
    BY <1>3 DEF Turn
  <2>2. d \in Subscriber
    BY DEF Subscriber, Suspended
  <2>3. Consistent(d)
    BY <1>3, BusAssumption DEF Consistent, Subscriber, Suspended
  <2> QED BY <2>1, <2>2, <2>3
<1> QED BY <1>1, <1>2, <1>3 DEF Subscriber

-----------------------------------------------------------------------------
(* The inductive invariant *)

LEMMA InitIndInv == Init => IndInv
<1> SUFFICES ASSUME Init PROVE IndInv
  OBVIOUS
<1>1. TypeOK
  BY DEF Init, TypeOK, Subscriber
<1>2. ASSUME NEW s \in Subscribers PROVE Consistent(sub[s])
  BY BusAssumption DEF Init, Consistent, Suspended
<1> QED BY <1>1, <1>2 DEF IndInv

\* A step that changes one subscriber only, to one that is well-formed.
LEMMA OneSubscriber ==
  ASSUME IndInv, NEW s \in Subscribers, NEW d \in Subscriber, Consistent(d),
         sub' = [sub EXCEPT ![s] = d]
  PROVE  IndInv'
<1>1. TypeOK'
  BY DEF IndInv, TypeOK
<1>2. ASSUME NEW q \in Subscribers PROVE Consistent(sub[q])'
  <2>1. CASE q = s
    <3>1. sub'[q] = d
      BY <2>1 DEF IndInv, TypeOK
    <3> QED BY <3>1 DEF Consistent
  <2>2. CASE q # s
    <3>1. sub'[q] = sub[q] /\ Consistent(sub[q])
      BY <2>2 DEF IndInv, TypeOK
    <3> QED BY <3>1 DEF Consistent
  <2> QED BY <2>1, <2>2
<1> QED BY <1>1, <1>2 DEF IndInv

LEMMA NextIndInv == IndInv /\ [Next]_sub => IndInv'
<1> SUFFICES ASSUME IndInv, [Next]_sub PROVE IndInv'
  OBVIOUS
<1>1. ASSUME NEW s \in Subscribers PROVE sub[s] \in Subscriber /\ Consistent(sub[s])
  BY DEF IndInv, TypeOK
<1>2. ASSUME NEW e \in Events, Publish(e) PROVE IndInv'
  <2>1. ASSUME NEW s \in Subscribers
        PROVE  sub'[s] = Delivered(sub[s], e)
               /\ sub'[s] \in Subscriber /\ Consistent(sub'[s])
    BY <1>1, <1>2, DeliveredKeeps DEF Publish
  <2>2. TypeOK'
    BY <1>2, <2>1 DEF Publish, TypeOK
  <2>3. ASSUME NEW s \in Subscribers PROVE Consistent(sub[s])'
    BY <2>1 DEF Consistent
  <2> QED BY <2>2, <2>3 DEF IndInv
<1>3. ASSUME Close PROVE IndInv'
  <2>1. ASSUME NEW s \in Subscribers
        PROVE  sub'[s] = Closed(sub[s])
               /\ sub'[s] \in Subscriber /\ Consistent(sub'[s])
    BY <1>1, <1>3, ClosedKeeps DEF Close
  <2>2. TypeOK'
    BY <1>3, <2>1 DEF Close, TypeOK
  <2>3. ASSUME NEW s \in Subscribers PROVE Consistent(sub[s])'
    BY <2>1 DEF Consistent
  <2> QED BY <2>2, <2>3 DEF IndInv
<1>4. ASSUME NEW s \in Subscribers, Subscribe(s) PROVE IndInv'
  <2> DEFINE d == [sub[s] EXCEPT !.registered = TRUE, !.pc = "fresh"]
  <2>1. d \in Subscriber
    BY <1>1 DEF Subscriber, Suspended
  <2>2. Consistent(d)
    BY <1>1, <1>4, BusAssumption DEF Subscribe, Consistent, Subscriber, Suspended
  <2>3. sub' = [sub EXCEPT ![s] = d]
    BY <1>4, <2>1 DEF Subscribe, IndInv, TypeOK
  <2> HIDE DEF d
  <2> QED BY <2>1, <2>2, <2>3, OneSubscriber
<1>5. ASSUME NEW s \in Subscribers, Advance(s) PROVE IndInv'
  BY <1>1, <1>5, TurnKeeps, OneSubscriber DEF Advance
<1>6. ASSUME NEW s \in Subscribers, Resume(s) PROVE IndInv'
  <2>1. CASE sub[s].handed = Done
    BY <1>1, <1>6, <2>1, RemovedKeeps, OneSubscriber DEF Resume
  <2>2. CASE sub[s].handed # Done
    <3> DEFINE d == [sub[s] EXCEPT !.pc = "busy", !.handed = None]
    <3>1. d \in Subscriber
      BY <1>1 DEF Subscriber, Suspended
    <3>2. Consistent(d)
      BY <1>1, <1>6, <2>2, BusAssumption DEF Resume, Consistent, Subscriber, Suspended
    <3>3. sub' = [sub EXCEPT ![s] = d]
      BY <1>6, <2>2 DEF Resume
    <3> HIDE DEF d
    <3> QED BY <3>1, <3>2, <3>3, OneSubscriber
  <2> QED BY <2>1, <2>2
<1>7. ASSUME NEW s \in Subscribers, Abandon(s) PROVE IndInv'
  BY <1>1, <1>7, RemovedKeeps, OneSubscriber DEF Abandon
<1>8. ASSUME UNCHANGED sub PROVE IndInv'
  <2>1. TypeOK'
    BY <1>8 DEF IndInv, TypeOK
  <2>2. ASSUME NEW s \in Subscribers PROVE Consistent(sub[s])'
    BY <1>1, <1>8 DEF Consistent
  <2> QED BY <2>1, <2>2 DEF IndInv
<1> QED BY <1>2, <1>3, <1>4, <1>5, <1>6, <1>7, <1>8 DEF Next

\* The invariant holds in every state: no subscriber is ever inconsistent.
THEOREM BusInvariance == Spec => []IndInv
BY InitIndInv, NextIndInv, PTL DEF Spec

\* No consumer sleeps through an event or through the close of the bus.
THEOREM NoLostWakeupTheorem == Spec => []NoLostWakeup
<1>1. IndInv => NoLostWakeup
  BY DEF IndInv, Consistent, NoLostWakeup
<1> QED BY BusInvariance, <1>1, PTL

-----------------------------------------------------------------------------
(* The bus implements its channels *)

\* What the pending events of a channel are, case by case.
LEMMA PendingFacts ==
  ASSUME NEW q \in Seq(Events), NEW e \in Events, NEW x \in Events
  PROVE  /\ <<>> \o q = q
         /\ <<e>> \o q # <<>>
         /\ Tail(<<e>> \o q) = q
         /\ <<e>> \o <<>> = <<e>>
         /\ <<e>> \o Append(q, x) = Append(<<e>> \o q, x)
<1>1. <<>> \o q = q
  OBVIOUS
<1>2. <<e>> \o q # <<>>
  OBVIOUS
<1>3. Tail(<<e>> \o q) = q
  OBVIOUS
<1>4. <<e>> \o <<>> = <<e>>
  OBVIOUS
<1>5. <<e>> \o Append(q, x) = Append(<<e>> \o q, x)
  OBVIOUS
<1> QED BY <1>1, <1>2, <1>3, <1>4, <1>5

\* A published event is appended to the channel of an open consumer.
LEMMA DeliveredMaps ==
  ASSUME NEW c \in Subscriber, Consistent(c), NEW e \in Events
  PROVE  /\ StateOf(Delivered(c, e)) = StateOf(c)
         /\ PendingOf(Delivered(c, e)) =
              IF StateOf(c) = "open" THEN Append(PendingOf(c), e) ELSE PendingOf(c)
<1> c.queue \in Seq(Events) /\ e \notin {None, Done}
  BY BusAssumption DEF Subscriber
<1>1. CASE ~c.registered \/ c.closing
  <2>1. StateOf(c) # "open"
    BY <1>1 DEF StateOf, Consistent, Suspended, Subscriber
  <2> QED BY <1>1, <2>1 DEF Delivered
<1>2. CASE c.registered /\ ~c.closing /\ c.waiting
  <2>1. c.queue = <<>> /\ c.handed \notin Events
    BY <1>2, BusAssumption DEF Consistent
  <2>2. PendingOf(c) = <<>>
    BY <1>2, <2>1 DEF PendingOf, HandedOver
  <2>3. Delivered(c, e) = [c EXCEPT !.waiting = FALSE, !.handed = e]
    BY <1>2 DEF Delivered
  <2>4. PendingOf(Delivered(c, e)) = <<e>>
    BY <1>2, <2>1, <2>3, PendingFacts DEF PendingOf, HandedOver, Subscriber
  <2>5. StateOf(Delivered(c, e)) = "open" /\ StateOf(c) = "open"
    BY <1>2, <2>3 DEF StateOf, Subscriber
  <2> QED BY <2>2, <2>4, <2>5
<1>3. CASE c.registered /\ ~c.closing /\ ~c.waiting
  <2> DEFINE d == Delivered(c, e)
  <2>1. d = [c EXCEPT !.queue = Append(@, e)]
    BY <1>3 DEF Delivered
  <2>2. /\ d.handed = c.handed /\ d.registered /\ ~d.closing
        /\ d.queue = Append(c.queue, e)
    BY <1>3, <2>1 DEF Subscriber
  <2>3. StateOf(d) = "open" /\ StateOf(c) = "open"
    BY <1>3, <2>2 DEF StateOf
  <2>4. PendingOf(d) = HandedOver(c) \o Append(c.queue, e)
    BY <2>2 DEF PendingOf, HandedOver
  <2>5. HandedOver(c) \o Append(c.queue, e) = Append(HandedOver(c) \o c.queue, e)
    <3>1. CASE c.handed \in Events
      BY <3>1, PendingFacts DEF HandedOver
    <3>2. CASE c.handed \notin Events
      <4>1. Append(c.queue, e) \in Seq(Events)
        OBVIOUS
      <4> QED BY <3>2, <4>1, PendingFacts DEF HandedOver
    <3> QED BY <3>1, <3>2
  <2> QED BY <1>3, <2>3, <2>4, <2>5 DEF PendingOf
<1> QED BY <1>1, <1>2, <1>3

\* close takes nothing from a channel.
LEMMA ClosedMaps ==
  ASSUME NEW c \in Subscriber, Consistent(c)
  PROVE  /\ StateOf(Closed(c)) =
              IF StateOf(c) = "open" THEN "closing" ELSE StateOf(c)
         /\ PendingOf(Closed(c)) = PendingOf(c)
<1>1. CASE ~c.registered
  <2>1. Closed(c) = c /\ StateOf(c) # "open"
    BY <1>1 DEF Closed, StateOf, Consistent, Suspended, Subscriber
  <2> QED BY <2>1
<1>2. CASE c.registered
  <2> DEFINE d == Closed(c)
  <2>1. /\ d.registered /\ d.closing /\ d.queue = c.queue
        /\ d.handed = IF c.queue = <<>> /\ c.waiting THEN Done ELSE c.handed
    BY <1>2 DEF Closed, Subscriber
  <2>2. HandedOver(d) = HandedOver(c)
    BY <1>2, <2>1, BusAssumption DEF HandedOver, Consistent
  <2>3. StateOf(d) = "closing" /\ StateOf(c) \in {"open", "closing"}
    BY <1>2, <2>1 DEF StateOf
  <2> QED BY <1>2, <2>1, <2>2, <2>3 DEF PendingOf
<1> QED BY <1>1, <1>2

\* A turn of the loop takes the first event, ends a drained channel, or waits.
LEMMA TurnMaps ==
  ASSUME NEW c \in Subscriber, Consistent(c), c.pc \in {"fresh", "busy"}
  PROVE  \/ /\ PendingOf(c) # <<>> /\ PendingOf(Turn(c)) = Tail(PendingOf(c))
            /\ StateOf(Turn(c)) = StateOf(c)
         \/ /\ StateOf(c) = "closing" /\ PendingOf(c) = <<>>
            /\ StateOf(Turn(c)) = "ended" /\ PendingOf(Turn(c)) = <<>>
         \/ PendingOf(Turn(c)) = PendingOf(c) /\ StateOf(Turn(c)) = StateOf(c)
<1>1. c.registered /\ c.handed = None /\ HandedOver(c) = <<>>
  BY BusAssumption DEF Consistent, Suspended, HandedOver
<1>2. c.queue \in Seq(Events) /\ PendingOf(c) = c.queue
  BY <1>1 DEF PendingOf, Subscriber
<1>3. CASE c.queue # <<>>
  <2> DEFINE d == Turn(c)
  <2>1. /\ d.registered /\ d.handed = None /\ d.closing = c.closing
        /\ d.queue = Tail(c.queue)
    BY <1>1, <1>3 DEF Turn, Subscriber
  <2>2. Tail(c.queue) \in Seq(Events)
    BY <1>2, <1>3
  <2>3. PendingOf(d) = Tail(c.queue)
    BY <2>1, <2>2, BusAssumption DEF PendingOf, HandedOver
  <2>4. StateOf(d) = StateOf(c)
    BY <1>1, <2>1 DEF StateOf
  <2> QED BY <1>2, <1>3, <2>3, <2>4
<1>4. CASE c.queue = <<>> /\ c.closing
  <2> DEFINE d == Turn(c)
  <2>1. d = Removed(c, "ended")
    BY <1>4 DEF Turn
  <2>2. ~d.registered /\ d.pc = "ended"
    BY <2>1 DEF Removed, Subscriber
  <2>3. StateOf(c) = "closing" /\ StateOf(d) = "ended" /\ PendingOf(d) = <<>>
    BY <1>1, <1>4, <2>2 DEF StateOf, PendingOf
  <2> QED BY <1>2, <1>4, <2>3
<1>5. CASE c.queue = <<>> /\ ~c.closing
  <2> DEFINE d == Turn(c)
  <2>1. /\ d.registered /\ d.handed = None /\ d.closing = c.closing
        /\ d.queue = c.queue
    BY <1>1, <1>5 DEF Turn, Subscriber
  <2>2. PendingOf(d) = PendingOf(c) /\ StateOf(d) = StateOf(c)
    BY <1>1, <2>1 DEF PendingOf, StateOf, HandedOver
  <2> QED BY <2>2
<1> QED BY <1>3, <1>4, <1>5 DEF Subscriber

\* What the channels see of a step that changes one subscriber.
LEMMA OneChannel ==
  ASSUME IndInv, NEW s \in Subscribers, NEW d, sub' = [sub EXCEPT ![s] = d]
  PROVE  /\ [q \in Subscribers |-> StateOf(sub'[q])] =
              [[q \in Subscribers |-> StateOf(sub[q])] EXCEPT ![s] = StateOf(d)]
         /\ [q \in Subscribers |-> PendingOf(sub'[q])] =
              [[q \in Subscribers |-> PendingOf(sub[q])] EXCEPT ![s] = PendingOf(d)]
<1>1. ASSUME NEW q \in Subscribers
      PROVE  /\ StateOf(sub'[q]) = IF q = s THEN StateOf(d) ELSE StateOf(sub[q])
             /\ PendingOf(sub'[q]) = IF q = s THEN PendingOf(d) ELSE PendingOf(sub[q])
  <2>1. CASE q = s
    <3>1. sub'[q] = d
      BY <2>1 DEF IndInv, TypeOK
    <3> QED BY <2>1, <3>1
  <2>2. CASE q # s
    <3>1. sub'[q] = sub[q]
      BY <2>2 DEF IndInv, TypeOK
    <3> QED BY <2>2, <3>1
  <2> QED BY <2>1, <2>2
<1> QED BY <1>1

LEMMA InitMaps == Init => Channels!Init
<1> SUFFICES ASSUME Init PROVE Channels!Init
  OBVIOUS
<1>1. ASSUME NEW s \in Subscribers
      PROVE  StateOf(sub[s]) = "none" /\ PendingOf(sub[s]) = <<>>
  BY DEF Init, StateOf, PendingOf
<1> QED BY <1>1 DEF Channels!Init

LEMMA StepMaps == IndInv /\ [Next]_sub => [Channels!Next]_(Channels!vars)
<1> SUFFICES ASSUME IndInv, [Next]_sub PROVE [Channels!Next]_(Channels!vars)
  OBVIOUS
<1> DEFINE state == [q \in Subscribers |-> StateOf(sub[q])]
           pending == [q \in Subscribers |-> PendingOf(sub[q])]
           Stutter == UNCHANGED <<state, pending>>
<1>1. ASSUME NEW s \in Subscribers PROVE sub[s] \in Subscriber /\ Consistent(sub[s])
  BY DEF IndInv, TypeOK
<1>2. ASSUME NEW e \in Events, Publish(e) PROVE Channels!Publish(e)
  <2>1. ASSUME NEW s \in Subscribers
        PROVE  /\ StateOf(sub'[s]) = StateOf(sub[s])
               /\ PendingOf(sub'[s]) =
                    IF StateOf(sub[s]) = "open" THEN Append(PendingOf(sub[s]), e)
                                                ELSE PendingOf(sub[s])
    BY <1>1, <1>2, DeliveredMaps DEF Publish
  <2> QED BY <2>1 DEF Channels!Publish
<1>3. ASSUME Close PROVE Channels!Close
  <2>1. ASSUME NEW s \in Subscribers
        PROVE  /\ StateOf(sub'[s]) =
                    IF StateOf(sub[s]) = "open" THEN "closing" ELSE StateOf(sub[s])
               /\ PendingOf(sub'[s]) = PendingOf(sub[s])
    BY <1>1, <1>3, ClosedMaps DEF Close
  <2> QED BY <2>1 DEF Channels!Close
<1>4. ASSUME NEW s \in Subscribers, Subscribe(s) PROVE Channels!Subscribe(s)
  <2> DEFINE d == [sub[s] EXCEPT !.registered = TRUE, !.pc = "fresh"]
  <2>1. sub' = [sub EXCEPT ![s] = d]
    BY <1>1, <1>4 DEF Subscribe, IndInv, TypeOK
  <2>2. StateOf(sub[s]) = "none" /\ PendingOf(sub[s]) = <<>>
    BY <1>1, <1>4 DEF Subscribe, StateOf, PendingOf, Consistent, Suspended
  <2>3. /\ d.registered /\ ~d.closing
        /\ d.queue = <<>> /\ d.handed = None
    BY <1>1, <1>4 DEF Subscribe, Consistent, Subscriber
  <2>4. StateOf(d) = "open" /\ PendingOf(d) = <<>>
    BY <2>3, BusAssumption DEF StateOf, PendingOf, HandedOver
  <2>5. /\ state' = [state EXCEPT ![s] = StateOf(d)]
        /\ pending' = [pending EXCEPT ![s] = PendingOf(d)]
    BY <2>1, OneChannel
  <2> HIDE DEF d
  <2> QED BY <2>2, <2>4, <2>5 DEF Channels!Subscribe
<1>5. ASSUME NEW s \in Subscribers, Advance(s)
      PROVE  Channels!Take(s) \/ Channels!End(s) \/ Stutter
  <2> DEFINE d == Turn(sub[s])
  <2>1. sub' = [sub EXCEPT ![s] = d] /\ sub[s].pc \in {"fresh", "busy"}
    BY <1>5 DEF Advance
  <2>2. /\ state' = [state EXCEPT ![s] = StateOf(d)]
        /\ pending' = [pending EXCEPT ![s] = PendingOf(d)]
    BY <2>1, OneChannel
  <2>3. \/ /\ PendingOf(sub[s]) # <<>> /\ PendingOf(d) = Tail(PendingOf(sub[s]))
           /\ StateOf(d) = StateOf(sub[s])
        \/ /\ StateOf(sub[s]) = "closing" /\ PendingOf(sub[s]) = <<>>
           /\ StateOf(d) = "ended" /\ PendingOf(d) = <<>>
        \/ PendingOf(d) = PendingOf(sub[s]) /\ StateOf(d) = StateOf(sub[s])
    BY <1>1, <2>1, TurnMaps
  <2> HIDE DEF d
  <2> QED BY <2>2, <2>3 DEF Channels!Take, Channels!End
<1>6. ASSUME NEW s \in Subscribers, Resume(s)
      PROVE  Channels!Take(s) \/ Channels!End(s)
  <2> DEFINE c == sub[s]
  <2>1. c \in Subscriber /\ Consistent(c) /\ c.registered /\ c.queue \in Seq(Events)
    BY <1>1, <1>6 DEF Resume, Consistent, Suspended, Subscriber
  <2>2. CASE c.handed = Done
    <3> DEFINE d == Removed(c, "ended")
    <3>1. sub' = [sub EXCEPT ![s] = d]
      BY <1>6, <2>2 DEF Resume
    <3>2. StateOf(c) = "closing" /\ PendingOf(c) = <<>>
      BY <2>1, <2>2, BusAssumption, PendingFacts
         DEF StateOf, PendingOf, HandedOver, Consistent
    <3>3. StateOf(d) = "ended" /\ PendingOf(d) = <<>>
      BY <2>1 DEF Removed, StateOf, PendingOf, Subscriber
    <3>4. /\ state' = [state EXCEPT ![s] = StateOf(d)]
          /\ pending' = [pending EXCEPT ![s] = PendingOf(d)]
      BY <3>1, OneChannel
    <3> HIDE DEF d
    <3> QED BY <3>2, <3>3, <3>4 DEF Channels!End
  <2>3. CASE c.handed \in Events
    <3> DEFINE d == [c EXCEPT !.pc = "busy", !.handed = None]
    <3>1. sub' = [sub EXCEPT ![s] = d]
      BY <1>6, <2>3, BusAssumption DEF Resume
    <3>2. /\ d.registered /\ d.closing = c.closing
          /\ d.queue = c.queue /\ d.handed = None
      BY <2>1 DEF Subscriber
    <3>3. StateOf(d) = StateOf(c) /\ PendingOf(d) = c.queue
      BY <2>1, <3>2, BusAssumption DEF StateOf, PendingOf, HandedOver
    <3>4. PendingOf(c) # <<>> /\ Tail(PendingOf(c)) = c.queue
      BY <2>1, <2>3, PendingFacts DEF PendingOf, HandedOver
    <3>5. /\ state' = [state EXCEPT ![s] = StateOf(d)]
          /\ pending' = [pending EXCEPT ![s] = PendingOf(d)]
      BY <3>1, OneChannel
    <3> HIDE DEF d
    <3> QED BY <3>3, <3>4, <3>5 DEF Channels!Take
  <2> QED BY <1>6, <2>1, <2>2, <2>3 DEF Resume, Subscriber
<1>7. ASSUME NEW s \in Subscribers, Abandon(s) PROVE Channels!Leave(s)
  <2> DEFINE d == Removed(sub[s], "left")
  <2>1. sub' = [sub EXCEPT ![s] = d]
    BY <1>7 DEF Abandon
  <2>2. StateOf(sub[s]) \in {"open", "closing"}
    BY <1>1, <1>7 DEF Abandon, StateOf, Consistent, Suspended
  <2>3. StateOf(d) = "left" /\ PendingOf(d) = <<>>
    BY <1>1 DEF Removed, StateOf, PendingOf, Subscriber
  <2>4. /\ state' = [state EXCEPT ![s] = StateOf(d)]
        /\ pending' = [pending EXCEPT ![s] = PendingOf(d)]
    BY <2>1, OneChannel
  <2> HIDE DEF d
  <2> QED BY <2>2, <2>3, <2>4 DEF Channels!Leave
<1>8. ASSUME UNCHANGED sub PROVE Stutter
  BY <1>8
<1> QED BY <1>2, <1>3, <1>4, <1>5, <1>6, <1>7, <1>8
        DEF Next, Channels!Next, Channels!vars

\* Whatever is published and whenever the bus is closed, each consumer gets what
\* its channel holds, in order, and ends when it is drained.
THEOREM BusImplementsChannels == Spec => Channels!SafeSpec
<1>1. Spec => []IndInv
  BY BusInvariance
<1> QED BY <1>1, InitMaps, StepMaps, PTL DEF Spec, Channels!SafeSpec

=============================================================================
