--------------------------- MODULE LifecycleProofs ---------------------------
(***************************************************************************)
(* Theorems about the forwarder, its shutdown and its start: whatever the  *)
(* services, the broker and the database do, for any numbers of events and *)
(* attempts.                                                               *)
(***************************************************************************)
EXTENDS GatewayLifecycle, SequenceTheorems, TLAPS

-----------------------------------------------------------------------------
(* The inductive invariant of one loop *)

InFlight == {"posting"} \cup Answers

Held(l) == IF loop[l].event = None THEN 0 ELSE 1

\* How many published events the loop is done with.
Done(l) == Len(log[l]) - Len(loop[l].queue) - Held(l)

\* A loop holds an event of its kind from the moment it takes it to the moment it is
\* done with it, and has counted the attempts it made.
LoopShape(l) ==
  LET c == loop[l] IN
  /\ log[l] \in Seq(EventsOf(l)) /\ c.queue \in Seq(EventsOf(l))
  /\ arrived[l] \in Seq(EventsOf(l))
  /\ c.event \in EventsOf(l) \cup {None}
  /\ c.event = None <=> c.pc \in {"waiting", "ended"}
  /\ c.attempt = 0 <=> c.pc \in {"waiting", "ended", "lookup"}
  /\ c.pc = "backoff" => c.attempt < MaxAttempts
  /\ c.pc = "ended" => c.queue = <<>>

\* No event is published twice, and none is done with before it is published.
LogOnce(l) ==
  /\ \A i, j \in 1..Len(log[l]) : log[l][i] = log[l][j] => i = j
  /\ \A e \in EventsOf(l) : outcome[e] # "none" => Contains(log[l], e)

\* Done with, held or queued, in this order of publication.
Accounted(l) ==
  /\ Done(l) >= 0
  /\ loop[l].event # None => log[l][Done(l) + 1] = loop[l].event
  /\ \A i \in 1..Len(loop[l].queue) : log[l][Done(l) + Held(l) + i] = loop[l].queue[i]
  /\ \A i \in 1..Len(log[l]) : outcome[log[l][i]] = "none" <=> i > Done(l)

\* What was not yet taken was not yet posted, so no copy of it can be anywhere; and
\* of the event that is held no more requests are about than attempts were made.
NothingAhead(l) ==
  /\ \A e \in EventsOf(l) :
       outcome[e] = "none" /\ e # loop[l].event =>
         late[e] = 0 /\ ~Contains(arrived[l], e)
  /\ loop[l].event # None =>
       late[loop[l].event] + (IF loop[l].pc \in InFlight THEN 1 ELSE 0)
         <= loop[l].attempt

\* An answer of success was preceded by the arrival of the event.
SuccessArrived(l) ==
  loop[l].pc = "succeeded" => Contains(arrived[l], loop[l].event)

\* ForwardedInOrder of one loop.
InOrder(l) ==
  \A i \in 1..Len(log[l]) :
    outcome[log[l][i]] = "forwarded" =>
      /\ Contains(arrived[l], log[l][i])
      /\ \A j \in (i + 1)..Len(log[l]), k \in 1..Len(arrived[l]) :
           arrived[l][k] = log[l][j] => Before(l, k, log[l][i])

LoopInv(l) ==
  /\ LoopShape(l)
  /\ LogOnce(l)
  /\ Accounted(l)
  /\ NothingAhead(l)
  /\ SuccessArrived(l)
  /\ InOrder(l)

ForwarderInv == TypeOK /\ \A l \in Loops : LoopInv(l)

-----------------------------------------------------------------------------
(* The inductive invariant of the process *)

ClosedPhases == {"stoppingForwarder", "stoppingHandler", "closingProducer",
                 "stoppingWorker", "stopped", "exited"}

DrainedPhases == {"stoppingHandler", "closingProducer", "stoppingWorker", "stopped"}

\* Only the loops of a process whose consumers were started run, and they end after
\* the bus was closed.
StartedInv ==
  /\ boot.listening => boot.consumers /\ phase \notin {"starting", "aborted"}
  /\ ~boot.consumers => LoopsEnded /\ \A l \in Loops : log[l] = <<>>
  /\ boot.consumers /\ ~closing => \A l \in Loops : loop[l].pc # "ended"

\* What each phase of the shutdown has behind it.
PhaseInv ==
  /\ closing <=> phase \in ClosedPhases
  /\ phase \in DrainedPhases => LoopsEnded
  /\ phase = "exited" =>
       \/ LoopsEnded
       \/ /\ MirrorDrained
          /\ \E l \in Loops : loop[l].pc = "backoff"
          /\ \A l \in Loops : loop[l].pc \in {"backoff", "ended"}
  /\ producer = "closed" =>
       phase \in {"closingProducer", "stoppingWorker", "stopped", "exited"}
  /\ phase \in {"stoppingWorker", "stopped"} => ~worker.timer
  /\ phase = "stopped" => worker.batch = "idle"

MirrorHeld == IF mirror.event = None THEN 0 ELSE 1

MirrorDone == Len(log["deliveries"]) - Len(mirror.queue) - MirrorHeld

\* The loop of the Kafka handler accounts for every receipt as the loops of the
\* forwarder do, and has met no closed producer.
MirrorInv ==
  /\ mirror.pc = "disabled" <=> ~WithKafka \/ ~boot.consumers
  /\ mirror.event = None <=> mirror.pc \in {"disabled", "waiting", "ended"}
  /\ mirror.pc \in {"disabled", "ended"} => mirror.queue = <<>>
  /\ mirror.pc = "ended" => closing
  /\ producer = "closed" => mirror.pc \in {"disabled", "ended"}
  /\ \A e \in Receipts :
       mirrored[e] # "tooLate" /\ (mirrored[e] # "none" => Contains(log["deliveries"], e))
  /\ mirror.pc # "disabled" =>
       /\ MirrorDone >= 0
       /\ mirror.event # None => log["deliveries"][MirrorDone + 1] = mirror.event
       /\ \A i \in 1..Len(mirror.queue) :
            log["deliveries"][MirrorDone + MirrorHeld + i] = mirror.queue[i]
       /\ \A i \in 1..Len(log["deliveries"]) :
            mirrored[log["deliveries"][i]] = "none" <=> i > MirrorDone

LifecycleInv ==
  /\ LifecycleTypeOK
  /\ ForwarderInv
  /\ StartedInv
  /\ PhaseInv
  /\ MirrorInv

-----------------------------------------------------------------------------
(* One loop and the other *)

\* The kinds of events have nothing in common.
LEMMA KindsApart ==
  /\ \A l \in Loops : EventsOf(l) \subseteq Events /\ None \notin EventsOf(l)
  /\ \A l, m \in Loops : l # m => EventsOf(l) \cap EventsOf(m) = {}
BY ForwarderAssumption DEF Loops, EventsOf, Events

LEMMA ContainsAppend ==
  ASSUME NEW S, NEW s \in Seq(S), NEW x \in S, NEW e
  PROVE  /\ Append(s, x) \in Seq(S)
         /\ Contains(Append(s, x), e) <=> Contains(s, e) \/ x = e
BY DEF Contains

\* A loop keeps its invariant while nothing it deals with changes.
LEMMA LoopUntouched ==
  ASSUME NEW l \in Loops, LoopInv(l),
         log'[l] = log[l], loop'[l] = loop[l], arrived'[l] = arrived[l],
         \A e \in EventsOf(l) : outcome'[e] = outcome[e] /\ late'[e] = late[e]
  PROVE  LoopInv(l)'
<1>1. /\ \A i \in 1..Len(log[l]) : log[l][i] \in EventsOf(l)
      /\ loop[l].event \in EventsOf(l) \cup {None}
  BY DEF LoopInv, LoopShape
<1>2. LoopShape(l)' /\ LogOnce(l)' /\ SuccessArrived(l)'
  BY DEF LoopInv, LoopShape, LogOnce, SuccessArrived
<1>3. Accounted(l)'
  <2>1. Done(l)' = Done(l) /\ Held(l)' = Held(l)
    BY DEF Done, Held
  <2> QED BY <1>1, <2>1 DEF LoopInv, Accounted
<1>4. NothingAhead(l)'
  BY <1>1, KindsApart DEF LoopInv, LoopShape, NothingAhead
<1>5. InOrder(l)'
  BY <1>1 DEF LoopInv, InOrder, Before
<1> QED BY <1>2, <1>3, <1>4, <1>5 DEF LoopInv

\* A step of one loop, or one about its events, leaves the other alone.
LEMMA OneLoop ==
  ASSUME ForwarderInv, NEW l \in Loops, TypeOK', LoopInv(l)',
         \A m \in Loops : m # l =>
           log'[m] = log[m] /\ loop'[m] = loop[m] /\ arrived'[m] = arrived[m],
         \A e \in Events \ EventsOf(l) : outcome'[e] = outcome[e] /\ late'[e] = late[e]
  PROVE  ForwarderInv'
<1>1. ASSUME NEW m \in Loops, m # l PROVE LoopInv(m)'
  <2>1. \A e \in EventsOf(m) : e \in Events \ EventsOf(l)
    BY <1>1, KindsApart
  <2> QED BY <1>1, <2>1, LoopUntouched DEF ForwarderInv
<1> QED BY <1>1 DEF ForwarderInv

\* Copies that arrive behind the others do not disturb the order of the first ones.
LEMMA ArrivalKeepsOrder ==
  ASSUME NEW l \in Loops, LoopShape(l), InOrder(l), NEW e \in EventsOf(l),
         log'[l] = log[l], outcome' = outcome,
         arrived'[l] = Append(arrived[l], e)
  PROVE  InOrder(l)'
<1> DEFINE n == Len(arrived[l])
<1>1. /\ arrived[l] \in Seq(EventsOf(l)) /\ n \in Nat
      /\ Len(arrived'[l]) = n + 1 /\ arrived'[l][n + 1] = e
      /\ \A k \in 1..n : arrived'[l][k] = arrived[l][k]
  BY DEF LoopShape
<1> SUFFICES ASSUME NEW i \in 1..Len(log[l]), outcome[log[l][i]] = "forwarded"
             PROVE  /\ Contains(arrived'[l], log[l][i])
                    /\ \A j \in (i + 1)..Len(log[l]), k \in 1..Len(arrived'[l]) :
                         arrived'[l][k] = log[l][j] => Before(l, k, log[l][i])'
  BY SMTT(30) DEF InOrder, Before
<1>2. Contains(arrived[l], log[l][i])
  BY DEF InOrder
<1>3. PICK h \in 1..n : arrived[l][h] = log[l][i]
  BY <1>2 DEF Contains
<1>4. Contains(arrived'[l], log[l][i])
  BY <1>1, <1>3 DEF Contains
<1>5. ASSUME NEW j \in (i + 1)..Len(log[l]), NEW k \in 1..(n + 1),
             arrived'[l][k] = log[l][j]
      PROVE  \E g \in 1..(k - 1) : arrived'[l][g] = log[l][i]
  <2>1. CASE k = n + 1
    BY <1>1, <1>3, <2>1
  <2>2. CASE k \in 1..n
    <3>1. Before(l, k, log[l][i])
      BY <1>1, <1>5, <2>2 DEF InOrder
    <3>2. PICK g \in 1..(k - 1) : arrived[l][g] = log[l][i]
      BY <3>1 DEF Before
    <3>3. g \in 1..n
      BY <1>1, <2>2, <3>2
    <3> QED BY <1>1, <3>2, <3>3
  <2>3. k = n + 1 \/ k \in 1..n
    <3> HIDE DEF n
    <3> QED BY <1>1
  <2> QED BY <2>1, <2>2, <2>3
<1> QED BY <1>1, <1>4, <1>5 DEF Before

-----------------------------------------------------------------------------
(* Steps of the forwarder.  First those that leave the log and what is done alone. *)

\* While it holds the same event and its log, queue and outcomes stay, a loop
\* accounts for the same events.
LEMMA SameAccounts ==
  ASSUME NEW l \in Loops, LoopInv(l),
         log' = log, outcome' = outcome,
         loop'[l].queue = loop[l].queue, loop'[l].event = loop[l].event
  PROVE  LogOnce(l)' /\ Accounted(l)'
<1>1. Done(l)' = Done(l) /\ Held(l)' = Held(l)
  BY DEF Done, Held
<1> QED BY <1>1 DEF LoopInv, LogOnce, Accounted

\* While the log and what has arrived stay, the order is a matter of the outcomes.
LEMMA OrderByOutcome ==
  ASSUME NEW l \in Loops, log' = log, arrived'[l] = arrived[l],
         \A i \in 1..Len(log[l]) : outcome'[log[l][i]] = "forwarded" =>
           /\ Contains(arrived[l], log[l][i])
           /\ \A j \in (i + 1)..Len(log[l]), k \in 1..Len(arrived[l]) :
                arrived[l][k] = log[l][j] => Before(l, k, log[l][i])
  PROVE  InOrder(l)'
<1>1. \A k, e : Before(l, k, e)' <=> Before(l, k, e)
  BY DEF Before
<1> QED BY <1>1 DEF InOrder

LEMMA SameOrder ==
  ASSUME NEW l \in Loops, InOrder(l),
         log' = log, outcome' = outcome, arrived'[l] = arrived[l]
  PROVE  InOrder(l)'
<1>1. \A i \in 1..Len(log[l]) : outcome'[log[l][i]] = "forwarded" =>
        /\ Contains(arrived[l], log[l][i])
        /\ \A j \in (i + 1)..Len(log[l]), k \in 1..Len(arrived[l]) :
             arrived[l][k] = log[l][j] => Before(l, k, log[l][i])
  BY DEF InOrder
<1> QED BY <1>1, OrderByOutcome

\* A loop goes on with its event: the place where it stands and the attempts it
\* counts change, and they fit together; a copy of the event may arrive.
LEMMA GoesOnWithEvent ==
  ASSUME ForwarderInv, NEW l \in Loops, NEW pc, NEW attempt \in 0..MaxAttempts,
         loop' = [loop EXCEPT ![l] = [@ EXCEPT !.pc = pc, !.attempt = attempt]],
         UNCHANGED <<closing, log, outcome>>,
         loop[l].event # None,
         late' \in [Events -> 0..MaxAttempts],
         \A e \in Events \ {loop[l].event} : late'[e] = late[e],
         \/ arrived' = arrived
         \/ arrived' = [arrived EXCEPT ![l] = Append(@, loop[l].event)],
         pc \in InFlight \cup {"backoff"},
         attempt > 0,
         pc = "backoff" => attempt < MaxAttempts,
         late'[loop[l].event] + (IF pc \in InFlight THEN 1 ELSE 0) <= attempt,
         pc = "succeeded" => Contains(arrived'[l], loop[l].event)
  PROVE  ForwarderInv'
<1> DEFINE e0 == loop[l].event
<1>0. pc \in {"posting", "backoff", "succeeded", "retryable", "refused"}
  BY DEF InFlight, Answers
<1> loop \in [Loops -> Loop] /\ arrived \in [Loops -> Seq(Events)] /\ LoopInv(l)
  BY DEF ForwarderInv, TypeOK
<1>1. /\ loop'[l].pc = pc /\ loop'[l].attempt = attempt
      /\ loop'[l].queue = loop[l].queue /\ loop'[l].event = loop[l].event
      /\ \A m \in Loops : m # l => loop'[m] = loop[m]
      /\ loop' \in [Loops -> Loop]
  <2> DEFINE c == [loop[l] EXCEPT !.pc = pc, !.attempt = attempt]
  <2>1. /\ c \in Loop /\ c.pc = pc /\ c.attempt = attempt
        /\ c.queue = loop[l].queue /\ c.event = loop[l].event
    <3>1. loop[l] \in Loop
      OBVIOUS
    <3>2. pc \in {"waiting", "lookup", "posting", "backoff", "ended"} \cup Answers
      BY <1>0 DEF Answers
    <3> HIDE DEF e0
    <3> QED BY <3>1, <3>2 DEF Loop
  <2>2. loop' = [loop EXCEPT ![l] = c]
    OBVIOUS
  <2> HIDE DEF c
  <2> QED BY <2>1, <2>2
<1>2. e0 \in EventsOf(l) /\ e0 \in Events
  BY KindsApart DEF LoopInv, LoopShape
<1>3. /\ arrived' \in [Loops -> Seq(Events)]
      /\ \A m \in Loops : m # l => arrived'[m] = arrived[m]
      /\ arrived'[l] \in {arrived[l], Append(arrived[l], e0)}
      /\ arrived'[l] \in Seq(EventsOf(l))
  <2>0. arrived[l] \in Seq(EventsOf(l)) /\ arrived[l] \in Seq(Events)
    BY DEF LoopInv, LoopShape
  <2>1. Append(arrived[l], e0) \in Seq(EventsOf(l)) /\ Append(arrived[l], e0) \in Seq(Events)
    <3> HIDE DEF e0
    <3> QED BY <1>2, <2>0
  <2> QED BY <2>0, <2>1
<1>4. TypeOK'
  BY <1>1, <1>3 DEF ForwarderInv, TypeOK
<1>5. LoopShape(l)'
  BY <1>1, <1>3 DEF LoopInv, LoopShape, InFlight, Answers
<1>6. SuccessArrived(l)'
  BY <1>1 DEF LoopInv, SuccessArrived
<1>7. NothingAhead(l)'
  <2>1. ASSUME NEW e \in EventsOf(l), outcome[e] = "none", e # e0
        PROVE  late'[e] = 0 /\ ~Contains(arrived'[l], e)
    <3>1. late[e] = 0 /\ ~Contains(arrived[l], e) /\ late'[e] = late[e]
      BY <2>1, KindsApart DEF LoopInv, NothingAhead
    <3>2. arrived[l] \in Seq(EventsOf(l))
      BY DEF LoopInv, LoopShape
    <3>3. Contains(Append(arrived[l], e0), e) <=> Contains(arrived[l], e) \/ e0 = e
      <4> HIDE DEF e0
      <4> QED BY <1>2, <3>2, ContainsAppend
    <3> QED BY <1>3, <2>1, <3>1, <3>3
  <2> QED BY <1>1, <2>1 DEF NothingAhead
<1>8. InOrder(l)'
  <2>1. CASE arrived'[l] = arrived[l]
    BY <2>1, SameOrder DEF LoopInv
  <2>2. CASE arrived'[l] = Append(arrived[l], e0)
    <3> HIDE DEF e0
    <3> QED BY <1>2, <2>2, ArrivalKeepsOrder DEF LoopInv
  <2> QED BY <1>3, <2>1, <2>2
<1>9. LoopInv(l)'
  BY <1>1, <1>5, <1>6, <1>7, <1>8, SameAccounts DEF LoopInv
<1>10. \A e \in Events \ EventsOf(l) : outcome'[e] = outcome[e] /\ late'[e] = late[e]
  BY <1>2
<1> QED BY <1>1, <1>3, <1>4, <1>9, <1>10, OneLoop

\* The next attempt is under way.
LEMMA Posted ==
  ASSUME ForwarderInv, NEW l \in Loops, NEW n \in 0..MaxAttempts,
         loop' = [loop EXCEPT ![l] = [@ EXCEPT !.pc = "posting", !.attempt = n]],
         UNCHANGED <<closing, log, outcome, late, arrived>>,
         loop[l].event # None, n > 0, late[loop[l].event] + 1 <= n
  PROVE  ForwarderInv'
<1> DEFINE pc == "posting"
<1>1. pc \in InFlight /\ pc # "succeeded" /\ pc # "backoff"
  BY DEF InFlight
<1>2. loop' = [loop EXCEPT ![l] = [@ EXCEPT !.pc = pc, !.attempt = n]]
  OBVIOUS
<1>3. late \in [Events -> 0..MaxAttempts]
  BY DEF ForwarderInv, TypeOK
<1> HIDE DEF pc
<1> QED BY <1>1, <1>2, <1>3, GoesOnWithEvent

LEMMA LookUpKeeps ==
  ASSUME ForwarderInv, NEW l \in Loops, LookUp(l)
  PROVE  ForwarderInv'
<1> loop \in [Loops -> Loop] /\ LoopInv(l)
  BY DEF ForwarderInv, TypeOK
<1>1. loop[l].pc = "lookup" /\ loop[l].attempt = 0 /\ loop[l].event # None
  BY DEF LookUp, LoopInv, LoopShape
<1>2. loop' = [loop EXCEPT ![l] = [@ EXCEPT !.pc = "posting", !.attempt = 1]]
  BY <1>1 DEF LookUp, Posting
<1>3. late[loop[l].event] + 1 <= 1
  <2>1. late[loop[l].event] \in Nat
    BY <1>1, KindsApart DEF ForwarderInv, TypeOK, LoopInv, LoopShape
  <2>2. late[loop[l].event] + 0 <= 0
    BY <1>1 DEF LoopInv, NothingAhead, InFlight, Answers
  <2> QED BY <2>1, <2>2
<1>4. /\ UNCHANGED <<closing, log, outcome, late, arrived>>
      /\ 1 \in 0..MaxAttempts /\ 1 > 0
  BY ForwarderAssumption DEF LookUp
<1> QED BY <1>1, <1>2, <1>3, <1>4, Posted

LEMMA DelayEndsKeeps ==
  ASSUME ForwarderInv, NEW l \in Loops, DelayEnds(l)
  PROVE  ForwarderInv'
<1> loop \in [Loops -> Loop] /\ LoopInv(l)
  BY DEF ForwarderInv, TypeOK
<1> DEFINE n == loop[l].attempt + 1
<1>1. /\ loop[l].pc = "backoff" /\ loop[l].event # None
      /\ loop[l].attempt \in 0..MaxAttempts /\ loop[l].attempt < MaxAttempts
  BY DEF DelayEnds, LoopInv, LoopShape, Loop
<1>2. loop' = [loop EXCEPT ![l] = [@ EXCEPT !.pc = "posting", !.attempt = n]]
  BY DEF DelayEnds, Posting
<1>3. late[loop[l].event] + 1 <= n
  <2>1. late[loop[l].event] \in Nat
    BY <1>1, KindsApart DEF ForwarderInv, TypeOK, LoopInv, LoopShape
  <2>2. late[loop[l].event] + 0 <= loop[l].attempt
    BY <1>1 DEF LoopInv, NothingAhead, InFlight, Answers
  <2> QED BY <1>1, <2>1, <2>2
<1>4. n \in 0..MaxAttempts /\ n > 0
  BY <1>1, ForwarderAssumption
<1>5. UNCHANGED <<closing, log, outcome, late, arrived>>
  BY DEF DelayEnds
<1> HIDE DEF n
<1> QED BY <1>1, <1>2, <1>3, <1>4, <1>5, Posted

\* An attempt may be given up while its request is about, and its answer, if it
\* comes, or the request itself is then of no loop's concern.
LEMMA BacksOff ==
  ASSUME ForwarderInv, NEW l \in Loops,
         loop' = [loop EXCEPT ![l].pc = "backoff"],
         UNCHANGED <<closing, log, outcome, arrived>>,
         loop[l].pc \in InFlight, loop[l].attempt < MaxAttempts,
         late' \in [Events -> 0..MaxAttempts],
         \A e \in Events \ {loop[l].event} : late'[e] = late[e],
         late'[loop[l].event] <= loop[l].attempt
  PROVE  ForwarderInv'
<1> DEFINE pc == "backoff"
           n == loop[l].attempt
<1> loop \in [Loops -> Loop] /\ LoopInv(l)
  BY DEF ForwarderInv, TypeOK
<1>1. n \in 0..MaxAttempts /\ n > 0 /\ loop[l].event # None
  BY DEF LoopInv, LoopShape, Loop, InFlight, Answers
<1>2. loop' = [loop EXCEPT ![l] = [@ EXCEPT !.pc = pc, !.attempt = n]]
  BY DEF Loop
<1>3. pc \notin InFlight /\ pc # "succeeded" /\ pc \in InFlight \cup {"backoff"}
  BY DEF InFlight, Answers
<1>4. late'[loop[l].event] + (IF pc \in InFlight THEN 1 ELSE 0) <= n
  <2>1. late'[loop[l].event] \in Nat
    BY <1>1, KindsApart DEF LoopInv, LoopShape
  <2> HIDE DEF pc
  <2> QED BY <1>3, <2>1
<1> HIDE DEF pc, n
<1> QED BY <1>1, <1>2, <1>3, <1>4, GoesOnWithEvent DEF n

LEMMA ReceiveKeeps ==
  ASSUME ForwarderInv, NEW l \in Loops, Receive(l)
  PROVE  ForwarderInv'
<1> loop \in [Loops -> Loop] /\ LoopInv(l) /\ arrived \in [Loops -> Seq(Events)]
    /\ late \in [Events -> 0..MaxAttempts]
  BY DEF ForwarderInv, TypeOK
<1> DEFINE n == loop[l].attempt
           e0 == loop[l].event
<1>1. PICK a \in Answers, taken \in BOOLEAN :
        /\ a = "succeeded" => taken
        /\ loop' = [loop EXCEPT ![l].pc = a]
        /\ arrived' = IF taken THEN [arrived EXCEPT ![l] = Append(@, e0)] ELSE arrived
  BY DEF Receive
<1>2. n \in 0..MaxAttempts /\ n > 0 /\ e0 # None /\ e0 \in Events
  BY KindsApart DEF Receive, LoopInv, LoopShape, Loop
<1>3. loop' = [loop EXCEPT ![l] = [@ EXCEPT !.pc = a, !.attempt = n]]
  BY <1>1 DEF Loop
<1>4. a \in InFlight /\ a # "backoff"
  BY DEF InFlight, Answers
<1>5. late[e0] + 1 <= n
  BY <1>2 DEF Receive, LoopInv, NothingAhead, InFlight
<1>6. a = "succeeded" => Contains(arrived'[l], e0)
  <2>1. arrived[l] \in Seq(Events)
    OBVIOUS
  <2>2. Contains(Append(arrived[l], e0), e0)
    <3> HIDE DEF e0
    <3> QED BY <1>2, <2>1, ContainsAppend
  <2> QED BY <1>1, <2>2
<1>7. UNCHANGED <<closing, log, outcome, late>>
  BY DEF Receive
<1>8. late'[e0] + (IF a \in InFlight THEN 1 ELSE 0) <= n
  BY <1>4, <1>5, <1>7
<1>9. \/ arrived' = arrived
      \/ arrived' = [arrived EXCEPT ![l] = Append(@, e0)]
  BY <1>1
<1> HIDE DEF n
<1> QED BY <1>2, <1>3, <1>4, <1>6, <1>7, <1>8, <1>9, GoesOnWithEvent

\* A copy of an event whose request was given up: only events that the loop holds or
\* is done with have one.
LEMMA LateRequestKeeps ==
  ASSUME ForwarderInv, NEW l \in Loops, NEW e \in EventsOf(l), LateRequest(l, e)
  PROVE  ForwarderInv'
<1> LoopInv(l) /\ arrived \in [Loops -> Seq(Events)]
    /\ late \in [Events -> 0..MaxAttempts] /\ e \in Events
  BY KindsApart DEF ForwarderInv, TypeOK
<1>0. UNCHANGED <<closing, log, loop, outcome>>
  BY DEF LateRequest
<1>1. /\ late' \in [Events -> 0..MaxAttempts]
      /\ late'[e] = late[e] - 1
      /\ \A f \in Events : f # e => late'[f] = late[f]
  BY ForwarderAssumption DEF LateRequest
<1>2. arrived[l] \in Seq(EventsOf(l))
  BY DEF LoopInv, LoopShape
<1>3. Append(arrived[l], e) \in Seq(EventsOf(l)) /\ Append(arrived[l], e) \in Seq(Events)
  BY <1>2
<1>4. /\ arrived' \in [Loops -> Seq(Events)]
      /\ \A m \in Loops : m # l => arrived'[m] = arrived[m]
      /\ arrived'[l] \in {arrived[l], Append(arrived[l], e)}
      /\ arrived'[l] \in Seq(EventsOf(l))
  BY <1>2, <1>3 DEF LateRequest
<1>5. TypeOK'
  BY <1>0, <1>1, <1>4 DEF ForwarderInv, TypeOK
<1>6. outcome[e] # "none" \/ e = loop[l].event
  BY DEF LateRequest, LoopInv, NothingAhead
<1>7. /\ \A f : Contains(arrived'[l], f) => Contains(arrived[l], f) \/ f = e
      /\ \A f : Contains(arrived[l], f) => Contains(arrived'[l], f)
  <2>1. \A f : Contains(Append(arrived[l], e), f) <=> Contains(arrived[l], f) \/ e = f
    BY <1>2, ContainsAppend
  <2> QED BY <1>4, <2>1
<1>8. LoopShape(l)'
  BY <1>0, <1>4 DEF LoopInv, LoopShape
<1>9. SuccessArrived(l)'
  BY <1>0, <1>7 DEF LoopInv, SuccessArrived
<1>10. NothingAhead(l)'
  <2>1. ASSUME NEW f \in EventsOf(l), outcome[f] = "none", f # loop[l].event
        PROVE  late'[f] = 0 /\ ~Contains(arrived'[l], f)
    BY <1>1, <1>6, <1>7, <2>1, KindsApart DEF LoopInv, NothingAhead
  <2>2. loop[l].event # None => late'[loop[l].event] <= late[loop[l].event]
    <3>1. loop[l].event # None => loop[l].event \in Events
      BY KindsApart DEF LoopInv, LoopShape
    <3>2. late[e] \in Nat
      OBVIOUS
    <3>3. CASE loop[l].event = e
      BY <1>1, <3>2, <3>3
    <3>4. CASE loop[l].event # None /\ loop[l].event # e
      <4>1. late'[loop[l].event] = late[loop[l].event] /\ late[loop[l].event] \in Nat
        BY <1>1, <3>1, <3>4
      <4> QED BY <4>1
    <3> QED BY <3>3, <3>4
  <2>3. loop[l].event # None =>
          late'[loop[l].event] \in Nat /\ late[loop[l].event] \in Nat /\ loop[l].attempt \in Nat
    BY <1>1, KindsApart DEF LoopInv, LoopShape, ForwarderInv, TypeOK, Loop
  <2>4. loop[l].event # None =>
          late'[loop[l].event] + (IF loop[l].pc \in InFlight THEN 1 ELSE 0) <= loop[l].attempt
    <3>1. loop[l].event # None =>
            late[loop[l].event] + (IF loop[l].pc \in InFlight THEN 1 ELSE 0) <= loop[l].attempt
      BY DEF LoopInv, NothingAhead
    <3> QED BY <2>2, <2>3, <3>1
  <2> QED BY <1>0, <2>1, <2>4 DEF NothingAhead
<1>11. InOrder(l)'
  <2>1. CASE arrived'[l] = arrived[l]
    BY <1>0, <2>1, SameOrder DEF LoopInv
  <2>2. CASE arrived'[l] = Append(arrived[l], e)
    BY <1>0, <2>2, ArrivalKeepsOrder DEF LoopInv
  <2> QED BY <1>4, <2>1, <2>2
<1>12. LoopInv(l)'
  BY <1>0, <1>8, <1>9, <1>10, <1>11, SameAccounts DEF LoopInv
<1>13. \A f \in Events \ EventsOf(l) : outcome'[f] = outcome[f] /\ late'[f] = late[f]
  BY <1>0, <1>1
<1> QED BY <1>0, <1>4, <1>5, <1>12, <1>13, OneLoop

\* The events a loop accounts for, by their places in the log: the settled ones, the
\* one it holds, the queued ones.
LEMMA Places ==
  ASSUME NEW l \in Loops, loop[l].queue \in Seq(Events), LoopInv(l)
  PROVE  /\ Len(log[l]) \in Nat /\ Len(loop[l].queue) \in Nat /\ Done(l) \in Nat
         /\ Len(log[l]) = Done(l) + Held(l) + Len(loop[l].queue)
         /\ Held(l) = (IF loop[l].event = None THEN 0 ELSE 1)
         /\ \A i \in 1..Len(log[l]) : log[l][i] \in EventsOf(l)
         /\ loop[l].event # None =>
              /\ Done(l) + 1 \in 1..Len(log[l])
              /\ loop[l].event \in EventsOf(l)
              /\ outcome[loop[l].event] = "none"
<1>1. /\ Len(log[l]) \in Nat /\ Len(loop[l].queue) \in Nat
      /\ \A i \in 1..Len(log[l]) : log[l][i] \in EventsOf(l)
  BY DEF LoopInv, LoopShape
<1>2. /\ Done(l) \in Nat
      /\ Len(log[l]) = Done(l) + Held(l) + Len(loop[l].queue)
      /\ Held(l) = (IF loop[l].event = None THEN 0 ELSE 1)
  <2>1. Held(l) = (IF loop[l].event = None THEN 0 ELSE 1) /\ Held(l) \in Nat
    BY DEF Held
  <2>2. Done(l) = Len(log[l]) - Len(loop[l].queue) - Held(l) /\ Done(l) >= 0
    BY DEF LoopInv, Accounted, Done
  <2> DEFINE n == Len(log[l])
             q == Len(loop[l].queue)
             h == Held(l)
             d == Done(l)
  <2>3. n \in Nat /\ q \in Nat /\ h \in Nat /\ d = n - q - h /\ d >= 0
    BY <1>1, <2>1, <2>2
  <2> HIDE DEF n, q, h, d
  <2>4. d \in Nat /\ n = d + h + q
    BY <2>3
  <2> QED BY <2>1, <2>4 DEF n, q, h, d
<1>3. loop[l].event # None => Done(l) + 1 \in 1..Len(log[l])
  BY <1>1, <1>2
<1>4. loop[l].event # None =>
        loop[l].event \in EventsOf(l) /\ outcome[loop[l].event] = "none"
  BY <1>2, <1>3 DEF LoopInv, LoopShape, Accounted
<1> QED BY <1>1, <1>2, <1>3, <1>4

\* The loop is done with its event: the settled events grow by it, and if it counts
\* as forwarded it has arrived, when no later one can have.
LEMMA Finishes ==
  ASSUME ForwarderInv, NEW l \in Loops, NEW how \in Outcomes, Finish(l, how),
         UNCHANGED <<closing, log, arrived>>,
         loop[l].event # None,
         how = "forwarded" => Contains(arrived[l], loop[l].event),
         late' \in [Events -> 0..MaxAttempts],
         \A e \in Events \ {loop[l].event} : late'[e] = late[e]
  PROVE  ForwarderInv'
<1> DEFINE e0 == loop[l].event
<1> loop \in [Loops -> Loop] /\ outcome \in [Events -> Outcomes \cup {"none"}] /\ LoopInv(l)
  BY DEF ForwarderInv, TypeOK
<1>1. /\ loop'[l].pc = "waiting" /\ loop'[l].attempt = 0 /\ loop'[l].event = None
      /\ loop'[l].queue = loop[l].queue /\ loop[l].queue \in Seq(Events)
      /\ \A m \in Loops : m # l => loop'[m] = loop[m]
      /\ loop' \in [Loops -> Loop]
  <2>1. Idle(loop[l]) = [pc |-> "waiting", queue |-> loop[l].queue, event |-> None,
                         attempt |-> 0]
    BY DEF Idle
  <2>2. loop[l].queue \in Seq(Events)
    BY DEF Loop
  <2>3. Idle(loop[l]) \in Loop
    BY <2>1, <2>2, ForwarderAssumption DEF Loop
  <2>4. loop' = [loop EXCEPT ![l] = Idle(loop[l])]
    BY DEF Finish
  <2> DEFINE c == Idle(loop[l])
  <2>5. c \in Loop /\ loop' = [loop EXCEPT ![l] = c]
    BY <2>3, <2>4
  <2> HIDE DEF c
  <2>6. /\ loop'[l] = c /\ loop' \in [Loops -> Loop]
        /\ \A m \in Loops : m # l => loop'[m] = loop[m]
    BY <2>5
  <2> QED BY <2>1, <2>2, <2>6 DEF c
<1>2. /\ Len(log[l]) \in Nat /\ Len(loop[l].queue) \in Nat /\ Done(l) \in Nat
      /\ Len(log[l]) = Done(l) + 1 + Len(loop[l].queue) /\ Held(l) = 1
      /\ \A i \in 1..Len(log[l]) : log[l][i] \in EventsOf(l)
      /\ Done(l) + 1 \in 1..Len(log[l])
      /\ e0 \in EventsOf(l) /\ e0 \in Events /\ outcome[e0] = "none"
  BY <1>1, Places, KindsApart
<1>3. /\ log[l][Done(l) + 1] = e0
      /\ \A i, j \in 1..Len(log[l]) : log[l][i] = log[l][j] => i = j
      /\ \A i \in 1..Len(log[l]) : outcome[log[l][i]] = "none" <=> i > Done(l)
      /\ \A i \in 1..Len(loop[l].queue) : log[l][Done(l) + 1 + i] = loop[l].queue[i]
  BY <1>2 DEF LoopInv, Accounted, LogOnce
<1>4. /\ outcome' \in [Events -> Outcomes \cup {"none"}]
      /\ outcome'[e0] = how /\ how # "none"
      /\ \A e \in Events : e # e0 => outcome'[e] = outcome[e]
  BY <1>2 DEF Finish, Outcomes
<1>5. TypeOK'
  BY <1>1, <1>4 DEF ForwarderInv, TypeOK
<1>6. LoopShape(l)' /\ SuccessArrived(l)'
  BY <1>1 DEF LoopInv, LoopShape, SuccessArrived
<1>7. LogOnce(l)'
  <2>1. Contains(log[l], e0)
    BY <1>2, <1>3 DEF Contains
  <2> QED BY <1>4, <2>1, KindsApart DEF LoopInv, LogOnce
<1>8. Accounted(l)'
  <2>1. Done(l)' = Done(l) + 1 /\ Held(l)' = 0
    BY <1>1, <1>2 DEF Done, Held
  <2>2. ASSUME NEW i \in 1..Len(log[l])
        PROVE  outcome'[log[l][i]] = "none" <=> i > Done(l) + 1
    <3>1. CASE i = Done(l) + 1
      BY <1>2, <1>3, <1>4, <3>1
    <3>2. CASE i # Done(l) + 1
      <4>1. log[l][i] # e0 /\ log[l][i] \in Events
        BY <1>2, <1>3, <3>2, KindsApart
      <4>2. outcome'[log[l][i]] = outcome[log[l][i]]
        BY <1>4, <4>1
      <4> QED BY <1>2, <1>3, <3>2, <4>2
    <3> QED BY <3>1, <3>2
  <2>3. \A i \in 1..Len(loop[l].queue) :
          log[l][(Done(l) + 1) + 0 + i] = loop[l].queue[i]
    <3> TAKE i \in 1..Len(loop[l].queue)
    <3>1. (Done(l) + 1) + 0 + i = Done(l) + 1 + i
      BY <1>2
    <3> QED BY <1>3, <3>1
  <2> QED BY <1>1, <1>2, <2>1, <2>2, <2>3 DEF Accounted
<1>9. NothingAhead(l)'
  <2>1. ASSUME NEW e \in EventsOf(l), outcome'[e] = "none"
        PROVE  late'[e] = 0 /\ ~Contains(arrived[l], e)
    <3>1. e \in Events /\ e # e0 /\ outcome[e] = "none"
      BY <1>4, <2>1, KindsApart
    <3> QED BY <3>1 DEF LoopInv, NothingAhead
  <2> QED BY <1>1, <2>1 DEF NothingAhead
<1>10. InOrder(l)'
  <2> SUFFICES ASSUME NEW i \in 1..Len(log[l]), outcome'[log[l][i]] = "forwarded"
               PROVE  /\ Contains(arrived[l], log[l][i])
                      /\ \A j \in (i + 1)..Len(log[l]), k \in 1..Len(arrived[l]) :
                           arrived[l][k] = log[l][j] => Before(l, k, log[l][i])
    <3>1. arrived'[l] = arrived[l]
      OBVIOUS
    <3> QED BY <3>1, OrderByOutcome
  <2>1. CASE i = Done(l) + 1
    <3>1. ASSUME NEW j \in (i + 1)..Len(log[l]) PROVE ~Contains(arrived[l], log[l][j])
      <4>1. j \in 1..Len(log[l]) /\ j > Done(l) /\ j # Done(l) + 1
        <5> DEFINE d == Done(l)
        <5>1. d \in Nat /\ j \in (d + 2)..Len(log[l]) /\ Len(log[l]) \in Nat
          BY <1>2, <2>1, <3>1
        <5> HIDE DEF d
        <5>2. j \in 1..Len(log[l]) /\ j > d /\ j # d + 1
          BY <5>1
        <5> QED BY <5>2 DEF d
      <4>2. log[l][j] \in EventsOf(l) /\ log[l][j] # e0 /\ outcome[log[l][j]] = "none"
        <5>1. log[l][j] \in EventsOf(l) /\ outcome[log[l][j]] = "none"
          BY <1>2, <1>3, <4>1
        <5>2. log[l][j] # log[l][Done(l) + 1]
          BY <1>2, <1>3, <4>1
        <5> QED BY <1>3, <5>1, <5>2
      <4> QED BY <4>2 DEF LoopInv, NothingAhead
    <3>2. Contains(arrived[l], log[l][i])
      BY <1>3, <1>4, <2>1
    <3> QED BY <3>1, <3>2 DEF Contains
  <2>2. CASE i # Done(l) + 1
    <3>1. log[l][i] # e0 /\ log[l][i] \in Events
      BY <1>2, <1>3, <2>2, KindsApart, SMTT(30)
    <3>2. outcome[log[l][i]] = "forwarded"
      BY <1>4, <3>1
    <3> QED BY <3>2 DEF LoopInv, InOrder
  <2> QED BY <2>1, <2>2
<1>11. LoopInv(l)'
  BY <1>6, <1>7, <1>8, <1>9, <1>10 DEF LoopInv
<1>12. \A e \in Events \ EventsOf(l) : outcome'[e] = outcome[e] /\ late'[e] = late[e]
  BY <1>2, <1>4
<1> QED BY <1>1, <1>5, <1>11, <1>12, OneLoop

\* Whatever ended the attempt.
LEMMA AfterFailureKeeps ==
  ASSUME ForwarderInv, NEW l \in Loops, AfterFailure(l), loop[l].pc \in InFlight,
         UNCHANGED <<closing, log, arrived>>,
         late' \in [Events -> 0..MaxAttempts],
         \A e \in Events \ {loop[l].event} : late'[e] = late[e],
         late'[loop[l].event] <= loop[l].attempt
  PROVE  ForwarderInv'
<1>1. loop[l].event # None
  BY DEF ForwarderInv, LoopInv, LoopShape, InFlight, Answers
<1>2. CASE loop[l].attempt < MaxAttempts /\ loop' = [loop EXCEPT ![l].pc = "backoff"]
           /\ UNCHANGED outcome
  BY <1>2, BacksOff
<1>3. CASE Finish(l, "exhausted")
  <2> DEFINE how == "exhausted"
  <2>1. how \in Outcomes /\ how # "forwarded" /\ Finish(l, how)
    BY <1>3 DEF Outcomes
  <2> HIDE DEF how
  <2> QED BY <1>1, <2>1, Finishes
<1> QED BY <1>2, <1>3 DEF AfterFailure

\* What the shape and the count say of a request that is about.
LEMMA Requested ==
  ASSUME ForwarderInv, NEW l \in Loops, loop[l].pc \in InFlight
  PROVE  /\ loop[l].event # None /\ loop[l].event \in Events
         /\ late \in [Events -> 0..MaxAttempts]
         /\ late[loop[l].event] \in Nat /\ loop[l].attempt \in 0..MaxAttempts
         /\ late[loop[l].event] + 1 <= loop[l].attempt
<1> loop \in [Loops -> Loop] /\ LoopInv(l) /\ late \in [Events -> 0..MaxAttempts]
  BY DEF ForwarderInv, TypeOK
<1>1. loop[l].event # None /\ loop[l].event \in Events /\ loop[l].attempt \in 0..MaxAttempts
  BY KindsApart DEF LoopInv, LoopShape, InFlight, Answers, Loop
<1>2. late[loop[l].event] \in Nat
  BY <1>1
<1>3. late[loop[l].event] + 1 <= loop[l].attempt
  BY <1>1 DEF LoopInv, NothingAhead
<1> QED BY <1>1, <1>2, <1>3

LEMMA AnsweredKeeps ==
  ASSUME ForwarderInv, NEW l \in Loops, Answered(l)
  PROVE  ForwarderInv'
<1>1. loop[l].pc \in InFlight /\ UNCHANGED <<closing, log, late, arrived>>
  BY DEF Answered, InFlight, Answers
<1>2. /\ loop[l].event # None /\ late \in [Events -> 0..MaxAttempts]
      /\ late[loop[l].event] <= loop[l].attempt
  BY <1>1, Requested
<1>3. CASE loop[l].pc = "succeeded" /\ Finish(l, "forwarded")
  <2> DEFINE how == "forwarded"
  <2>1. how \in Outcomes /\ Finish(l, how)
    BY <1>3 DEF Outcomes
  <2>2. Contains(arrived[l], loop[l].event)
    BY <1>3 DEF ForwarderInv, LoopInv, SuccessArrived
  <2> HIDE DEF how
  <2> QED BY <1>1, <1>2, <2>1, <2>2, Finishes
<1>4. CASE loop[l].pc = "refused" /\ Finish(l, "rejected")
  <2> DEFINE how == "rejected"
  <2>1. how \in Outcomes /\ how # "forwarded" /\ Finish(l, how)
    BY <1>4 DEF Outcomes
  <2> HIDE DEF how
  <2> QED BY <1>1, <1>2, <2>1, Finishes
<1>5. CASE AfterFailure(l)
  BY <1>1, <1>2, <1>5, AfterFailureKeeps
<1> QED BY <1>3, <1>4, <1>5 DEF Answered

LEMMA TransportFailsKeeps ==
  ASSUME ForwarderInv, NEW l \in Loops, TransportFails(l)
  PROVE  ForwarderInv'
<1> DEFINE e0 == loop[l].event
<1>1. loop[l].pc \in InFlight /\ UNCHANGED <<closing, log, arrived>> /\ AfterFailure(l)
  BY DEF TransportFails, InFlight
<1>2. /\ e0 \in Events /\ late \in [Events -> 0..MaxAttempts]
      /\ late[e0] \in Nat /\ loop[l].attempt \in 0..MaxAttempts
      /\ late[e0] + 1 <= loop[l].attempt
  BY <1>1, Requested
<1>3. late' \in {late, [late EXCEPT ![e0] = @ + 1]}
  BY DEF TransportFails
<1>4. late[e0] + 1 \in 0..MaxAttempts
  BY <1>2, ForwarderAssumption
<1>5. /\ late' \in [Events -> 0..MaxAttempts]
      /\ \A e \in Events \ {e0} : late'[e] = late[e]
      /\ late'[e0] <= loop[l].attempt
  <2> HIDE DEF e0
  <2>1. CASE late' = late
    BY <1>2, <2>1
  <2>2. CASE late' = [late EXCEPT ![e0] = @ + 1]
    BY <1>2, <1>4, <2>2
  <2> QED BY <1>3, <2>1, <2>2
<1> QED BY <1>1, <1>5, AfterFailureKeeps

\* The head of a queue, which is its loop's next event.
LEMMA NextEvent ==
  ASSUME ForwarderInv, NEW l \in Loops, loop[l].pc = "waiting", loop[l].queue # <<>>
  PROVE  LET e == Head(loop[l].queue)
             q == Tail(loop[l].queue) IN
         /\ e \in EventsOf(l) /\ e \in Events /\ e # None /\ e = log[l][Done(l) + 1]
         /\ q \in Seq(EventsOf(l)) /\ q \in Seq(Events)
         /\ Len(loop[l].queue) = Len(q) + 1 /\ Len(q) \in Nat /\ Done(l) \in Nat
         /\ Held(l) = 0 /\ Len(log[l]) = Done(l) + 1 + Len(q)
         /\ \A i \in 1..Len(q) : q[i] = log[l][Done(l) + 1 + i]
         /\ outcome[e] = "none" /\ late[e] = 0 /\ ~Contains(arrived[l], e)
<1> DEFINE s == loop[l].queue
           e == Head(s)
           q == Tail(s)
           d == Done(l)
<1> loop \in [Loops -> Loop] /\ LoopInv(l)
  BY DEF ForwarderInv, TypeOK
<1>1. s \in Seq(EventsOf(l)) /\ s \in Seq(Events) /\ s # <<>> /\ loop[l].event = None
  BY DEF LoopInv, LoopShape, Loop
<1>2. /\ e \in EventsOf(l) /\ e = s[1] /\ q \in Seq(EventsOf(l)) /\ q \in Seq(Events)
      /\ Len(s) = Len(q) + 1 /\ Len(q) \in Nat
      /\ \A i \in 1..Len(q) : q[i] = s[i + 1]
  <2> HIDE DEF s
  <2> QED BY <1>1
<1>3. e \in Events /\ e # None
  BY <1>2, KindsApart
<1>4. Held(l) = 0 /\ d \in Nat /\ Len(log[l]) = d + 0 + Len(s)
  BY <1>1, Places
<1>5. \A i \in 1..Len(s) : log[l][d + 0 + i] = s[i]
  BY <1>4 DEF LoopInv, Accounted
<1>6. e = log[l][d + 1]
  <2> HIDE DEF s, d
  <2>1. 1 \in 1..Len(s) /\ d + 0 + 1 = d + 1
    BY <1>2, <1>4
  <2> QED BY <1>2, <1>5, <2>1 DEF s
<1>7. \A i \in 1..Len(q) : q[i] = log[l][d + 1 + i]
  <2> TAKE i \in 1..Len(q)
  <2> HIDE DEF s, d
  <2>1. i + 1 \in 1..Len(s) /\ d + 0 + (i + 1) = d + 1 + i
    BY <1>2, <1>4 DEF s
  <2> QED BY <1>2, <1>5, <2>1
<1>8. d + 1 \in 1..Len(log[l]) /\ Len(log[l]) = d + 1 + Len(q)
  <2> HIDE DEF s, q, d
  <2> QED BY <1>2, <1>4
<1>9. outcome[e] = "none"
  <2>1. \A i \in 1..Len(log[l]) : outcome[log[l][i]] = "none" <=> i > d
    BY DEF LoopInv, Accounted
  <2>2. d + 1 > d
    BY <1>4
  <2> HIDE DEF d
  <2> QED BY <1>6, <1>8, <2>1, <2>2
<1>10. late[e] = 0 /\ ~Contains(arrived[l], e)
  BY <1>1, <1>2, <1>3, <1>9 DEF LoopInv, NothingAhead
<1> QED BY <1>2, <1>3, <1>4, <1>6, <1>7, <1>8, <1>9, <1>10

\* The loop holds its next event.
LEMMA Holds ==
  ASSUME ForwarderInv, NEW l \in Loops, loop[l].pc = "waiting", loop[l].queue # <<>>,
         NEW pc \in {"lookup", "posting"}, NEW n \in 0..1, n = 0 <=> pc = "lookup",
         loop' = [loop EXCEPT ![l] =
           [pc |-> pc, queue |-> Tail(loop[l].queue), event |-> Head(loop[l].queue),
            attempt |-> n]],
         UNCHANGED <<closing, log, outcome, late, arrived>>
  PROVE  ForwarderInv'
<1> DEFINE e == Head(loop[l].queue)
           q == Tail(loop[l].queue)
           d == Done(l)
           c == [pc |-> pc, queue |-> q, event |-> e, attempt |-> n]
<1> loop \in [Loops -> Loop] /\ LoopInv(l)
  BY DEF ForwarderInv, TypeOK
<1>1. /\ e \in EventsOf(l) /\ e \in Events /\ e # None /\ e = log[l][d + 1]
      /\ q \in Seq(EventsOf(l)) /\ q \in Seq(Events)
      /\ Len(q) \in Nat /\ d \in Nat
      /\ Held(l) = 0 /\ Len(log[l]) = d + 1 + Len(q)
      /\ \A i \in 1..Len(q) : q[i] = log[l][d + 1 + i]
      /\ outcome[e] = "none" /\ late[e] = 0 /\ ~Contains(arrived[l], e)
  BY NextEvent
<1> HIDE DEF e, q, d
<1>2. c \in Loop
  BY <1>1, ForwarderAssumption DEF Loop
<1>3. loop' = [loop EXCEPT ![l] = c]
  BY DEF e, q
<1> HIDE DEF c
<1>4. /\ loop'[l] = c /\ loop' \in [Loops -> Loop]
      /\ \A m \in Loops : m # l => loop'[m] = loop[m]
  BY <1>2, <1>3
<1>5. /\ loop'[l].pc = pc /\ loop'[l].attempt = n
      /\ loop'[l].queue = q /\ loop'[l].event = e
  BY <1>4 DEF c
<1>6. TypeOK'
  BY <1>4 DEF ForwarderInv, TypeOK
<1>7. LoopShape(l)' /\ SuccessArrived(l)' /\ LogOnce(l)'
  BY <1>1, <1>5 DEF LoopInv, LoopShape, SuccessArrived, LogOnce
<1>8. Held(l)' = 1 /\ Done(l)' = d
  <2>1. Held(l)' = 1
    BY <1>1, <1>5 DEF Held
  <2>2. Done(l)' = Len(log[l]) - Len(q) - Held(l)'
    BY <1>5 DEF Done
  <2> QED BY <1>1, <2>1, <2>2
<1>9. Accounted(l)'
  <2>1. \A i \in 1..Len(log[l]) : outcome[log[l][i]] = "none" <=> i > d
    BY DEF LoopInv, Accounted, d
  <2>2. d >= 0
    BY <1>1
  <2>3. \A i \in 1..Len(q) : log[l][d + 1 + i] = q[i]
    BY <1>1
  <2>4. log[l][d + 1] = e
    BY <1>1
  <2>5. log' = log /\ outcome' = outcome
    OBVIOUS
  <2> HIDE DEF d, e, q
  <2>6. log'[l][Done(l)' + 1] = loop'[l].event
    BY <1>5, <1>8, <2>4, <2>5
  <2>7. \A i \in 1..Len(loop'[l].queue) :
          log'[l][Done(l)' + Held(l)' + i] = loop'[l].queue[i]
    <3>1. loop'[l].queue = q /\ log'[l] = log[l]
      BY <1>5, <2>5
    <3>2. Done(l)' + Held(l)' = d + 1
      BY <1>8
    <3> TAKE i \in 1..Len(loop'[l].queue)
    <3>3. Done(l)' + Held(l)' + i = d + 1 + i /\ i \in 1..Len(q)
      BY <3>1, <3>2
    <3> QED BY <2>3, <3>1, <3>3
  <2>8. \A i \in 1..Len(log'[l]) : outcome'[log'[l][i]] = "none" <=> i > Done(l)'
    BY <1>8, <2>1, <2>5
  <2>9. Done(l)' >= 0
    BY <1>8, <2>2
  <2> QED BY <2>6, <2>7, <2>8, <2>9 DEF Accounted
<1>10. NothingAhead(l)'
  <2>1. ASSUME NEW f \in EventsOf(l), outcome[f] = "none"
        PROVE  late[f] = 0 /\ ~Contains(arrived[l], f)
    <3>1. f # None /\ loop[l].event = None
      BY KindsApart DEF LoopInv, LoopShape
    <3> QED BY <2>1, <3>1 DEF LoopInv, NothingAhead
  <2>2. late[e] + (IF pc \in InFlight THEN 1 ELSE 0) <= n
    BY <1>1 DEF InFlight, Answers
  <2> QED BY <1>5, <2>1, <2>2 DEF NothingAhead
<1>11. InOrder(l)'
  BY SameOrder DEF LoopInv
<1>12. LoopInv(l)'
  BY <1>7, <1>9, <1>10, <1>11 DEF LoopInv
<1> QED BY <1>4, <1>6, <1>12, OneLoop

\* The loop passes its next event over.
LEMMA PassesOver ==
  ASSUME ForwarderInv, NEW l \in Loops, loop[l].pc = "waiting", loop[l].queue # <<>>,
         loop' = [loop EXCEPT ![l].queue = Tail(@)],
         outcome' = [outcome EXCEPT ![Head(loop[l].queue)] = "unrouted"],
         UNCHANGED <<closing, log, late, arrived>>
  PROVE  ForwarderInv'
<1> DEFINE e == Head(loop[l].queue)
           q == Tail(loop[l].queue)
           d == Done(l)
           how == "unrouted"
<1> loop \in [Loops -> Loop] /\ LoopInv(l)
    /\ outcome \in [Events -> Outcomes \cup {"none"}]
  BY DEF ForwarderInv, TypeOK
<1>1. /\ e \in EventsOf(l) /\ e \in Events /\ e # None /\ e = log[l][d + 1]
      /\ q \in Seq(EventsOf(l)) /\ q \in Seq(Events)
      /\ Len(q) \in Nat /\ d \in Nat
      /\ Held(l) = 0 /\ Len(log[l]) = d + 1 + Len(q)
      /\ \A i \in 1..Len(q) : q[i] = log[l][d + 1 + i]
      /\ outcome[e] = "none" /\ late[e] = 0 /\ ~Contains(arrived[l], e)
  BY NextEvent
<1>2. loop[l].event = None
  BY DEF LoopInv, LoopShape
<1> HIDE DEF e, q, d
<1>3. loop' = [loop EXCEPT ![l].queue = q]
  BY DEF q
<1>4. /\ loop'[l].pc = loop[l].pc /\ loop'[l].attempt = loop[l].attempt
      /\ loop'[l].queue = q /\ loop'[l].event = None
      /\ \A m \in Loops : m # l => loop'[m] = loop[m]
      /\ loop' \in [Loops -> Loop]
  <2>1. loop[l] \in Loop
    OBVIOUS
  <2>2. [loop[l] EXCEPT !.queue = q] \in Loop
    BY <1>1, <2>1 DEF Loop
  <2> DEFINE c == [loop[l] EXCEPT !.queue = q]
  <2>3. /\ c.pc = loop[l].pc /\ c.attempt = loop[l].attempt
        /\ c.queue = q /\ c.event = loop[l].event
    BY <2>1 DEF Loop
  <2>4. c \in Loop /\ loop' = [loop EXCEPT ![l] = c]
    BY <1>3, <2>2
  <2> HIDE DEF c
  <2>5. /\ loop'[l] = c /\ loop' \in [Loops -> Loop]
        /\ \A m \in Loops : m # l => loop'[m] = loop[m]
    BY <2>4
  <2>6. loop'[l].queue = q /\ loop'[l].event = None
    BY <1>2, <2>3, <2>5, Zenon
  <2>7. loop'[l].pc = loop[l].pc /\ loop'[l].attempt = loop[l].attempt
    BY <2>3, <2>5, Zenon
  <2> QED BY <2>5, <2>6, <2>7
<1>5. /\ outcome' \in [Events -> Outcomes \cup {"none"}]
      /\ outcome'[e] = how /\ how # "none" /\ how # "forwarded"
      /\ \A f \in Events : f # e => outcome'[f] = outcome[f]
  <2>1. how \in Outcomes /\ how # "none" /\ how # "forwarded"
    BY DEF Outcomes
  <2>2. outcome' = [outcome EXCEPT ![e] = how]
    BY DEF e
  <2>3. e \in Events
    BY <1>1
  <2> HIDE DEF how
  <2>4. outcome'[e] = how /\ \A f \in Events : f # e => outcome'[f] = outcome[f]
    BY <2>2, <2>3
  <2>5. outcome' \in [Events -> Outcomes \cup {"none"}]
    BY <2>1, <2>2
  <2> QED BY <2>1, <2>4, <2>5
<1> HIDE DEF how
<1>6. TypeOK'
  BY <1>4, <1>5 DEF ForwarderInv, TypeOK
<1>7. LoopShape(l)' /\ SuccessArrived(l)'
  BY <1>1, <1>4 DEF LoopInv, LoopShape, SuccessArrived
<1>8. /\ \A i, j \in 1..Len(log[l]) : log[l][i] = log[l][j] => i = j
      /\ \A i \in 1..Len(log[l]) : outcome[log[l][i]] = "none" <=> i > d
      /\ \A i \in 1..Len(log[l]) : log[l][i] \in EventsOf(l)
      /\ d + 1 \in 1..Len(log[l])
  <2>1. \A i, j \in 1..Len(log[l]) : log[l][i] = log[l][j] => i = j
    BY DEF LoopInv, LogOnce
  <2>2. \A i \in 1..Len(log[l]) : outcome[log[l][i]] = "none" <=> i > d
    BY DEF LoopInv, Accounted, d
  <2>3. \A i \in 1..Len(log[l]) : log[l][i] \in EventsOf(l)
    BY DEF LoopInv, LoopShape
  <2>4. d + 1 \in 1..Len(log[l])
    BY <1>1
  <2> QED BY <2>1, <2>2, <2>3, <2>4
<1>9. LogOnce(l)'
  <2>1. Contains(log[l], e)
    BY <1>1, <1>8 DEF Contains
  <2> QED BY <1>5, <2>1, KindsApart DEF LoopInv, LogOnce
<1>10. Held(l)' = 0 /\ Done(l)' = d + 1
  <2>1. Held(l)' = 0
    BY <1>4 DEF Held
  <2>2. Done(l)' = Len(log[l]) - Len(q) - Held(l)'
    BY <1>4 DEF Done
  <2> QED BY <1>1, <2>1, <2>2
<1>11. \A i \in 1..Len(log[l]) :
         i # d + 1 => log[l][i] # e /\ log[l][i] \in Events
  BY <1>1, <1>8, KindsApart
<1>12. Accounted(l)'
  <2>1. ASSUME NEW i \in 1..Len(log[l])
        PROVE  outcome'[log[l][i]] = "none" <=> i > d + 1
    <3>1. CASE i = d + 1
      BY <1>1, <1>5, <3>1
    <3>2. CASE i # d + 1
      <4>1. outcome'[log[l][i]] = outcome[log[l][i]]
        BY <1>5, <1>11, <3>2
      <4>2. outcome[log[l][i]] = "none" <=> i > d
        BY <1>8
      <4>3. i > d <=> i > d + 1
        BY <1>1, <3>2
      <4> QED BY <4>1, <4>2, <4>3
    <3> QED BY <3>1, <3>2
  <2>2. \A i \in 1..Len(q) : log[l][(d + 1) + 0 + i] = q[i]
    <3> TAKE i \in 1..Len(q)
    <3>1. (d + 1) + 0 + i = d + 1 + i
      BY <1>1
    <3> QED BY <1>1, <3>1
  <2>3. d + 1 >= 0
    BY <1>1
  <2> QED BY <1>4, <1>10, <2>1, <2>2, <2>3 DEF Accounted
<1>13. NothingAhead(l)'
  <2>1. ASSUME NEW f \in EventsOf(l), outcome'[f] = "none"
        PROVE  late[f] = 0 /\ ~Contains(arrived[l], f)
    <3>1. f \in Events /\ f # None /\ outcome[f] = "none"
      BY <1>5, <2>1, KindsApart
    <3> QED BY <1>2, <3>1 DEF LoopInv, NothingAhead
  <2> QED BY <1>4, <2>1 DEF NothingAhead
<1>14. InOrder(l)'
  <2> SUFFICES ASSUME NEW i \in 1..Len(log[l]), outcome'[log[l][i]] = "forwarded"
               PROVE  /\ Contains(arrived[l], log[l][i])
                      /\ \A j \in (i + 1)..Len(log[l]), k \in 1..Len(arrived[l]) :
                           arrived[l][k] = log[l][j] => Before(l, k, log[l][i])
    <3>1. arrived'[l] = arrived[l]
      OBVIOUS
    <3> QED BY <3>1, OrderByOutcome
  <2>1. i # d + 1
    BY <1>1, <1>5
  <2>2. outcome[log[l][i]] = "forwarded"
    BY <1>5, <1>11, <2>1
  <2> QED BY <2>2 DEF LoopInv, InOrder
<1>15. LoopInv(l)'
  BY <1>7, <1>9, <1>12, <1>13, <1>14 DEF LoopInv
<1>16. \A f \in Events \ EventsOf(l) : outcome'[f] = outcome[f] /\ late'[f] = late[f]
  BY <1>1, <1>5
<1> QED BY <1>4, <1>6, <1>15, <1>16, OneLoop

LEMMA TakeKeeps ==
  ASSUME ForwarderInv, NEW l \in Loops, Take(l)
  PROVE  ForwarderInv'
<1> DEFINE e == Head(loop[l].queue)
           q == Tail(loop[l].queue)
<1>0. loop[l] \in Loop /\ loop[l].pc = "waiting" /\ loop[l].queue # <<>>
      /\ loop[l].attempt = 0 /\ UNCHANGED <<closing, log, late, arrived>>
  BY DEF ForwarderInv, TypeOK, Take, LoopInv, LoopShape
<1>1. CASE /\ loop' = [loop EXCEPT ![l] = Busy(@, "lookup", 0)]
           /\ UNCHANGED outcome
  <2> DEFINE pc == "lookup"
             n == 0
  <2>2. loop' = [loop EXCEPT ![l] = [pc |-> pc, queue |-> q, event |-> e, attempt |-> n]]
    BY <1>1 DEF Busy
  <2>3. pc \in {"lookup", "posting"} /\ n \in 0..1 /\ (n = 0 <=> pc = "lookup")
    OBVIOUS
  <2> HIDE DEF pc, n
  <2> QED BY <1>0, <1>1, <2>2, <2>3, Holds
<1>2. CASE /\ loop' = [loop EXCEPT ![l] = Busy(@, "posting", 1)]
           /\ UNCHANGED outcome
  <2> DEFINE pc == "posting"
             n == 1
  <2>2. loop' = [loop EXCEPT ![l] = [pc |-> pc, queue |-> q, event |-> e, attempt |-> n]]
    BY <1>2 DEF Busy
  <2>3. pc \in {"lookup", "posting"} /\ n \in 0..1 /\ (n = 0 <=> pc = "lookup")
    OBVIOUS
  <2> HIDE DEF pc, n
  <2> QED BY <1>0, <1>2, <2>2, <2>3, Holds
<1>3. CASE /\ loop' = [loop EXCEPT ![l].queue = Tail(@)]
           /\ outcome' = [outcome EXCEPT ![e] = "unrouted"]
  BY <1>0, <1>3, PassesOver
<1> QED BY <1>1, <1>2, <1>3 DEF Take

LEMMA AppendFacts ==
  ASSUME NEW S, NEW s \in Seq(S), NEW x \in S
  PROVE  /\ Append(s, x) \in Seq(S) /\ Len(Append(s, x)) = Len(s) + 1 /\ Len(s) \in Nat
         /\ Append(s, x)[Len(s) + 1] = x
         /\ \A i \in 1..Len(s) : Append(s, x)[i] = s[i]
OBVIOUS

\* A published event is the last in the log and in its queue, and nothing has
\* happened with it.
LEMMA PublishKeeps ==
  ASSUME ForwarderInv, NEW l \in Loops, NEW e \in EventsOf(l), Publish(l, e),
         loop[l].pc # "ended"
  PROVE  ForwarderInv'
<1> DEFINE d == Done(l)
           h == Held(l)
           n == Len(log[l])
           q == loop[l].queue
<1> loop \in [Loops -> Loop] /\ log \in [Loops -> Seq(Events)] /\ LoopInv(l)
    /\ e \in Events
  BY KindsApart DEF ForwarderInv, TypeOK
<1>0. UNCHANGED <<closing, outcome, late, arrived>> /\ ~Contains(log[l], e)
  BY DEF Publish, Published
<1>1. /\ n \in Nat /\ Len(q) \in Nat /\ d \in Nat /\ h \in {0, 1}
      /\ n = d + h + Len(q)
      /\ h = (IF loop[l].event = None THEN 0 ELSE 1)
      /\ log[l] \in Seq(EventsOf(l)) /\ q \in Seq(EventsOf(l)) /\ q \in Seq(Events)
  <2>1. loop[l].queue \in Seq(Events)
    BY DEF Loop
  <2> QED BY <2>1, Places DEF LoopInv, LoopShape
<1>2. /\ log'[l] = Append(log[l], e) /\ log' \in [Loops -> Seq(Events)]
      /\ \A m \in Loops : m # l => log'[m] = log[m]
  BY DEF Publish
<1>3. /\ loop'[l].pc = loop[l].pc /\ loop'[l].attempt = loop[l].attempt
      /\ loop'[l].queue = Append(q, e) /\ loop'[l].event = loop[l].event
      /\ \A m \in Loops : m # l => loop'[m] = loop[m]
      /\ loop' \in [Loops -> Loop]
  <2> DEFINE r == Append(q, e)
             c == [loop[l] EXCEPT !.queue = r]
  <2>1. r \in Seq(Events) /\ loop[l] \in Loop
    BY <1>1
  <2>2. loop' = [loop EXCEPT ![l] = c]
    BY DEF Publish
  <2> HIDE DEF r
  <2>3. /\ c.pc = loop[l].pc /\ c.attempt = loop[l].attempt
        /\ c.queue = r /\ c.event = loop[l].event /\ c \in Loop
    BY <2>1 DEF Loop
  <2> HIDE DEF c
  <2>4. /\ loop'[l] = c /\ loop' \in [Loops -> Loop]
        /\ \A m \in Loops : m # l => loop'[m] = loop[m]
    BY <2>2, <2>3
  <2> QED BY <2>3, <2>4 DEF r
<1>4. TypeOK'
  BY <1>0, <1>2, <1>3 DEF ForwarderInv, TypeOK
<1>5. /\ Append(log[l], e) \in Seq(EventsOf(l)) /\ Len(log'[l]) = n + 1
      /\ log'[l][n + 1] = e /\ \A i \in 1..n : log'[l][i] = log[l][i]
      /\ Append(q, e) \in Seq(EventsOf(l)) /\ Len(loop'[l].queue) = Len(q) + 1
      /\ loop'[l].queue[Len(q) + 1] = e
      /\ \A i \in 1..Len(q) : loop'[l].queue[i] = q[i]
  <2>1. /\ Append(log[l], e) \in Seq(EventsOf(l)) /\ Len(log'[l]) = n + 1
        /\ log'[l][n + 1] = e /\ \A i \in 1..n : log'[l][i] = log[l][i]
    BY <1>1, <1>2, AppendFacts
  <2>2. /\ Append(q, e) \in Seq(EventsOf(l)) /\ Len(loop'[l].queue) = Len(q) + 1
        /\ loop'[l].queue[Len(q) + 1] = e
        /\ \A i \in 1..Len(q) : loop'[l].queue[i] = q[i]
    BY <1>1, <1>3, AppendFacts
  <2> QED BY <2>1, <2>2
<1>6. /\ \A i \in 1..n : log[l][i] # e
      /\ outcome[e] = "none"
      /\ loop[l].event # None => loop[l].event # e
      /\ late[e] = 0 /\ ~Contains(arrived[l], e)
  <2>1. \A i \in 1..n : log[l][i] # e
    BY <1>0 DEF Contains
  <2>2. outcome[e] = "none"
    BY <1>0 DEF LoopInv, LogOnce
  <2>3. loop[l].event # None => loop[l].event # e
    <3>1. loop[l].event # None => log[l][Done(l) + 1] = loop[l].event
      BY DEF LoopInv, Accounted
    <3>2. loop[l].event # None => Done(l) + 1 \in 1..n
      BY <1>1, Places
    <3> QED BY <2>1, <3>1, <3>2
  <2>4. e # loop[l].event
    BY <2>3, KindsApart
  <2> QED BY <2>1, <2>2, <2>3, <2>4 DEF LoopInv, NothingAhead
<1>7. LoopShape(l)' /\ SuccessArrived(l)'
  BY <1>0, <1>2, <1>3, <1>5 DEF LoopInv, LoopShape, SuccessArrived
<1>8. LogOnce(l)'
  <2>1. \A i, j \in 1..(n + 1) : log'[l][i] = log'[l][j] => i = j
    <3>1. \A i, j \in 1..n : log[l][i] = log[l][j] => i = j
      BY DEF LoopInv, LogOnce
    <3>2. \A i \in 1..(n + 1) : i \in 1..n \/ i = n + 1
      <4> HIDE DEF n
      <4> QED BY <1>1
    <3> HIDE DEF n
    <3> QED BY <1>5, <1>6, <3>1, <3>2
  <2>2. ASSUME NEW f \in EventsOf(l), outcome[f] # "none" PROVE Contains(log'[l], f)
    <3>1. Contains(log[l], f)
      BY <2>2 DEF LoopInv, LogOnce
    <3> QED BY <1>1, <1>2, <3>1, ContainsAppend
  <2> QED BY <1>0, <1>5, <2>1, <2>2 DEF LogOnce
<1>9. Held(l)' = h /\ Done(l)' = d
  <2>1. Held(l)' = h
    BY <1>3 DEF Held
  <2>2. Done(l)' = (n + 1) - (Len(q) + 1) - Held(l)'
    BY <1>3, <1>5 DEF Done
  <2> DEFINE k == Len(q)
  <2>3. Done(l)' = (n + 1) - (k + 1) - h
    BY <2>1, <2>2
  <2>4. n = d + h + k /\ n \in Nat /\ d \in Nat /\ h \in Nat /\ k \in Nat
    BY <1>1
  <2> HIDE DEF d, h, n, k
  <2>5. (n + 1) - (k + 1) - h = d
    BY <2>4
  <2> QED BY <2>1, <2>3, <2>5
<1>10. Accounted(l)'
  <2>1. loop[l].event # None => log'[l][d + 1] = loop[l].event
    <3> SUFFICES ASSUME loop[l].event # None PROVE log'[l][d + 1] = loop[l].event
      OBVIOUS
    <3>1. d + 1 \in 1..n /\ log[l][d + 1] = loop[l].event
      BY <1>1, Places DEF LoopInv, Accounted
    <3> QED BY <1>5, <3>1
  <2>2. ASSUME NEW i \in 1..(Len(q) + 1) PROVE log'[l][d + h + i] = loop'[l].queue[i]
    <3>1. CASE i \in 1..Len(q)
      <4>1. log[l][d + h + i] = q[i]
        BY <3>1 DEF LoopInv, Accounted
      <4>2. d + h + i \in 1..n
        <5> HIDE DEF d, h, n, q
        <5> QED BY <1>1, <3>1
      <4> QED BY <1>5, <3>1, <4>1, <4>2
    <3>2. CASE i = Len(q) + 1
      <4>1. d + h + i = n + 1
        <5> DEFINE k == Len(q)
        <5>1. n = d + h + k /\ d \in Nat /\ h \in Nat /\ k \in Nat /\ i = k + 1
          BY <1>1, <3>2
        <5> HIDE DEF d, h, n, k
        <5> QED BY <5>1
      <4> QED BY <1>5, <3>2, <4>1
    <3>3. i \in 1..Len(q) \/ i = Len(q) + 1
      <4> HIDE DEF q
      <4> QED BY <1>1
    <3> QED BY <3>1, <3>2, <3>3
  <2>3. ASSUME NEW i \in 1..(n + 1) PROVE outcome[log'[l][i]] = "none" <=> i > d
    <3>1. CASE i \in 1..n
      <4>1. outcome[log[l][i]] = "none" <=> i > d
        BY <3>1 DEF LoopInv, Accounted
      <4> QED BY <1>5, <3>1, <4>1
    <3>2. CASE i = n + 1
      <4>1. i > d
        <5> HIDE DEF d, h, n, q
        <5> QED BY <1>1, <3>2
      <4> QED BY <1>5, <1>6, <3>2, <4>1
    <3>3. i \in 1..n \/ i = n + 1
      <4> HIDE DEF n
      <4> QED BY <1>1
    <3> QED BY <3>1, <3>2, <3>3
  <2>4. d >= 0
    BY <1>1
  <2> QED BY <1>0, <1>3, <1>5, <1>9, <2>1, <2>2, <2>3, <2>4 DEF Accounted
<1>11. NothingAhead(l)'
  BY <1>0, <1>3 DEF LoopInv, NothingAhead
<1>12. InOrder(l)'
  <2> SUFFICES ASSUME NEW i \in 1..(n + 1), outcome[log'[l][i]] = "forwarded"
               PROVE  /\ Contains(arrived[l], log'[l][i])
                      /\ \A j \in (i + 1)..(n + 1), k \in 1..Len(arrived[l]) :
                           arrived[l][k] = log'[l][j] => Before(l, k, log'[l][i])
    <3>1. arrived'[l] = arrived[l]
      BY <1>0
    <3> QED BY <1>0, <1>5, <3>1 DEF InOrder, Before
  <2>1. i \in 1..n
    <3>1. i # n + 1
      BY <1>5, <1>6
    <3> HIDE DEF n
    <3> QED BY <1>1, <3>1
  <2>2. /\ log'[l][i] = log[l][i]
        /\ Contains(arrived[l], log[l][i])
        /\ \A j \in (i + 1)..n, k \in 1..Len(arrived[l]) :
             arrived[l][k] = log[l][j] => Before(l, k, log[l][i])
    BY <1>5, <2>1 DEF LoopInv, InOrder
  <2>3. ASSUME NEW j \in (i + 1)..(n + 1), NEW k \in 1..Len(arrived[l]),
               arrived[l][k] = log'[l][j]
        PROVE  Before(l, k, log[l][i])
    <3>1. j # n + 1
      BY <1>5, <1>6, <2>3 DEF Contains
    <3>2. j \in (i + 1)..n /\ j \in 1..n
      <4>1. n \in Nat
        BY <1>1
      <4> HIDE DEF n
      <4> QED BY <2>1, <3>1, <4>1
    <3> QED BY <1>5, <2>2, <2>3, <3>2
  <2> QED BY <2>2, <2>3
<1>13. LoopInv(l)'
  BY <1>7, <1>8, <1>10, <1>11, <1>12 DEF LoopInv
<1> QED BY <1>0, <1>2, <1>3, <1>4, <1>13, OneLoop

\* Closing changes nothing a loop's invariant is about.
LEMMA CloseKeeps ==
  ASSUME ForwarderInv, Close
  PROVE  ForwarderInv'
<1>1. UNCHANGED <<log, loop, outcome, late, arrived>> /\ closing' = TRUE
  BY DEF Close
<1>2. TypeOK'
  BY <1>1 DEF ForwarderInv, TypeOK
<1>3. \A l \in Loops : LoopInv(l)'
  BY <1>1, LoopUntouched DEF ForwarderInv
<1> QED BY <1>2, <1>3 DEF ForwarderInv

\* A loop without an event may end, or begin.
LEMMA MovesIdle ==
  ASSUME ForwarderInv, NEW l \in Loops, LoopInv(l), NEW pc \in {"waiting", "ended"},
         loop'[l].pc = pc, loop'[l].attempt = loop[l].attempt,
         loop'[l].event = loop[l].event, loop'[l].queue = loop[l].queue,
         loop[l].event = None, pc = "ended" => loop[l].queue = <<>>,
         UNCHANGED <<log, outcome, late, arrived>>
  PROVE  LoopInv(l)'
<1>1. LoopShape(l)' /\ SuccessArrived(l)' /\ NothingAhead(l)'
  BY DEF LoopInv, LoopShape, SuccessArrived, NothingAhead
<1>2. LogOnce(l)' /\ Accounted(l)'
  BY SameAccounts
<1>3. InOrder(l)'
  BY SameOrder DEF LoopInv
<1> QED BY <1>1, <1>2, <1>3 DEF LoopInv

LEMMA EndKeeps ==
  ASSUME ForwarderInv, NEW l \in Loops, End(l)
  PROVE  ForwarderInv'
<1> DEFINE pc == "ended"
<1>0. /\ loop \in [Loops -> Loop] /\ loop[l] \in Loop /\ LoopInv(l)
      /\ loop[l].event = None /\ loop[l].queue = <<>>
      /\ UNCHANGED <<closing, log, outcome, late, arrived>>
  BY DEF ForwarderInv, TypeOK, End, LoopInv, LoopShape
<1>1. /\ loop'[l].pc = pc /\ loop'[l].attempt = loop[l].attempt
      /\ loop'[l].event = loop[l].event /\ loop'[l].queue = loop[l].queue
      /\ loop' \in [Loops -> Loop]
      /\ \A m \in Loops : m # l => loop'[m] = loop[m]
  BY <1>0 DEF End, Loop
<1>2. LoopInv(l)'
  <2>1. pc \in {"waiting", "ended"}
    OBVIOUS
  <2> HIDE DEF pc
  <2> QED BY <1>0, <1>1, <2>1, MovesIdle
<1>3. TypeOK'
  BY <1>0, <1>1 DEF ForwarderInv, TypeOK
<1> QED BY <1>0, <1>1, <1>2, <1>3, OneLoop

-----------------------------------------------------------------------------
(* Steps of the process *)

LEMMA EmptyShape ==
  ASSUME NEW l \in Loops, log[l] = <<>>, arrived[l] = <<>>,
         loop[l] = [pc |-> "ended", queue |-> <<>>, event |-> None, attempt |-> 0]
  PROVE  LoopShape(l) /\ SuccessArrived(l)
<1>1. /\ loop[l].pc = "ended" /\ loop[l].queue = <<>> /\ loop[l].event = None
      /\ loop[l].attempt = 0
  OBVIOUS
<1>2. log[l] \in Seq(EventsOf(l)) /\ arrived[l] \in Seq(EventsOf(l))
      /\ loop[l].queue \in Seq(EventsOf(l))
  OBVIOUS
<1> QED BY <1>1, <1>2 DEF LoopShape, SuccessArrived

LEMMA InitHolds == LifecycleInit => LifecycleInv
<1> SUFFICES ASSUME LifecycleInit PROVE LifecycleInv
  OBVIOUS
<1> USE DEF LifecycleInit, NothingYet
<1> DEFINE c == [pc |-> "ended", queue |-> <<>>, event |-> None, attempt |-> 0]
<1>1. TypeOK
  <2>2. 0 \in 0..MaxAttempts
    BY ForwarderAssumption
  <2>1. c \in Loop
    <3> DEFINE q == <<>>
               n == 0
               pc == "ended"
               pcs == {"waiting", "lookup", "posting", "backoff", "ended"} \cup Answers
    <3>1. q \in Seq(Events) /\ n \in 0..MaxAttempts /\ pc \in pcs /\ None \in Events \cup {None}
      BY <2>2
    <3>2. c = [pc |-> pc, queue |-> q, event |-> None, attempt |-> n]
      OBVIOUS
    <3>3. Loop = [pc : pcs, queue : Seq(Events), event : Events \cup {None},
                  attempt : 0..MaxAttempts]
      BY DEF Loop
    <3> HIDE DEF c, q, n, pc, pcs
    <3> QED BY <3>1, <3>2, <3>3
  <2>3. <<>> \in Seq(Events) /\ loop = [l \in Loops |-> c]
    OBVIOUS
  <2> HIDE DEF c
  <2> QED BY <2>1, <2>2, <2>3 DEF TypeOK
<1>2. LifecycleTypeOK
  BY <1>1 DEF LifecycleTypeOK, ShutdownTypeOK, Phases, Boot
<1>3. ASSUME NEW l \in Loops PROVE LoopInv(l)
  <2>0. /\ loop[l] = c /\ log[l] = <<>> /\ arrived[l] = <<>>
        /\ \A e \in EventsOf(l) : outcome[e] = "none" /\ late[e] = 0
    BY <1>3, KindsApart
  <2>1. LoopShape(l) /\ SuccessArrived(l)
    BY <2>0, EmptyShape
  <2>2. LogOnce(l) /\ InOrder(l)
    BY <2>0 DEF LogOnce, InOrder
  <2>3. Done(l) = 0 /\ Held(l) = 0
    BY <2>0 DEF Done, Held
  <2>4. Accounted(l)
    BY <2>0, <2>3 DEF Accounted
  <2>5. NothingAhead(l)
    BY <2>0 DEF NothingAhead, Contains
  <2> QED BY <2>1, <2>2, <2>4, <2>5 DEF LoopInv
<1>4. StartedInv
  BY DEF StartedInv, LoopsEnded
<1>5. PhaseInv
  BY DEF PhaseInv, ClosedPhases, DrainedPhases
<1>6. MirrorInv
  BY DEF MirrorInv
<1> QED BY <1>1, <1>2, <1>3, <1>4, <1>5, <1>6 DEF LifecycleInv, ForwarderInv

LEMMA ForwarderRests ==
  ASSUME ForwarderInv, UNCHANGED forwarderVars
  PROVE  ForwarderInv'
<1>1. UNCHANGED <<closing, log, loop, outcome, late, arrived>>
  BY DEF forwarderVars
<1>2. TypeOK'
  BY <1>1 DEF ForwarderInv, TypeOK
<1>3. \A l \in Loops : LoopInv(l)'
  BY <1>1, LoopUntouched DEF ForwarderInv
<1> QED BY <1>2, <1>3 DEF ForwarderInv

\* What is asserted about the mirror rests on the log and on its own variables.
LEMMA MirrorRests ==
  ASSUME MirrorInv, UNCHANGED <<log, closing, mirror, mirrored, producer>>,
         boot'.consumers = boot.consumers
  PROVE  MirrorInv'
BY DEF MirrorInv, MirrorDone, MirrorHeld, WithKafka

\* A step of a loop leaves the log alone, and the loop ends only behind a closed bus.
LEMMA LoopsEndClosed ==
  ASSUME ForwarderInv, NEW l \in Loops,
         \/ Take(l) \/ LookUp(l) \/ Answered(l) \/ TransportFails(l) \/ DelayEnds(l)
         \/ End(l) \/ Receive(l) \/ \E e \in EventsOf(l) : LateRequest(l, e)
  PROVE  /\ UNCHANGED <<log, closing>>
         /\ \A m \in Loops : loop[m].pc = "ended" => loop'[m].pc = "ended"
         /\ ~closing => \A m \in Loops : loop'[m].pc = "ended" => loop[m].pc = "ended"
<1>0. loop \in [Loops -> Loop] /\ loop[l] \in Loop
  BY DEF ForwarderInv, TypeOK
<1>1. /\ UNCHANGED <<log, closing>>
      /\ \A m \in Loops : m # l => loop'[m] = loop[m]
      /\ loop'[l] = loop[l] \/ loop[l].pc # "ended"
      /\ loop'[l] = loop[l] \/ loop'[l].pc # "ended" \/ closing
  <2>1. CASE Take(l)
    <3>1. \/ \E pc \in {"lookup", "posting"}, n \in {0, 1} :
                loop' = [loop EXCEPT ![l] = Busy(loop[l], pc, n)]
          \/ loop' = [loop EXCEPT ![l].queue = Tail(@)]
      BY <2>1 DEF Take
    <3>2. loop[l].pc = "waiting" /\ UNCHANGED <<log, closing>>
      BY <2>1 DEF Take
    <3>3. CASE loop' = [loop EXCEPT ![l].queue = Tail(@)]
      BY <1>0, <3>2, <3>3 DEF Loop
    <3>4. ASSUME NEW pc \in {"lookup", "posting"}, NEW n \in {0, 1},
                 loop' = [loop EXCEPT ![l] = Busy(loop[l], pc, n)]
          PROVE  loop'[l].pc = pc /\ \A m \in Loops : m # l => loop'[m] = loop[m]
      BY <1>0, <3>4 DEF Busy
    <3> QED BY <3>1, <3>2, <3>3, <3>4
  <2>2. CASE LookUp(l) \/ DelayEnds(l)
    <3>1. loop' = [loop EXCEPT ![l] = Posting(loop[l])] /\ UNCHANGED <<log, closing>>
      BY <2>2 DEF LookUp, DelayEnds
    <3>2. loop[l].pc # "ended"
      BY <2>2 DEF LookUp, DelayEnds
    <3>3. Posting(loop[l]).pc = "posting"
      BY <1>0 DEF Posting, Loop
    <3> QED BY <1>0, <3>1, <3>2, <3>3
  <2>3. CASE Answered(l)
    BY <1>0, <2>3 DEF Answered, Finish, AfterFailure, Idle, Loop
  <2>4. CASE TransportFails(l)
    BY <1>0, <2>4 DEF TransportFails, Finish, AfterFailure, Idle, Loop, Answers
  <2>5. CASE End(l)
    BY <1>0, <2>5 DEF End, Loop
  <2>6. CASE Receive(l)
    BY <1>0, <2>6 DEF Receive, Loop, Answers
  <2>7. CASE \E e \in EventsOf(l) : LateRequest(l, e)
    BY <1>0, <2>7 DEF LateRequest
  <2> QED BY <2>1, <2>2, <2>3, <2>4, <2>5, <2>6, <2>7
<1> QED BY <1>1

LEMMA LoopStepsKeep ==
  ASSUME LifecycleInv, NEW l \in Loops,
         \/ Take(l) \/ LookUp(l) \/ Answered(l) \/ TransportFails(l) \/ DelayEnds(l)
         \/ End(l) \/ Receive(l) \/ \E e \in EventsOf(l) : LateRequest(l, e),
         Alive, UNCHANGED <<phase, mirror, mirrored, producer, worker, boot>>,
         database' \in {"connected", "disconnected", "reconnected"}
  PROVE  LifecycleInv'
<1>1. ForwarderInv'
  BY TakeKeeps, LookUpKeeps, AnsweredKeeps, TransportFailsKeeps, DelayEndsKeeps, EndKeeps,
     ReceiveKeeps, LateRequestKeeps DEF LifecycleInv
<1>2. /\ UNCHANGED <<log, closing>>
      /\ \A m \in Loops : loop[m].pc = "ended" => loop'[m].pc = "ended"
      /\ ~closing => \A m \in Loops : loop'[m].pc = "ended" => loop[m].pc = "ended"
  BY LoopsEndClosed DEF LifecycleInv
<1>3. LifecycleTypeOK'
  BY <1>1 DEF LifecycleInv, LifecycleTypeOK, ShutdownTypeOK, ForwarderInv
<1>4. StartedInv'
  BY <1>2 DEF LifecycleInv, StartedInv, LoopsEnded
<1>5. PhaseInv'
  BY <1>2 DEF LifecycleInv, PhaseInv, LoopsEnded, Alive
<1>6. MirrorInv'
  BY <1>2, MirrorRests DEF LifecycleInv
<1> QED BY <1>1, <1>3, <1>4, <1>5, <1>6 DEF LifecycleInv

\* The steps of the worker, of the hooks and of the start, of which none touches the
\* consumers' queues.
LEMMA PhaseStepsKeep ==
  ASSUME LifecycleInv, ForwarderInv',
         PhaseInv', UNCHANGED <<log, loop, mirror, mirrored>>,
         closing => closing',
         producer' = producer \/ (producer = "open" /\ producer' = "closed" /\ MirrorDrained),
         phase' \in Phases,
         database' \in {"connected", "disconnected", "reconnected"},
         worker' \in [timer : BOOLEAN, batch : {"idle", "running"}],
         boot' \in Boot, boot'.consumers = boot.consumers,
         boot'.listening => boot.consumers /\ phase' \notin {"starting", "aborted"}
  PROVE  LifecycleInv'
<1>1. LifecycleTypeOK'
  BY DEF LifecycleInv, LifecycleTypeOK, ShutdownTypeOK, ForwarderInv
<1>2. StartedInv'
  BY DEF LifecycleInv, StartedInv, LoopsEnded
<1>3. MirrorInv'
  BY DEF LifecycleInv, MirrorInv, MirrorDone, MirrorHeld, WithKafka, MirrorDrained
<1> QED BY <1>1, <1>2, <1>3 DEF LifecycleInv

\* A queue of the mirror is one of receipts.
LEMMA MirrorFacts ==
  ASSUME LifecycleInv
  PROVE  /\ log["deliveries"] \in Seq(Receipts) /\ Len(log["deliveries"]) \in Nat
         /\ mirror.queue \in Seq(Receipts) /\ Len(mirror.queue) \in Nat
         /\ \A i, j \in 1..Len(log["deliveries"]) :
              log["deliveries"][i] = log["deliveries"][j] => i = j
         /\ \A i \in 1..Len(log["deliveries"]) : log["deliveries"][i] \in Receipts
         /\ MirrorHeld = (IF mirror.event = None THEN 0 ELSE 1) /\ MirrorHeld \in Nat
         /\ mirror.pc # "disabled" =>
              /\ MirrorDone \in Nat
              /\ Len(log["deliveries"]) = MirrorDone + MirrorHeld + Len(mirror.queue)
<1> DEFINE l == "deliveries"
<1>0. l \in Loops /\ EventsOf(l) = Receipts
  BY DEF Loops, EventsOf
<1> HIDE DEF l
<1>1. /\ log[l] \in Seq(Receipts)
      /\ \A i, j \in 1..Len(log[l]) : log[l][i] = log[l][j] => i = j
  BY <1>0 DEF LifecycleInv, ForwarderInv, LoopInv, LoopShape, LogOnce
<1>2. mirror.queue \in Seq(Receipts)
  BY DEF LifecycleInv, LifecycleTypeOK, ShutdownTypeOK
<1>3. mirror.pc # "disabled" => MirrorDone >= 0
  BY DEF LifecycleInv, MirrorInv
<1>4. MirrorHeld = (IF mirror.event = None THEN 0 ELSE 1) /\ MirrorHeld \in Nat
  BY DEF MirrorHeld
<1>5. MirrorDone = Len(log[l]) - Len(mirror.queue) - MirrorHeld
  BY DEF MirrorDone, l
<1>6. mirror.pc # "disabled" =>
        MirrorDone \in Nat /\ Len(log[l]) = MirrorDone + MirrorHeld + Len(mirror.queue)
  <2> DEFINE n == Len(log[l])
             q == Len(mirror.queue)
             h == MirrorHeld
             d == MirrorDone
  <2>1. n \in Nat /\ q \in Nat /\ h \in Nat /\ d = n - q - h
    BY <1>1, <1>2, <1>4, <1>5
  <2> HIDE DEF n, q, h, d
  <2>2. d >= 0 => d \in Nat /\ n = d + h + q
    BY <2>1
  <2> QED BY <1>3, <2>2 DEF n, q, h, d
<1> QED BY <1>1, <1>2, <1>4, <1>6 DEF l

LEMMA PublishEventKeeps ==
  ASSUME LifecycleInv, NEW l \in Loops, NEW e \in EventsOf(l), boot.listening,
         PublishEvent(l, e), UNCHANGED boot
  PROVE  LifecycleInv'
<1> DEFINE m == "deliveries"
           r == log[m]
           n == Len(r)
           q == mirror.queue
           d == MirrorDone
           h == MirrorHeld
<1>0. /\ Publish(l, e) /\ ~closing /\ UNCHANGED <<closing, outcome, late, arrived>>
      /\ UNCHANGED <<phase, database, mirrored, producer, worker>>
      /\ boot.consumers /\ phase # "exited"
  BY DEF PublishEvent, Publish, Serving, LifecycleInv, StartedInv
<1>1. ForwarderInv'
  BY <1>0, PublishKeeps DEF LifecycleInv, StartedInv
<1>2. \A k \in Loops : loop'[k].pc = loop[k].pc
  BY <1>0 DEF Publish, LifecycleInv, ForwarderInv, TypeOK, Loop
<1>3. StartedInv'
  BY <1>0, <1>2 DEF LifecycleInv, StartedInv
<1>4. PhaseInv'
  <2>1. LoopsEnded' <=> LoopsEnded
    BY <1>0, <1>2 DEF LoopsEnded
  <2> QED BY <1>0, <2>1 DEF LifecycleInv, PhaseInv
<1>5. mirror \in [pc : {"disabled", "waiting", "lookup", "publishing", "ended"},
                  queue : Seq(Receipts), event : Receipts \cup {None}]
  BY DEF LifecycleInv, LifecycleTypeOK, ShutdownTypeOK
<1>6. /\ l = m => e \in Receipts
      /\ l # m => log'[m] = r
      /\ l = m => log'[m] = Append(r, e)
      /\ log \in [Loops -> Seq(Events)] /\ m \in Loops
  <2>1. log \in [Loops -> Seq(Events)] /\ m \in Loops /\ EventsOf(m) = Receipts
    BY DEF LifecycleInv, ForwarderInv, TypeOK, Loops, EventsOf
  <2> HIDE DEF m
  <2> QED BY <1>0, <2>1 DEF Publish
<1>7. CASE l = m /\ mirror.pc # "disabled"
  <2>1. /\ mirror' = [mirror EXCEPT !.queue = Append(q, e)]
        /\ e \in Receipts /\ log'[m] = Append(r, e)
    BY <1>6, <1>7 DEF PublishEvent
  <2>2. /\ r \in Seq(Receipts) /\ n \in Nat
        /\ q \in Seq(Receipts) /\ Len(q) \in Nat
        /\ h = (IF mirror.event = None THEN 0 ELSE 1) /\ h \in Nat
        /\ d \in Nat /\ n = d + h + Len(q)
    BY <1>7, MirrorFacts
  <2>3. /\ mirror'.pc = mirror.pc /\ mirror'.event = mirror.event
        /\ mirror'.queue = Append(q, e)
        /\ mirror' \in [pc : {"disabled", "waiting", "lookup", "publishing", "ended"},
                         queue : Seq(Receipts), event : Receipts \cup {None}]
    <3> DEFINE s == Append(q, e)
    <3>1. s \in Seq(Receipts)
      BY <2>1, <2>2
    <3> HIDE DEF s
    <3> QED BY <1>5, <2>1, <3>1 DEF s
  <2>4. LifecycleTypeOK'
    BY <1>0, <1>1, <2>3 DEF LifecycleInv, LifecycleTypeOK, ShutdownTypeOK, ForwarderInv
  <2>5. /\ Len(log'[m]) = n + 1 /\ log'[m][n + 1] = e
        /\ \A i \in 1..n : log'[m][i] = r[i]
    BY <2>1, <2>2, AppendFacts
  <2>6. /\ Len(mirror'.queue) = Len(q) + 1 /\ mirror'.queue[Len(q) + 1] = e
        /\ \A i \in 1..Len(q) : mirror'.queue[i] = q[i]
    BY <2>1, <2>2, <2>3, AppendFacts
  <2>7. MirrorHeld' = h /\ MirrorDone' = d
    <3>1. MirrorHeld' = h
      BY <2>3 DEF MirrorHeld
    <3>2. MirrorDone' = (n + 1) - (Len(q) + 1) - MirrorHeld'
      BY <2>5, <2>6 DEF MirrorDone
    <3> DEFINE k == Len(q)
    <3>3. MirrorDone' = (n + 1) - (k + 1) - h
      BY <3>1, <3>2
    <3>4. n = d + h + k /\ n \in Nat /\ d \in Nat /\ h \in Nat /\ k \in Nat
      <4>1. n \in Nat /\ d \in Nat /\ h \in Nat /\ k \in Nat
        BY <2>2
      <4>2. n = d + h + k
        BY <2>2
      <4> QED BY <4>1, <4>2
    <3> HIDE DEF n, d, h, k
    <3>5. (n + 1) - (k + 1) - h = d
      BY <3>4
    <3> QED BY <3>1, <3>3, <3>5
  <2>8. /\ ~Contains(r, e) /\ mirrored[e] = "none"
    <3>1. ~Contains(r, e)
      BY <1>0, <1>6 DEF Publish, Published
    <3> QED BY <1>7, <2>1, <3>1 DEF LifecycleInv, MirrorInv
  <2>9. mirror.event # None => log'[m][d + 1] = mirror.event
    <3> SUFFICES ASSUME mirror.event # None PROVE log'[m][d + 1] = mirror.event
      OBVIOUS
    <3>1. r[d + 1] = mirror.event
      BY <1>7 DEF LifecycleInv, MirrorInv
    <3>2. d + 1 \in 1..n
      <4> DEFINE k == Len(q)
      <4>1. n \in Nat /\ d \in Nat /\ h = 1 /\ k \in Nat
        BY <2>2
      <4>2. n = d + h + k
        BY <2>2
      <4> HIDE DEF n, d, h, k
      <4> QED BY <4>1, <4>2
    <3> QED BY <2>5, <3>1, <3>2
  <2>10. ASSUME NEW i \in 1..(Len(q) + 1) PROVE log'[m][d + h + i] = mirror'.queue[i]
    <3> DEFINE k == Len(q)
    <3>0. n = d + h + k /\ n \in Nat /\ d \in Nat /\ h \in Nat /\ k \in Nat
          /\ i \in 1..(k + 1)
      <4>1. n \in Nat /\ d \in Nat /\ h \in Nat /\ k \in Nat
        BY <2>2
      <4>2. n = d + h + k
        BY <2>2
      <4>3. i \in 1..(k + 1)
        OBVIOUS
      <4> QED BY <4>1, <4>2, <4>3
    <3>1. CASE i \in 1..Len(q)
      <4>1. log[m][d + h + i] = q[i]
        BY <1>7, <3>1 DEF LifecycleInv, MirrorInv
      <4>2. d + h + i \in 1..n
        <5>1. i \in 1..k
          BY <3>1
        <5> HIDE DEF d, h, n, k
        <5> QED BY <3>0, <5>1
      <4> QED BY <2>5, <2>6, <3>1, <4>1, <4>2
    <3>2. CASE i = Len(q) + 1
      <4>1. d + h + i = n + 1
        <5>1. i = k + 1
          BY <3>2
        <5> HIDE DEF d, h, n, k
        <5> QED BY <3>0, <5>1
      <4> QED BY <2>5, <2>6, <3>2, <4>1
    <3>3. i \in 1..k \/ i = k + 1
      <4> HIDE DEF d, h, n, k
      <4> QED BY <3>0
    <3> QED BY <3>1, <3>2, <3>3
  <2>11. ASSUME NEW i \in 1..(n + 1) PROVE mirrored[log'[m][i]] = "none" <=> i > d
    <3>1. CASE i \in 1..n
      <4>1. mirrored[log[m][i]] = "none" <=> i > d
        BY <1>7, <3>1 DEF LifecycleInv, MirrorInv
      <4> QED BY <2>5, <3>1, <4>1
    <3>2. CASE i = n + 1
      <4>1. n + 1 > d
        <5> DEFINE k == Len(q)
        <5>1. n = d + h + k /\ d \in Nat /\ h \in Nat /\ k \in Nat
          BY <2>2
        <5> HIDE DEF d, h, n, k
        <5> QED BY <5>1
      <4> QED BY <2>5, <2>8, <3>2, <4>1
    <3>3. i \in 1..n \/ i = n + 1
      <4>1. n \in Nat
        BY <2>2
      <4> HIDE DEF n
      <4> QED BY <4>1
    <3> QED BY <3>1, <3>2, <3>3
  <2>12. \A f \in Receipts : mirrored[f] # "none" => Contains(log'[m], f)
    <3>1. \A f \in Receipts : mirrored[f] # "none" => Contains(r, f)
      BY <1>7 DEF LifecycleInv, MirrorInv
    <3> QED BY <2>1, <2>2, <3>1, ContainsAppend
  <2>13. MirrorInv'
    <3>1. /\ mirror.pc = "disabled" <=> ~WithKafka \/ ~boot.consumers
          /\ mirror.event = None <=> mirror.pc \in {"disabled", "waiting", "ended"}
          /\ mirror.pc # "ended"
          /\ producer = "closed" => mirror.pc \in {"disabled", "ended"}
          /\ \A f \in Receipts : mirrored[f] # "tooLate"
      BY <1>0 DEF LifecycleInv, MirrorInv
    <3>2. /\ (mirror.pc = "disabled")' <=> ~WithKafka' \/ ~boot'.consumers
          /\ (mirror.event = None)' <=> mirror'.pc \in {"disabled", "waiting", "ended"}
          /\ mirror'.pc \notin {"disabled", "ended"}
          /\ producer' = "closed" => mirror'.pc \in {"disabled", "ended"}
          /\ \A f \in Receipts : mirrored'[f] # "tooLate"
      BY <1>0, <1>7, <2>3, <3>1 DEF WithKafka
    <3>3. /\ d >= 0
          /\ mirror'.event # None => log'[m][d + 1] = mirror'.event
          /\ \A i \in 1..Len(mirror'.queue) : log'[m][d + h + i] = mirror'.queue[i]
          /\ \A i \in 1..Len(log'[m]) : mirrored'[log'[m][i]] = "none" <=> i > d
          /\ \A f \in Receipts : mirrored'[f] # "none" => Contains(log'[m], f)
      <4>1. d >= 0
        BY <2>2
      <4>2. mirror'.event # None => log'[m][d + 1] = mirror'.event
        BY <2>3, <2>9
      <4>3. \A i \in 1..Len(mirror'.queue) : log'[m][d + h + i] = mirror'.queue[i]
        BY <2>6, <2>10
      <4>4. \A i \in 1..Len(log'[m]) : mirrored'[log'[m][i]] = "none" <=> i > d
        BY <1>0, <2>5, <2>11
      <4>5. \A f \in Receipts : mirrored'[f] # "none" => Contains(log'[m], f)
        BY <1>0, <2>12
      <4> QED BY <4>1, <4>2, <4>3, <4>4, <4>5
    <3> HIDE DEF d, h
    <3> QED BY <2>7, <3>2, <3>3 DEF MirrorInv
  <2> QED BY <1>1, <1>3, <1>4, <2>4, <2>13 DEF LifecycleInv
<1>8. CASE l # m \/ mirror.pc = "disabled"
  <2>1. mirror' = mirror
    BY <1>8 DEF PublishEvent
  <2>2. LifecycleTypeOK'
    BY <1>0, <1>1, <2>1 DEF LifecycleInv, LifecycleTypeOK, ShutdownTypeOK, ForwarderInv
  <2>3. MirrorInv'
    <3>1. CASE mirror.pc = "disabled"
      <4>1. \A f \in Receipts : Contains(r, f) => Contains(log'[m], f)
        <5>1. r \in Seq(Receipts)
          BY MirrorFacts
        <5>2. CASE l # m
          BY <1>6, <5>2
        <5>3. CASE l = m
          <6>1. \A f : Contains(Append(r, e), f) <=> Contains(r, f) \/ e = f
            BY <1>6, <5>1, <5>3, ContainsAppend
          <6> QED BY <1>6, <5>3, <6>1
        <5> QED BY <5>2, <5>3
      <4> QED BY <1>0, <2>1, <3>1, <4>1 DEF LifecycleInv, MirrorInv, WithKafka
    <3>2. CASE l # m
      <4>1. log'["deliveries"] = log["deliveries"]
        BY <1>6, <3>2
      <4>2. MirrorDone' = MirrorDone /\ MirrorHeld' = MirrorHeld
        BY <2>1, <4>1 DEF MirrorDone, MirrorHeld
      <4> QED BY <1>0, <2>1, <4>1, <4>2 DEF LifecycleInv, MirrorInv, WithKafka
    <3> QED BY <1>8, <3>1, <3>2
  <2> QED BY <1>1, <1>3, <1>4, <2>2, <2>3 DEF LifecycleInv
<1> QED BY <1>7, <1>8

\* The mirror takes the next receipt, goes on with it, is done with it, ends.
LEMMA MirrorStepKeeps ==
  ASSUME LifecycleInv, MirrorStep, UNCHANGED boot
  PROVE  LifecycleInv'
<1> DEFINE r == log["deliveries"]
           d == MirrorDone
           h == MirrorHeld
           q == mirror.queue
           n == Len(r)
<1>0. /\ UNCHANGED forwarderVars /\ UNCHANGED <<phase, producer, worker>>
      /\ mirror.pc # "disabled" /\ phase # "exited"
      /\ database' \in {"connected", "disconnected", "reconnected"}
  BY DEF MirrorStep, MirrorTake, MirrorLookUp, MirrorPublish, MirrorEnd, Queried, Alive,
     LifecycleInv, LifecycleTypeOK, ShutdownTypeOK
<1>1. ForwarderInv' /\ UNCHANGED <<closing, log, loop>>
  BY <1>0, ForwarderRests DEF LifecycleInv, forwarderVars
<1>2. StartedInv' /\ PhaseInv'
  BY <1>0, <1>1 DEF LifecycleInv, StartedInv, PhaseInv, LoopsEnded
<1>3. /\ mirror \in [pc : {"disabled", "waiting", "lookup", "publishing", "ended"},
                     queue : Seq(Receipts), event : Receipts \cup {None}]
      /\ mirrored \in [Receipts -> {"none", "tried", "tooLate"}]
  BY DEF LifecycleInv, LifecycleTypeOK, ShutdownTypeOK
<1>4. /\ n \in Nat /\ d \in Nat /\ h \in Nat /\ Len(q) \in Nat
      /\ h = (IF mirror.event = None THEN 0 ELSE 1)
      /\ \A i, j \in 1..n : r[i] = r[j] => i = j
      /\ \A i \in 1..n : r[i] \in Receipts
      /\ q \in Seq(Receipts)
  BY <1>0, MirrorFacts
<1>5. n = d + h + Len(q)
  BY <1>0, MirrorFacts
<1>6. /\ ~WithKafka \/ ~boot.consumers <=> mirror.pc = "disabled"
      /\ mirror.event = None <=> mirror.pc \in {"disabled", "waiting", "ended"}
      /\ mirror.pc \in {"disabled", "ended"} => q = <<>>
      /\ mirror.pc = "ended" => closing
      /\ producer = "closed" => mirror.pc \in {"disabled", "ended"}
      /\ \A e \in Receipts : mirrored[e] # "tooLate"
      /\ mirror.event # None => r[d + 1] = mirror.event
      /\ \A i \in 1..Len(q) : r[d + h + i] = q[i]
      /\ \A i \in 1..n : mirrored[r[i]] = "none" <=> i > d
      /\ \A e \in Receipts : mirrored[e] # "none" => Contains(r, e)
  BY <1>0 DEF LifecycleInv, MirrorInv
<1>7. None \notin Receipts
  BY ForwarderAssumption
<1>8. CASE MirrorTake
  <2> DEFINE e == Head(q)
             t == Tail(q)
  <2>1. /\ mirror.pc = "waiting" /\ q # <<>> /\ mirrored' = mirrored
        /\ mirror' = [pc |-> "lookup", queue |-> t, event |-> e]
    BY <1>8 DEF MirrorTake
  <2>2. /\ e \in Receipts /\ e = q[1] /\ t \in Seq(Receipts)
        /\ Len(q) = Len(t) + 1 /\ Len(t) \in Nat
        /\ \A i \in 1..Len(t) : t[i] = q[i + 1]
    <3>1. q \in Seq(Receipts) /\ q # <<>>
      BY <1>4, <2>1
    <3> HIDE DEF q
    <3> QED BY <3>1
  <2> HIDE DEF e, t
  <2>3. mirror'.pc = "lookup" /\ mirror'.queue = t /\ mirror'.event = e
    BY <2>1
  <2>4. LifecycleTypeOK'
    BY <1>0, <1>1, <2>1, <2>2 DEF LifecycleInv, LifecycleTypeOK, ShutdownTypeOK, ForwarderInv
  <2>5. h = 0 /\ MirrorHeld' = 1 /\ MirrorDone' = d
    <3>1. h = 0 /\ MirrorHeld' = 1
      BY <1>4, <1>6, <1>7, <2>1, <2>2, <2>3 DEF MirrorHeld
    <3>2. MirrorDone' = n - Len(t) - MirrorHeld'
      BY <1>1, <2>3 DEF MirrorDone
    <3> DEFINE k == Len(t)
    <3>3. n = d + h + (k + 1) /\ n \in Nat /\ d \in Nat /\ k \in Nat
      BY <1>4, <1>5, <2>2
    <3> HIDE DEF n, d, h, k
    <3>4. n - k - 1 = d
      BY <3>1, <3>3
    <3> QED BY <3>1, <3>2, <3>4 DEF k
  <2>6. r[d + 1] = e
    <3>1. 1 \in 1..Len(q) /\ d + h + 1 = d + 1
      BY <1>4, <2>2, <2>5
    <3> QED BY <1>6, <2>2, <3>1
  <2>7. ASSUME NEW i \in 1..Len(t) PROVE r[d + 1 + i] = t[i]
    <3>1. i + 1 \in 1..Len(q) /\ d + h + (i + 1) = d + 1 + i
      BY <1>4, <2>2, <2>5
    <3> QED BY <1>6, <2>2, <3>1
  <2>8. MirrorInv'
    <3>1. d >= 0
      BY <1>4
    <3>2. e # None /\ producer # "closed" /\ (WithKafka' <=> WithKafka)
      BY <1>0, <1>6, <1>7, <2>1, <2>2 DEF WithKafka
    <3> HIDE DEF d, h
    <3> QED BY <1>0, <1>1, <1>6, <2>1, <2>3, <2>5, <2>6, <2>7, <3>1, <3>2 DEF MirrorInv
  <2> QED BY <1>1, <1>2, <2>4, <2>8 DEF LifecycleInv
<1>9. CASE MirrorLookUp \/ MirrorEnd
  <2>1. /\ mirrored' = mirrored /\ mirror'.queue = q /\ mirror'.event = mirror.event
        /\ \/ mirror.pc = "lookup" /\ mirror'.pc = "publishing"
           \/ /\ mirror.pc = "waiting" /\ mirror'.pc = "ended" /\ q = <<>> /\ closing
        /\ mirror' \in [pc : {"disabled", "waiting", "lookup", "publishing", "ended"},
                         queue : Seq(Receipts), event : Receipts \cup {None}]
    BY <1>3, <1>9 DEF MirrorLookUp, MirrorEnd
  <2>2. LifecycleTypeOK'
    BY <1>0, <1>1, <2>1 DEF LifecycleInv, LifecycleTypeOK, ShutdownTypeOK, ForwarderInv
  <2>3. MirrorHeld' = h /\ MirrorDone' = d
    BY <1>1, <2>1 DEF MirrorHeld, MirrorDone
  <2>4. MirrorInv'
    <3>1. d >= 0 /\ producer # "closed" /\ (WithKafka' <=> WithKafka)
      BY <1>0, <1>4, <1>6, <2>1 DEF WithKafka
    <3> HIDE DEF d, h
    <3> QED BY <1>0, <1>1, <1>6, <2>1, <2>3, <3>1 DEF MirrorInv
  <2> QED BY <1>1, <1>2, <2>2, <2>4 DEF LifecycleInv
<1>10. CASE MirrorPublish
  <2> DEFINE e == mirror.event
  <2>1. /\ mirror.pc = "publishing" /\ e \in Receipts /\ e # None
        /\ producer = "open"
    <3>1. mirror.pc = "publishing"
      BY <1>10 DEF MirrorPublish
    <3>2. producer # "closed" /\ e # None /\ WithKafka
      BY <1>6, <3>1
    <3> QED BY <1>3, <3>1, <3>2 DEF LifecycleInv, LifecycleTypeOK, ShutdownTypeOK, WithKafka
  <2>2. /\ mirror'.pc = "waiting" /\ mirror'.queue = q /\ mirror'.event = None
        /\ mirror' \in [pc : {"disabled", "waiting", "lookup", "publishing", "ended"},
                         queue : Seq(Receipts), event : Receipts \cup {None}]
    BY <1>3, <1>10 DEF MirrorPublish
  <2>3. /\ mirrored' \in [Receipts -> {"none", "tried", "tooLate"}]
        /\ mirrored'[e] = "tried" /\ \A f \in Receipts : f # e => mirrored'[f] = mirrored[f]
    BY <1>3, <1>10, <2>1 DEF MirrorPublish
  <2>4. LifecycleTypeOK'
    BY <1>0, <1>1, <2>2, <2>3 DEF LifecycleInv, LifecycleTypeOK, ShutdownTypeOK, ForwarderInv
  <2>5. h = 1 /\ MirrorHeld' = 0 /\ MirrorDone' = d + 1
    <3>1. h = 1 /\ MirrorHeld' = 0
      BY <1>4, <2>1, <2>2 DEF MirrorHeld
    <3>2. MirrorDone' = n - Len(q) - MirrorHeld'
      BY <1>1, <2>2 DEF MirrorDone
    <3> DEFINE k == Len(q)
    <3>3. n = d + h + k /\ n \in Nat /\ d \in Nat /\ k \in Nat
      BY <1>4, <1>5
    <3> HIDE DEF n, d, h, k
    <3>4. n - k - 0 = d + 1
      BY <3>1, <3>3
    <3> QED BY <3>1, <3>2, <3>4 DEF k
  <2>6. d + 1 \in 1..n /\ r[d + 1] = e
    <3>1. r[d + 1] = e
      BY <1>6, <2>1
    <3>2. d + 1 \in 1..n
      <4> DEFINE k == Len(q)
      <4>1. n \in Nat /\ d \in Nat /\ h = 1 /\ k \in Nat
        BY <1>4, <2>5
      <4>2. n = d + h + k
        BY <1>5
      <4> HIDE DEF n, d, h, k
      <4> QED BY <4>1, <4>2
    <3> QED BY <3>1, <3>2
  <2>7. ASSUME NEW i \in 1..n PROVE mirrored'[r[i]] = "none" <=> i > d + 1
    <3>1. CASE i = d + 1
      BY <1>4, <2>3, <2>6, <3>1
    <3>2. CASE i # d + 1
      <4>1. r[i] # e /\ r[i] \in Receipts
        BY <1>4, <2>6, <3>2
      <4>2. mirrored'[r[i]] = "none" <=> i > d
        BY <1>6, <2>3, <4>1
      <4>3. d \in Nat /\ i \in Nat
        BY <1>4
      <4> HIDE DEF d
      <4>4. i > d <=> i > d + 1
        BY <3>2, <4>3
      <4> QED BY <4>2, <4>4
    <3> QED BY <3>1, <3>2
  <2>8. \A i \in 1..Len(q) : r[(d + 1) + 0 + i] = q[i]
    <3> TAKE i \in 1..Len(q)
    <3>1. (d + 1) + 0 + i = d + h + i
      BY <1>4, <2>5
    <3> QED BY <1>6, <3>1
  <2>9. \A f \in Receipts : mirrored'[f] # "none" => Contains(r, f)
    <3>1. Contains(r, e)
      BY <2>6 DEF Contains
    <3> QED BY <1>6, <2>3, <3>1
  <2>10. \A f \in Receipts : mirrored'[f] # "tooLate"
    BY <1>6, <2>3
  <2>11. MirrorInv'
    <3>1. d + 1 >= 0 /\ producer # "closed" /\ (WithKafka' <=> WithKafka)
      BY <1>0, <1>4, <2>1 DEF WithKafka
    <3> HIDE DEF d, h
    <3> QED BY <1>0, <1>1, <1>6, <2>1, <2>2, <2>5, <2>7, <2>8, <2>9, <2>10, <3>1 DEF MirrorInv
  <2> QED BY <1>1, <1>2, <2>4, <2>11 DEF LifecycleInv
<1> QED BY <1>8, <1>9, <1>10 DEF MirrorStep

LEMMA WorkerStepsKeep ==
  ASSUME LifecycleInv, StartBatch \/ EndBatch, UNCHANGED boot
  PROVE  LifecycleInv'
<1>1. /\ UNCHANGED forwarderVars /\ UNCHANGED <<phase, mirror, mirrored, producer>>
      /\ Alive /\ worker'.timer = worker.timer
      /\ worker' \in [timer : BOOLEAN, batch : {"idle", "running"}]
      /\ phase \in Phases /\ boot \in Boot
      /\ worker.timer \/ EndBatch
  BY DEF StartBatch, EndBatch, LifecycleInv, LifecycleTypeOK, ShutdownTypeOK
<1>2. database' \in {"connected", "disconnected", "reconnected"}
  BY DEF StartBatch, EndBatch, Queried, LifecycleInv, LifecycleTypeOK, ShutdownTypeOK
<1>3. ForwarderInv' /\ UNCHANGED <<closing, log, loop>>
  BY <1>1, ForwarderRests DEF LifecycleInv, forwarderVars
<1>4. PhaseInv'
  BY <1>1, <1>3 DEF LifecycleInv, PhaseInv, LoopsEnded, Alive
<1>5. /\ boot' \in Boot /\ boot'.consumers = boot.consumers /\ phase' \in Phases
      /\ boot'.listening => boot.consumers /\ phase' \notin {"starting", "aborted"}
      /\ UNCHANGED <<log, loop, mirror, mirrored>>
  BY <1>1, <1>3 DEF LifecycleInv, StartedInv
<1>6. closing => closing'
  BY <1>3
<1>7. producer' = producer \/ (producer = "open" /\ producer' = "closed" /\ MirrorDrained)
  BY <1>1
<1> QED BY <1>1, <1>2, <1>3, <1>4, <1>5, <1>6, <1>7, PhaseStepsKeep

\* The hooks leave the consumers alone, but for the closing of the bus.
LEMMA HooksFrame ==
  ASSUME LifecycleInv, Disconnect \/ HookStep \/ LoopRunsEmpty
  PROVE  /\ ForwarderInv'
         /\ UNCHANGED <<log, loop, mirror, mirrored>> /\ (closing => closing')
         /\ producer' = producer \/ (producer = "open" /\ producer' = "closed" /\ MirrorDrained)
         /\ phase' \in Phases \ {"starting", "aborted"}
         /\ database' \in {"connected", "disconnected", "reconnected"}
         /\ worker' \in [timer : BOOLEAN, batch : {"idle", "running"}]
<1>0. /\ ForwarderInv
      /\ database \in {"connected", "disconnected", "reconnected"}
      /\ worker \in [timer : BOOLEAN, batch : {"idle", "running"}]
  BY DEF LifecycleInv, LifecycleTypeOK, ShutdownTypeOK
<1>1. UNCHANGED forwarderVars \/ Close
  BY DEF Disconnect, HookStep, LoopRunsEmpty, CloseServer, StopForwarder, StopHandler,
     ShutDownProducer, StopWorker, ProducerFails, Stopped
<1>2. ForwarderInv' /\ UNCHANGED <<log, loop>> /\ (closing => closing')
  <2>1. UNCHANGED <<log, loop>> /\ (closing => closing')
    BY <1>1 DEF forwarderVars, Close
  <2> QED BY <1>0, <1>1, <2>1, ForwarderRests, CloseKeeps
<1>3. UNCHANGED <<mirror, mirrored>>
  BY DEF Disconnect, HookStep, LoopRunsEmpty, CloseServer, StopForwarder, StopHandler,
     ShutDownProducer, StopWorker, ProducerFails, Stopped
<1>4. producer' = producer \/ (producer = "open" /\ producer' = "closed" /\ MirrorDrained)
  <2>1. CASE ShutDownProducer
    <3>1. MirrorDrained /\ producer' = IF producer = "open" THEN "closed" ELSE producer
      BY <2>1 DEF ShutDownProducer
    <3> QED BY <3>1
  <2>2. CASE ~ShutDownProducer
    <3>1. producer' = producer
      BY <2>2 DEF Disconnect, HookStep, LoopRunsEmpty, CloseServer, StopForwarder,
         StopHandler, StopWorker, ProducerFails, Stopped
    <3> QED BY <3>1
  <2> QED BY <2>1, <2>2
<1>5. phase' \in Phases \ {"starting", "aborted"}
  BY DEF Disconnect, HookStep, LoopRunsEmpty, CloseServer, StopForwarder, StopHandler,
     ShutDownProducer, StopWorker, ProducerFails, Stopped, Phases
<1>6. database' \in {"connected", "disconnected", "reconnected"}
  BY <1>0 DEF Disconnect, HookStep, LoopRunsEmpty, CloseServer, StopForwarder, StopHandler,
     ShutDownProducer, StopWorker, ProducerFails, Stopped
<1>7. worker' \in [timer : BOOLEAN, batch : {"idle", "running"}]
  BY <1>0 DEF Disconnect, HookStep, LoopRunsEmpty, CloseServer, StopForwarder, StopHandler,
     ShutDownProducer, StopWorker, ProducerFails, Stopped
<1> QED BY <1>2, <1>3, <1>4, <1>5, <1>6, <1>7

\* Each phase has behind it what the one before had, and what was waited for.
LEMMA HooksKeepPhase ==
  ASSUME LifecycleInv, Disconnect \/ HookStep \/ LoopRunsEmpty
  PROVE  PhaseInv'
<1> USE DEF ClosedPhases, DrainedPhases, LoopsEnded, MirrorDrained
<1>0. /\ PhaseInv /\ producer \in {"absent", "open", "closed"}
      /\ loop' = loop /\ mirror' = mirror
  BY HooksFrame DEF LifecycleInv, LifecycleTypeOK, ShutdownTypeOK
<1>1. CASE Disconnect
  BY <1>0, <1>1 DEF Disconnect, PhaseInv, forwarderVars
<1>2. CASE CloseServer
  BY <1>0, <1>2 DEF CloseServer, PhaseInv, forwarderVars
<1>3. CASE StopForwarder
  BY <1>0, <1>3 DEF StopForwarder, Close, PhaseInv
<1>4. CASE StopHandler
  BY <1>0, <1>4 DEF StopHandler, ForwarderDrained, PhaseInv, forwarderVars
<1>5. CASE ShutDownProducer
  BY <1>0, <1>5 DEF ShutDownProducer, PhaseInv, forwarderVars
<1>6. CASE StopWorker
  BY <1>0, <1>6 DEF StopWorker, PhaseInv, forwarderVars
<1>7. CASE ProducerFails
  BY <1>0, <1>7 DEF ProducerFails, PhaseInv, forwarderVars
<1>8. CASE Stopped
  BY <1>0, <1>8 DEF Stopped, WorkerQuiet, PhaseInv, forwarderVars
<1>9. CASE LoopRunsEmpty
  BY <1>0, <1>9 DEF LoopRunsEmpty, NothingLeft, PhaseInv, forwarderVars
<1> QED BY <1>1, <1>2, <1>3, <1>4, <1>5, <1>6, <1>7, <1>8, <1>9 DEF HookStep

LEMMA HooksKeep ==
  ASSUME LifecycleInv, Disconnect \/ HookStep \/ LoopRunsEmpty, UNCHANGED boot
  PROVE  LifecycleInv'
<1>1. boot \in Boot /\ (boot.listening => boot.consumers)
  BY DEF LifecycleInv, LifecycleTypeOK, StartedInv
<1> QED BY <1>1, HooksFrame, HooksKeepPhase, PhaseStepsKeep

\* The start up to the server, its failure, and the question of a probe.
LEMMA StartStepsKeep ==
  ASSUME LifecycleInv,
         Connect \/ ConnectEnds \/ CheckAnswered \/ CheckFails \/ Listen \/ AbortStart \/ Ready
  PROVE  LifecycleInv'
<1> USE DEF UnchangedButBoot
<1>0. /\ PhaseInv /\ phase \in Phases /\ boot \in Boot
      /\ database \in {"connected", "disconnected", "reconnected"}
      /\ worker \in [timer : BOOLEAN, batch : {"idle", "running"}]
      /\ boot.listening => boot.consumers /\ phase \notin {"starting", "aborted"}
  BY DEF LifecycleInv, LifecycleTypeOK, ShutdownTypeOK, StartedInv
<1>1. UNCHANGED forwarderVars /\ UNCHANGED <<mirror, mirrored, producer, worker>>
  BY DEF Connect, ConnectEnds, CheckAnswered, CheckFails, Listen, AbortStart, Ready
<1>2. ForwarderInv' /\ UNCHANGED <<closing, log, loop>>
  BY <1>1, ForwarderRests DEF LifecycleInv, forwarderVars
<1>3. /\ phase' \in Phases
      /\ database' \in {"connected", "disconnected", "reconnected"}
      /\ \/ phase' = phase
         \/ /\ phase \in {"starting", "aborted"}
            /\ phase' \in {"aborted", "serving", "destroyed"}
  BY <1>0 DEF Connect, ConnectEnds, CheckAnswered, CheckFails, Listen, AbortStart, Ready,
     Queried, Phases
<1>4. /\ boot' \in Boot /\ boot'.consumers = boot.consumers
      /\ boot'.listening => boot.consumers /\ phase' \notin {"starting", "aborted"}
  <2>1. CASE Connect
    BY <1>0, <2>1 DEF Connect, Boot
  <2>2. CASE ConnectEnds
    BY <1>0, <2>2 DEF ConnectEnds, Boot
  <2>3. CASE CheckAnswered
    BY <1>0, <2>3 DEF CheckAnswered, Boot
  <2>4. CASE CheckFails \/ AbortStart \/ Ready
    BY <1>0, <2>4 DEF CheckFails, AbortStart, Ready
  <2>5. CASE Listen
    BY <1>0, <2>5 DEF Listen, HooksDone, Boot
  <2> QED BY <2>1, <2>2, <2>3, <2>4, <2>5
<1>5. PhaseInv'
  BY <1>0, <1>1, <1>2, <1>3 DEF PhaseInv, ClosedPhases, DrainedPhases, LoopsEnded, MirrorDrained
<1>6. /\ closing => closing'
      /\ UNCHANGED <<log, loop, mirror, mirrored>>
      /\ worker' \in [timer : BOOLEAN, batch : {"idle", "running"}]
  BY <1>0, <1>1, <1>2
<1>7. producer' = producer \/ (producer = "open" /\ producer' = "closed" /\ MirrorDrained)
  BY <1>1
<1> QED BY <1>2, <1>3, <1>4, <1>5, <1>6, <1>7, PhaseStepsKeep

\* The consumers start over empty logs.
LEMMA StartConsumersKeeps ==
  ASSUME LifecycleInv, StartConsumers
  PROVE  LifecycleInv'
<1> DEFINE pc == "waiting"
<1>0. /\ phase = "starting" /\ ~boot.consumers /\ loop \in [Loops -> Loop]
      /\ UNCHANGED <<closing, log, outcome, late, arrived, phase, mirrored, producer>>
      /\ boot \in Boot /\ boot' = [boot EXCEPT !.consumers = TRUE]
      /\ LoopsEnded /\ ~closing /\ ~boot.listening /\ producer # "closed"
      /\ \A l \in Loops : log[l] = <<>> /\ LoopInv(l)
  BY DEF StartConsumers, LifecycleInv, LifecycleTypeOK, StartedInv, PhaseInv, ForwarderInv,
     TypeOK, ClosedPhases
<1>1. ASSUME NEW l \in Loops
      PROVE  /\ loop'[l].pc = pc /\ loop'[l].attempt = loop[l].attempt
             /\ loop'[l].event = loop[l].event /\ loop'[l].queue = loop[l].queue
             /\ loop[l].event = None /\ loop[l].queue = <<>>
  <2>1. loop[l].event = None /\ loop[l].queue = <<>>
    BY <1>0 DEF LoopsEnded, LoopInv, LoopShape
  <2>2. loop[l] \in Loop /\ loop'[l] = [loop[l] EXCEPT !.pc = pc]
    BY <1>0 DEF StartConsumers
  <2> QED BY <2>1, <2>2 DEF Loop
<1>2. loop' \in [Loops -> Loop]
  <2>1. ASSUME NEW l \in Loops PROVE [loop[l] EXCEPT !.pc = pc] \in Loop
    BY <1>0 DEF Loop
  <2>2. loop' = [l \in Loops |-> [loop[l] EXCEPT !.pc = pc]]
    BY DEF StartConsumers
  <2> QED BY <2>1, <2>2
<1>3. pc # "ended" /\ pc \in {"waiting", "ended"}
  OBVIOUS
<1> HIDE DEF pc
<1>4. \A l \in Loops : LoopInv(l)'
  BY <1>0, <1>1, <1>3, MovesIdle DEF LifecycleInv
<1>5. ForwarderInv'
  BY <1>0, <1>2, <1>4 DEF LifecycleInv, ForwarderInv, TypeOK
<1>6. boot' \in Boot /\ boot'.consumers /\ ~boot'.listening
  BY <1>0 DEF Boot
<1>7. StartedInv'
  BY <1>0, <1>1, <1>3, <1>6 DEF StartedInv
<1>8. PhaseInv'
  BY <1>0 DEF LifecycleInv, PhaseInv, ClosedPhases, DrainedPhases
<1>9. /\ mirror \in [pc : {"disabled", "waiting", "lookup", "publishing", "ended"},
                     queue : Seq(Receipts), event : Receipts \cup {None}]
      /\ mirror.pc = "disabled" /\ mirror.event = None /\ mirror.queue = <<>>
      /\ \A e \in Receipts : mirrored[e] # "tooLate"
      /\ database \in {"connected", "disconnected", "reconnected"}
      /\ worker \in [timer : BOOLEAN, batch : {"idle", "running"}]
  BY <1>0 DEF LifecycleInv, LifecycleTypeOK, ShutdownTypeOK, MirrorInv
<1>10. LifecycleTypeOK'
  <2>1. mirror' \in [pc : {"disabled", "waiting", "lookup", "publishing", "ended"},
                     queue : Seq(Receipts), event : Receipts \cup {None}]
    BY <1>9 DEF StartConsumers
  <2>2. /\ database' \in {"connected", "disconnected", "reconnected"}
        /\ worker' \in [timer : BOOLEAN, batch : {"idle", "running"}]
    BY <1>9 DEF StartConsumers, Queried
  <2> QED BY <1>0, <1>5, <1>6, <2>1, <2>2
        DEF LifecycleInv, LifecycleTypeOK, ShutdownTypeOK, ForwarderInv
<1>11. MirrorInv'
  <2>1. \A e \in Receipts : mirrored[e] = "none"
    <3>1. log["deliveries"] = <<>>
      BY <1>0 DEF Loops
    <3> QED BY <3>1 DEF LifecycleInv, MirrorInv, Contains
  <2>2. /\ mirror'.pc = (IF WithKafka THEN "waiting" ELSE "disabled")
        /\ mirror'.event = None /\ mirror'.queue = <<>>
    BY <1>9 DEF StartConsumers
  <2>3. log'["deliveries"] = <<>> /\ mirrored' = mirrored /\ (WithKafka' <=> WithKafka)
    BY <1>0 DEF Loops, WithKafka
  <2>4. MirrorHeld' = 0 /\ MirrorDone' = 0
    BY <2>2, <2>3 DEF MirrorHeld, MirrorDone
  <2> QED BY <1>0, <1>6, <1>9, <2>1, <2>2, <2>3, <2>4 DEF MirrorInv
<1> QED BY <1>5, <1>7, <1>8, <1>10, <1>11 DEF LifecycleInv

LEMMA NextKeeps ==
  ASSUME LifecycleInv, LifecycleNext
  PROVE  LifecycleInv'
<1> USE DEF Queried
<1>0. database \in {"connected", "disconnected", "reconnected"}
  BY DEF LifecycleInv, LifecycleTypeOK, ShutdownTypeOK
<1>1. CASE StartConsumers
  BY <1>1, StartConsumersKeeps
<1>2. CASE Connect \/ ConnectEnds \/ CheckAnswered \/ CheckFails \/ Listen \/ AbortStart \/ Ready
  BY <1>2, StartStepsKeep
<1>3. ASSUME NEW l \in Loops, NEW e \in EventsOf(l), boot.listening, PublishEvent(l, e),
             UNCHANGED boot
      PROVE  LifecycleInv'
  BY <1>3, PublishEventKeeps
<1>4. ASSUME NEW l \in Loops, ForwarderStep(l) \/ ForwarderLookUp(l) \/ ServiceStep(l),
             UNCHANGED boot
      PROVE  LifecycleInv'
  <2>1. CASE ForwarderStep(l)
    BY <1>0, <1>4, <2>1, LoopStepsKeep DEF ForwarderStep, shutdownVars
  <2>2. CASE ForwarderLookUp(l)
    BY <1>0, <1>4, <2>2, LoopStepsKeep DEF ForwarderLookUp
  <2>3. CASE ServiceStep(l)
    BY <1>0, <1>4, <2>3, LoopStepsKeep DEF ServiceStep, shutdownVars
  <2> QED BY <1>4, <2>1, <2>2, <2>3
<1>5. CASE MirrorStep /\ UNCHANGED boot
  BY <1>5, MirrorStepKeeps
<1>6. CASE (StartBatch \/ EndBatch) /\ UNCHANGED boot
  BY <1>6, WorkerStepsKeep
<1>7. CASE (Disconnect \/ HookStep \/ LoopRunsEmpty) /\ UNCHANGED boot
  BY <1>7, HooksKeep
<1> QED BY <1>1, <1>2, <1>3, <1>4, <1>5, <1>6, <1>7 DEF LifecycleNext, StartStep, RunStep

LEMMA StutterKeeps ==
  ASSUME LifecycleInv, UNCHANGED lifecycleVars
  PROVE  LifecycleInv'
<1>1. /\ UNCHANGED forwarderVars /\ UNCHANGED <<closing, log, loop>>
      /\ UNCHANGED <<phase, database, mirror, mirrored, producer, worker, boot>>
  BY DEF lifecycleVars, vars, forwarderVars
<1>2. ForwarderInv'
  BY <1>1, ForwarderRests DEF LifecycleInv
<1>3. LifecycleTypeOK'
  BY <1>1, <1>2 DEF LifecycleInv, LifecycleTypeOK, ShutdownTypeOK, ForwarderInv
<1>4. StartedInv'
  BY <1>1 DEF LifecycleInv, StartedInv, LoopsEnded
<1>5. PhaseInv'
  BY <1>1 DEF LifecycleInv, PhaseInv, LoopsEnded, MirrorDrained
<1>6. MirrorInv'
  BY <1>1, MirrorRests DEF LifecycleInv
<1> QED BY <1>2, <1>3, <1>4, <1>5, <1>6 DEF LifecycleInv

\* Any process that starts, works and shuts down as the code says satisfies the
\* invariant of the loops, the phases and the mirror.
THEOREM LifecycleInvariant == LifecycleSpec => []LifecycleInv
<1>1. LifecycleInit => LifecycleInv
  BY InitHolds
<1>2. LifecycleInv /\ [LifecycleNext]_lifecycleVars => LifecycleInv'
  BY NextKeeps, StutterKeeps
<1> QED BY <1>1, <1>2, PTL DEF LifecycleSpec

-----------------------------------------------------------------------------
(* What follows from it *)

\* The state has its types, in particular no event is posted more than MaxAttempts
\* times by its loop and no more of its requests are left behind than that.
THEOREM LifecycleTypes == LifecycleSpec => []LifecycleTypeOK
BY LifecycleInvariant, PTL DEF LifecycleInv

\* Unsettled(l) counts what Done(l) does not.
LEMMA UnsettledFacts ==
  ASSUME ForwarderInv, NEW l \in Loops
  PROVE  /\ Unsettled(l) \in Seq(Events)
         /\ Settled(l) = Done(l)
         /\ Len(Unsettled(l)) = Len(log[l]) - Done(l)
         /\ \A i \in 1..Len(Unsettled(l)) : Unsettled(l)[i] = log[l][Done(l) + i]
<1> DEFINE s == IF loop[l].event = None THEN <<>> ELSE <<loop[l].event>>
           q == loop[l].queue
           d == Done(l)
           h == Held(l)
           n == Len(log[l])
<1> LoopInv(l)
  BY DEF ForwarderInv
<1>1. q \in Seq(Events)
  BY DEF ForwarderInv, TypeOK, Loop
<1>2. /\ n \in Nat /\ Len(q) \in Nat /\ d \in Nat /\ n = d + h + Len(q)
      /\ h = (IF loop[l].event = None THEN 0 ELSE 1)
      /\ loop[l].event # None => loop[l].event \in EventsOf(l)
  BY <1>1, Places
<1>3. s \in Seq(Events) /\ Len(s) = h /\ h \in {0, 1}
      /\ (h = 1 => s[1] = log[l][d + 1])
  <2>1. CASE loop[l].event = None
    BY <1>2, <2>1
  <2>2. CASE loop[l].event # None
    <3>1. loop[l].event \in Events /\ log[l][d + 1] = loop[l].event
      BY <1>2, <2>2, KindsApart DEF LoopInv, Accounted
    <3>2. s = <<loop[l].event>> /\ h = 1
      BY <1>2, <2>2
    <3> HIDE DEF s, d, h
    <3> QED BY <3>1, <3>2
  <2> QED BY <2>1, <2>2
<1>4. \A i \in 1..Len(q) : log[l][d + h + i] = q[i]
  BY DEF LoopInv, Accounted
<1>5. Unsettled(l) = s \o q
  BY DEF Unsettled
<1> DEFINE k == Len(q)
<1>6. n \in Nat /\ k \in Nat /\ d \in Nat /\ h \in {0, 1} /\ n = d + h + k
  <2>1. n \in Nat /\ k \in Nat /\ d \in Nat
    BY <1>2
  <2>2. n = d + h + k
    BY <1>2
  <2> QED BY <1>3, <2>1, <2>2
<1>7. /\ s \o q \in Seq(Events) /\ Len(s \o q) = h + k
      /\ \A i \in 1..(h + k) : (s \o q)[i] = IF i <= h THEN s[i] ELSE q[i - h]
  <2> HIDE DEF s, q, h
  <2> QED BY <1>1, <1>3, ConcatProperties
<1> HIDE DEF s, q, d, h, n, k
<1>8. ASSUME NEW i \in 1..(h + k) PROVE (s \o q)[i] = log[l][d + i]
  <2>1. CASE i <= h
    <3>1. i = 1 /\ h = 1
      BY <1>6, <2>1
    <3> QED BY <1>3, <1>7, <2>1, <3>1
  <2>2. CASE ~(i <= h)
    <3>1. i - h \in 1..k /\ d + h + (i - h) = d + i
      BY <1>6, <2>2
    <3> QED BY <1>4, <1>7, <2>2, <3>1 DEF k
  <2> QED BY <2>1, <2>2
<1>9. h + k = n - d /\ n - (h + k) = d
  BY <1>6
<1>10. Settled(l) = n - (h + k)
  BY <1>5, <1>7 DEF Settled, n
<1> QED BY <1>5, <1>7, <1>8, <1>9, <1>10 DEF d, n

\* A loop of the forwarder accounts for every published event in its order, whatever
\* happens to its requests, its bus and the process.
THEOREM AccountsTheorem == LifecycleSpec => []EventsAccounted
<1>1. LifecycleInv => EventsAccounted
  <2> SUFFICES ASSUME LifecycleInv, NEW l \in Loops
               PROVE  /\ Unsettled(l) = SubSeq(log[l], Settled(l) + 1, Len(log[l]))
                      /\ \A i \in 1..Len(log[l]) :
                           outcome[log[l][i]] = "none" <=> i > Settled(l)
    BY DEF EventsAccounted
  <2> DEFINE d == Done(l)
             n == Len(log[l])
             u == Unsettled(l)
             t == SubSeq(log[l], d + 1, n)
  <2> ForwarderInv /\ LoopInv(l)
    BY DEF LifecycleInv, ForwarderInv
  <2>1. /\ u \in Seq(Events) /\ Settled(l) = d /\ Len(u) = n - d
        /\ \A i \in 1..Len(u) : u[i] = log[l][d + i]
    BY UnsettledFacts
  <2>2. n \in Nat /\ d \in Nat /\ d <= n /\ \A i \in 1..n : log[l][i] \in Events
    <3>1. n \in Nat /\ \A i \in 1..n : log[l][i] \in Events
      BY DEF ForwarderInv, TypeOK
    <3>2. Len(u) \in Nat
      BY <2>1
    <3>3. d \in Nat
      BY Places DEF ForwarderInv, TypeOK, Loop
    <3> HIDE DEF n, d, u
    <3> QED BY <2>1, <3>1, <3>2, <3>3
  <2>3. /\ t \in Seq(Events) /\ Len(t) = n - d
        /\ \A i \in 1..(n - d) : t[i] = log[l][d + i]
    <3>1. \A i \in (d + 1)..n : log[l][i] \in Events
      BY <2>2
    <3>2. /\ t \in Seq(Events) /\ Len(t) = IF d + 1 <= n THEN n - (d + 1) + 1 ELSE 0
          /\ \A i \in 1..(n - (d + 1) + 1) : t[i] = log[l][d + 1 + i - 1]
      <4> HIDE DEF n, d
      <4>1. d + 1 \in Int /\ n \in Int
        BY <2>2
      <4> QED BY <3>1, <4>1, SubSeqProperties
    <3> HIDE DEF n, d, t
    <3>3. n - (d + 1) + 1 = n - d /\ Len(t) = n - d
      BY <2>2, <3>2
    <3>4. \A i \in 1..(n - d) : d + 1 + i - 1 = d + i
      BY <2>2
    <3> QED BY <3>2, <3>3, <3>4
  <2>4. u = t
    <3> HIDE DEF u, t, n, d
    <3> QED BY <2>1, <2>3, SeqEqual
  <2>5. \A i \in 1..n : outcome[log[l][i]] = "none" <=> i > d
    BY DEF LoopInv, Accounted
  <2> QED BY <2>1, <2>4, <2>5
<1> QED BY <1>1, LifecycleInvariant, PTL

\* What is reported as forwarded has arrived, and no later event before it: retries,
\* timeouts and copies that arrive late do not change the order of the first copies.
THEOREM OrderTheorem == LifecycleSpec => []ForwardedInOrder
<1>1. LifecycleInv => ForwardedInOrder
  BY DEF LifecycleInv, ForwarderInv, LoopInv, InOrder, ForwardedInOrder
<1> QED BY <1>1, LifecycleInvariant, PTL

\* A loop that ended is done with all that was published for it.
LEMMA EndedMeansSettled ==
  ASSUME LifecycleInv, LoopsEnded
  PROVE  AllSettled
<1>1. ASSUME NEW l \in Loops, NEW i \in 1..Len(log[l]) PROVE outcome[log[l][i]] # "none"
  <2>1. loop[l].event = None /\ loop[l].queue = <<>> /\ LoopInv(l)
    BY DEF LoopsEnded, LifecycleInv, ForwarderInv, LoopInv, LoopShape
  <2>2. Done(l) = Len(log[l]) /\ Len(log[l]) \in Nat
    BY <2>1 DEF Done, Held, LoopInv, LoopShape
  <2>3. ~(i > Done(l))
    BY <2>2
  <2> QED BY <2>1, <2>3 DEF LoopInv, Accounted
<1> QED BY <1>1 DEF AllSettled, Published, Contains

\* A loop of the Kafka handler that is awaited no more has tried every receipt.
LEMMA DrainedMeansTried ==
  ASSUME LifecycleInv, WithKafka, MirrorDrained, NEW e \in Receipts, Published(e)
  PROVE  mirrored[e] = "tried"
<1> DEFINE r == log["deliveries"]
<1>1. Contains(r, e)
  <2>1. PICK l \in Loops : Contains(log[l], e)
    BY DEF Published
  <2>2. e \in EventsOf(l)
    BY <2>1 DEF Contains, LifecycleInv, ForwarderInv, LoopInv, LoopShape
  <2>3. l # "inbound"
    BY <2>2, ForwarderAssumption DEF EventsOf
  <2> QED BY <2>1, <2>3 DEF Loops
<1>2. PICK i \in 1..Len(r) : r[i] = e
  BY <1>1 DEF Contains
<1>3. boot.consumers
  <2>1. r # <<>>
    BY <1>2
  <2> QED BY <2>1 DEF LifecycleInv, StartedInv, Loops
<1>4. mirror.pc = "ended" /\ mirror.event = None /\ mirror.queue = <<>>
  BY <1>3 DEF LifecycleInv, MirrorInv, MirrorDrained
<1>5. MirrorDone = Len(r) /\ Len(r) \in Nat
  <2>1. MirrorHeld = 0 /\ Len(mirror.queue) = 0
    BY <1>4 DEF MirrorHeld
  <2>2. Len(r) \in Nat
    BY MirrorFacts
  <2> QED BY <2>1, <2>2 DEF MirrorDone
<1>6. mirrored[e] # "none"
  <2>1. mirrored[r[i]] = "none" <=> i > MirrorDone
    BY <1>4 DEF LifecycleInv, MirrorInv
  <2> QED BY <1>2, <1>5, <2>1
<1> QED BY <1>6 DEF LifecycleInv, MirrorInv, LifecycleTypeOK, ShutdownTypeOK

\* The shutdown loses an event only at or behind the delay between two attempts, and
\* not before a configured broker's client was given every receipt.
THEOREM LossTheorem == LifecycleSpec => []LossNeedsDelay
<1>1. LifecycleInv => LossNeedsDelay
  <2> SUFFICES ASSUME LifecycleInv, ~Alive, ~AllSettled
               PROVE  /\ WithKafka =>
                           \A e \in Receipts : Published(e) => mirrored[e] = "tried"
                      /\ \E l \in Loops : loop[l].pc = "backoff"
                      /\ \A l \in Loops : loop[l].pc \in {"backoff", "ended"}
    BY DEF LossNeedsDelay
  <2>1. ~LoopsEnded
    BY EndedMeansSettled
  <2>2. phase = "exited"
    BY <2>1 DEF Alive, LifecycleInv, PhaseInv, DrainedPhases
  <2>3. /\ MirrorDrained
        /\ \E l \in Loops : loop[l].pc = "backoff"
        /\ \A l \in Loops : loop[l].pc \in {"backoff", "ended"}
    BY <2>1, <2>2 DEF LifecycleInv, PhaseInv
  <2> QED BY <2>3, DrainedMeansTried
<1> QED BY <1>1, LifecycleInvariant, PTL

\* The Kafka handler has tried to publish every receipt before it closes the producer,
\* and tries none after it.
THEOREM MirrorTheorem == LifecycleSpec => []MirrorBeforeProducer
<1>1. LifecycleInv => MirrorBeforeProducer
  <2> SUFFICES ASSUME LifecycleInv, producer = "closed", NEW e \in Receipts, Published(e)
               PROVE  mirrored[e] = "tried"
    BY DEF MirrorBeforeProducer
  <2>1. WithKafka /\ MirrorDrained
    BY DEF LifecycleInv, MirrorInv, MirrorDrained, WithKafka
  <2> QED BY <2>1, DrainedMeansTried
<1> QED BY <1>1, LifecycleInvariant, PTL

\* After a shutdown without failure no batch of the outbox worker runs or will.
THEOREM QuietTheorem == LifecycleSpec => []QuietWhenStopped
<1>1. LifecycleInv => QuietWhenStopped
  <2> SUFFICES ASSUME LifecycleInv, phase = "stopped"
               PROVE  worker = [timer |-> FALSE, batch |-> "idle"]
    BY DEF QuietWhenStopped
  <2>1. worker \in [timer : BOOLEAN, batch : {"idle", "running"}]
    BY DEF LifecycleInv, LifecycleTypeOK, ShutdownTypeOK
  <2>2. worker.timer = FALSE /\ worker.batch = "idle"
    BY <2>1 DEF LifecycleInv, PhaseInv
  <2> QED BY <2>1, <2>2
<1> QED BY <1>1, LifecycleInvariant, PTL

\* The server is open only while all consumers of its events are.
THEOREM ServerTheorem == LifecycleSpec => []ServerWithinConsumers
<1>1. LifecycleInv => ServerWithinConsumers
  <2> SUFFICES ASSUME LifecycleInv, boot.listening, Serving
               PROVE  /\ ~closing
                      /\ \A l \in Loops : loop[l].pc # "ended"
                      /\ WithKafka =>
                           mirror.pc \notin {"disabled", "ended"} /\ producer = "open"
    BY DEF ServerWithinConsumers
  <2>1. boot.consumers /\ ~closing /\ producer # "closed"
    BY DEF LifecycleInv, StartedInv, PhaseInv, Serving, ClosedPhases
  <2>2. \A l \in Loops : loop[l].pc # "ended"
    BY <2>1 DEF LifecycleInv, StartedInv
  <2>3. mirror.pc # "ended" /\ (mirror.pc = "disabled" <=> ~WithKafka)
    BY <2>1 DEF LifecycleInv, MirrorInv
  <2>4. WithKafka => producer = "open"
    BY <2>1 DEF LifecycleInv, LifecycleTypeOK, ShutdownTypeOK, WithKafka
  <2> QED BY <2>1, <2>2, <2>3, <2>4
<1> QED BY <1>1, LifecycleInvariant, PTL

=============================================================================
