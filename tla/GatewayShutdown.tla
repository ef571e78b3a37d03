--------------------------- MODULE GatewayShutdown ---------------------------
(***************************************************************************)
(* What happens between the signal that ends the gateway and the end of    *)
(* its process: the hooks of PrismaService and EventLifecycle, with the    *)
(* consumers they stop: the loops of EventForwarder, the loop of           *)
(* KafkaDeliveryEventHandler and the batches of AnalyticsOutboxWorker.     *)
(*                                                                         *)
(* The order of the hooks is the framework's: onModuleDestroy, then the    *)
(* HTTP server closes, then onApplicationShutdown.                         *)
(***************************************************************************)
EXTENDS EventForwarder

VARIABLES
  phase,    \* where the shutdown stands
  database, \* "connected", "disconnected", or "reconnected" by a later query
  mirror,   \* the loop of the Kafka handler
  mirrored, \* mirrored[e]: how that loop was done with the event (history)
  producer, \* the Kafka producer it shares with the outbox worker
  worker    \* the outbox worker: its timer and the batch that runs

vars == <<closing, log, loop, outcome, late, arrived,
          phase, database, mirror, mirrored, producer, worker>>

shutdownVars == <<phase, database, mirror, mirrored, producer, worker>>

\* starting, aborted: before the server listens, see GatewayLifecycle; serving:
\* until the signal; destroyed: the database is disconnected, the server still
\* answers; refusing: it does not; then the three stops of EventLifecycle, of which
\* the second waits for its loop and then for the producer.
Phases == {"starting", "aborted", "serving", "destroyed", "refusing", "stoppingForwarder",
           "stoppingHandler", "closingProducer", "stoppingWorker",
           "stopped", "exited"}

\* A broker is configured (EventsModule.forRoot).
WithKafka == producer # "absent"

\* onModuleInit: all three have started.
Init ==
  /\ ForwarderInit
  /\ phase = "serving"
  /\ database = "connected"
  /\ producer \in {"open", "absent"}
  /\ mirror = [pc |-> IF WithKafka THEN "waiting" ELSE "disabled",
               queue |-> <<>>, event |-> None]
  /\ mirrored = [e \in Receipts |-> "none"]
  /\ worker = [timer |-> WithKafka, batch |-> "idle"]

-----------------------------------------------------------------------------
(* The gateway at work *)

Alive == phase \notin {"stopped", "exited"}

Serving == phase \in {"serving", "destroyed"}

\* Prisma connects again when it is asked after the disconnect.
Queried == IF database = "disconnected" THEN "reconnected" ELSE database

\* A webhook handler publishes; a receipt also goes to the Kafka handler.
PublishEvent(l, e) ==
  /\ Serving
  /\ Publish(l, e)
  /\ mirror' = IF l = "deliveries" /\ mirror.pc # "disabled"
               THEN [mirror EXCEPT !.queue = Append(@, e)] ELSE mirror
  /\ UNCHANGED <<phase, database, mirrored, producer, worker>>

ForwarderStep(l) ==
  /\ Alive
  /\ \/ Take(l) \/ Answered(l) \/ TransportFails(l) \/ DelayEnds(l) \/ End(l)
  /\ UNCHANGED shutdownVars

ForwarderLookUp(l) ==
  /\ Alive
  /\ LookUp(l)
  /\ database' = Queried
  /\ UNCHANGED <<phase, mirror, mirrored, producer, worker>>

ServiceStep(l) ==
  /\ Alive
  /\ Receive(l) \/ \E e \in EventsOf(l) : LateRequest(l, e)
  /\ UNCHANGED shutdownVars

-----------------------------------------------------------------------------
(* KafkaDeliveryEventHandler *)

MirrorTake ==
  /\ Alive
  /\ mirror.pc = "waiting"
  /\ mirror.queue # <<>>
  /\ mirror' = [pc |-> "lookup", queue |-> Tail(mirror.queue),
                event |-> Head(mirror.queue)]
  /\ UNCHANGED forwarderVars
  /\ UNCHANGED <<phase, database, mirrored, producer, worker>>

MirrorLookUp ==
  /\ Alive
  /\ mirror.pc = "lookup"
  /\ mirror' = [mirror EXCEPT !.pc = "publishing"]
  /\ database' = Queried
  /\ UNCHANGED forwarderVars
  /\ UNCHANGED <<phase, mirrored, producer, worker>>

\* The broker takes the status, or the loop logs the error and goes on.
MirrorPublish ==
  /\ Alive
  /\ mirror.pc = "publishing"
  /\ mirrored' = [mirrored EXCEPT ![mirror.event] =
       IF producer = "open" THEN "tried" ELSE "tooLate"]
  /\ mirror' = [mirror EXCEPT !.pc = "waiting", !.event = None]
  /\ UNCHANGED forwarderVars
  /\ UNCHANGED <<phase, database, producer, worker>>

MirrorEnd ==
  /\ Alive
  /\ mirror.pc = "waiting"
  /\ mirror.queue = <<>>
  /\ closing
  /\ mirror' = [mirror EXCEPT !.pc = "ended"]
  /\ UNCHANGED forwarderVars
  /\ UNCHANGED <<phase, database, mirrored, producer, worker>>

-----------------------------------------------------------------------------
(* AnalyticsOutboxWorker *)

\* The timer of start fires; a batch that runs is not joined by a second.
StartBatch ==
  /\ Alive
  /\ worker.timer
  /\ worker.batch = "idle"
  /\ worker' = [worker EXCEPT !.batch = "running"]
  /\ database' = Queried
  /\ UNCHANGED forwarderVars
  /\ UNCHANGED <<phase, mirror, mirrored, producer>>

\* The last record is settled, or a query ended the batch.
EndBatch ==
  /\ Alive
  /\ worker.batch = "running"
  /\ worker' = [worker EXCEPT !.batch = "idle"]
  /\ database' = Queried
  /\ UNCHANGED forwarderVars
  /\ UNCHANGED <<phase, mirror, mirrored, producer>>

-----------------------------------------------------------------------------
(* The hooks, in their order *)

\* PrismaService.onModuleDestroy
Disconnect ==
  /\ phase = "serving"
  /\ phase' = "destroyed"
  /\ database' = "disconnected"
  /\ UNCHANGED forwarderVars
  /\ UNCHANGED <<mirror, mirrored, producer, worker>>

\* Requests in flight are answered first, however long they take.
CloseServer ==
  /\ phase = "destroyed"
  /\ phase' = "refusing"
  /\ UNCHANGED forwarderVars
  /\ UNCHANGED <<database, mirror, mirrored, producer, worker>>

\* HttpEventForwarder.stop closes the bus for every consumer ...
StopForwarder ==
  /\ phase = "refusing"
  /\ Close
  /\ phase' = "stoppingForwarder"
  /\ UNCHANGED <<database, mirror, mirrored, producer, worker>>

\* Mutation of the wait below: the first of the two loops will do.
ForwarderDrainedHalf == \E l \in Loops : loop[l].pc = "ended"

\* ... and waits for its own two loops.
ForwarderDrained == LoopsEnded

\* KafkaDeliveryEventHandler.stop closes the bus again, without effect, ...
StopHandler ==
  /\ phase = "stoppingForwarder"
  /\ ForwarderDrained
  /\ phase' = "stoppingHandler"
  /\ UNCHANGED forwarderVars
  /\ UNCHANGED <<database, mirror, mirrored, producer, worker>>

\* Mutation of the wait below: the task is not awaited.
MirrorDrainedAlways == TRUE

\* Mutation of the wait below: a loop that was never started is awaited too.
MirrorDrainedStrictly == mirror.pc = "ended"

\* ... waits for its loop, if start made one, ...
MirrorDrained == mirror.pc \in {"ended", "disabled"}

\* ... and then for the producer; from now on a send is refused.
ShutDownProducer ==
  /\ phase = "stoppingHandler"
  /\ MirrorDrained
  /\ phase' = "closingProducer"
  /\ producer' = IF producer = "open" THEN "closed" ELSE producer
  /\ UNCHANGED forwarderVars
  /\ UNCHANGED <<database, mirror, mirrored, worker>>

\* AnalyticsOutboxWorker.stop clears the timer ...
StopWorker ==
  /\ phase = "closingProducer"
  /\ phase' = "stoppingWorker"
  /\ worker' = [worker EXCEPT !.timer = FALSE]
  /\ UNCHANGED forwarderVars
  /\ UNCHANGED <<database, mirror, mirrored, producer>>

\* A failed shutdown of the producer skips that: the hook rejects and the
\* framework ends the process.
ProducerFails ==
  /\ phase = "closingProducer"
  /\ WithKafka
  /\ phase' = "exited"
  /\ UNCHANGED forwarderVars
  /\ UNCHANGED <<database, mirror, mirrored, producer, worker>>

\* Mutation of the wait below: it ends at once.
WorkerQuietAlways == TRUE

\* ... and waits while a batch runs.
WorkerQuiet == worker.batch = "idle"

Stopped ==
  /\ phase = "stoppingWorker"
  /\ WorkerQuiet
  /\ phase' = "stopped"
  /\ UNCHANGED forwarderVars
  /\ UNCHANGED <<database, mirror, mirrored, producer, worker>>

\* Node ends a process in which nothing but unreferenced timers is left: no
\* server, no connection to the database or the broker, no request under way.
\* The delay between two attempts is such a timer, and so is the worker's.  A broker
\* that is configured need not be connected.
NothingLeft ==
  /\ phase = "stoppingForwarder"
  /\ database = "disconnected"
  /\ MirrorDrained
  /\ WorkerQuiet
  /\ \A l \in Loops : loop[l].pc \in {"backoff", "ended"}
  /\ ~LoopsEnded

LoopRunsEmpty ==
  /\ NothingLeft
  /\ phase' = "exited"
  /\ UNCHANGED forwarderVars
  /\ UNCHANGED <<database, mirror, mirrored, producer, worker>>

-----------------------------------------------------------------------------

MirrorStep == MirrorTake \/ MirrorLookUp \/ MirrorPublish \/ MirrorEnd

HookStep ==
  \/ CloseServer \/ StopForwarder \/ StopHandler \/ ShutDownProducer
  \/ StopWorker \/ ProducerFails \/ Stopped

ShutdownNext ==
  \/ \E l \in Loops :
       \/ \E e \in EventsOf(l) : PublishEvent(l, e)
       \/ ForwarderStep(l) \/ ForwarderLookUp(l)
       \/ ServiceStep(l)
  \/ MirrorStep
  \/ StartBatch \/ EndBatch
  \/ Disconnect \/ HookStep
  \/ LoopRunsEmpty

ShutdownSpec == Init /\ [][ShutdownNext]_vars

\* The signal need not come, and the requests that the server waits for need not end:
\* a mail can stay at Stalwart (SmtpSession).  Everything else that is awaited times
\* out, or is the answer or the error of the database or of the broker's client.
ShutdownFairness ==
  /\ \A l \in Loops :
       WF_vars(ForwarderStep(l) \/ ForwarderLookUp(l))
  /\ WF_vars(MirrorStep)
  /\ WF_vars(EndBatch)
  /\ WF_vars(HookStep /\ phase # "destroyed")

-----------------------------------------------------------------------------
(* Properties *)

\* Types of the state, those of the forwarder included: onModuleInit to the end of
\* onApplicationShutdown.
ShutdownTypeOK ==
  /\ TypeOK
  /\ phase \in Phases
  /\ database \in {"connected", "disconnected", "reconnected"}
  /\ mirror \in [pc : {"disabled", "waiting", "lookup", "publishing", "ended"},
                 queue : Seq(Receipts), event : Receipts \cup {None}]
  /\ mirrored \in [Receipts -> {"none", "tried", "tooLate"}]
  /\ producer \in {"absent", "open", "closed"}
  /\ worker \in [timer : BOOLEAN, batch : {"idle", "running"}]

\* When the process ends, by whichever way, every event the bus accepted was
\* forwarded, or given up for a reason of its own (no route, a refusal, the last
\* attempt): the shutdown itself loses none.
AllSettled == \A e \in Events : Published(e) => outcome[e] # "none"

NothingLostAtTheEnd == ~Alive => AllSettled

\* What holds instead: an event is lost with the process only at, or behind, the
\* delay between two attempts, and with a broker its client was still given every
\* receipt, those that the forwarder loses included.
LossNeedsDelay ==
  ~Alive /\ ~AllSettled =>
    /\ WithKafka => \A e \in Receipts : Published(e) => mirrored[e] = "tried"
    /\ \E l \in Loops : loop[l].pc = "backoff"
    /\ \A l \in Loops : loop[l].pc \in {"backoff", "ended"}

\* The Kafka handler never finds the producer it shuts down closed, and its loop
\* was done with every receipt when it did.
MirrorBeforeProducer ==
  producer = "closed" =>
    \A e \in Receipts : Published(e) => mirrored[e] = "tried"

\* After a shutdown without failure no batch runs and none will: the locks of the
\* outbox are free again.
QuietWhenStopped == phase = "stopped" => worker = [timer |-> FALSE, batch |-> "idle"]

=============================================================================
