--------------------------- MODULE GatewayLifecycle ---------------------------
(***************************************************************************)
(* The life of a gateway process from its start: the hooks of              *)
(* PrismaService and EventLifecycle in either order, one after the other,  *)
(* then the server that listens (main.ts), then the work and the shutdown  *)
(* of GatewayShutdown.  A start that fails ends by the hooks of that same  *)
(* shutdown, over consumers that may never have been started.              *)
(*                                                                         *)
(* A signal is taken when the server listens: what the framework does with *)
(* one in the middle of its start is not this code's.                      *)
(***************************************************************************)
EXTENDS GatewayShutdown

VARIABLE
  boot \* how far the start has come

lifecycleVars == <<vars, boot>>

\* database: the hook of PrismaService; consumers: the hook of EventLifecycle has
\* run; listening: the server was opened.
Boot == [database  : {"pending", "connecting", "checking", "ready"},
         consumers : BOOLEAN,
         listening : BOOLEAN]

\* A loop that was not started is as one that has ended: no task to wait for.
LifecycleInit ==
  /\ NothingYet("ended")
  /\ phase = "starting"
  /\ database = "disconnected"
  /\ producer \in {"open", "absent"}
  /\ mirror = [pc |-> "disabled", queue |-> <<>>, event |-> None]
  /\ mirrored = [e \in Receipts |-> "none"]
  /\ worker = [timer |-> FALSE, batch |-> "idle"]
  /\ boot = [database |-> "pending", consumers |-> FALSE, listening |-> FALSE]

-----------------------------------------------------------------------------
(* The hooks of the start *)

\* EventLifecycle.onModuleInit subscribes and starts what is configured.  Nothing
\* in it waits: the first batch of the worker runs detached.
StartConsumers ==
  /\ phase = "starting"
  /\ boot.database \in {"pending", "ready"}
  /\ ~boot.consumers
  /\ loop' = [l \in Loops |-> [loop[l] EXCEPT !.pc = "waiting"]]
  /\ mirror' = IF WithKafka THEN [mirror EXCEPT !.pc = "waiting"] ELSE mirror
  /\ worker' = IF WithKafka THEN [timer |-> TRUE, batch |-> "running"] ELSE worker
  /\ database' = IF WithKafka THEN Queried ELSE database
  /\ boot' = [boot EXCEPT !.consumers = TRUE]
  /\ UNCHANGED <<closing, log, outcome, late, arrived, phase, mirrored, producer>>

UnchangedButBoot == UNCHANGED <<forwarderVars, mirror, mirrored, producer, worker>>

\* PrismaService.onModuleInit: connect, ...
Connect ==
  /\ phase = "starting"
  /\ boot.database = "pending"
  /\ boot' = [boot EXCEPT !.database = "connecting"]
  /\ UNCHANGED <<phase, database>>
  /\ UnchangedButBoot

\* ... which may fail and has no timer of its own, ...
ConnectEnds ==
  /\ phase = "starting"
  /\ boot.database = "connecting"
  /\ \/ /\ boot' = [boot EXCEPT !.database = "checking"]
        /\ database' = "connected"
        /\ UNCHANGED phase
     \/ phase' = "aborted" /\ UNCHANGED <<boot, database>>
  /\ UnchangedButBoot

\* ... and one query, ...
CheckAnswered ==
  /\ phase = "starting"
  /\ boot.database = "checking"
  /\ boot' = [boot EXCEPT !.database = "ready"]
  /\ UNCHANGED <<phase, database>>
  /\ UnchangedButBoot

\* ... which fails, or is raced by a timer of five seconds.
CheckFails ==
  /\ phase = "starting"
  /\ boot.database = "checking"
  /\ phase' = "aborted"
  /\ UNCHANGED <<boot, database>>
  /\ UnchangedButBoot

-----------------------------------------------------------------------------
(* bootstrap *)

\* Mutation of the hooks below: those of EventLifecycle are not awaited.
HooksDoneDatabaseOnly == boot.database = "ready"

\* listen runs the hooks of all modules before it opens the server.
HooksDone == boot.database = "ready" /\ boot.consumers

Listen ==
  /\ phase = "starting"
  /\ HooksDone
  /\ \/ /\ phase' = "serving"
        /\ boot' = [boot EXCEPT !.listening = TRUE]
     \/ phase' = "aborted" /\ UNCHANGED boot
  /\ UNCHANGED database
  /\ UnchangedButBoot

\* A failed start closes the application: the same hooks, without a server.
AbortStart ==
  /\ phase = "aborted"
  /\ phase' = "destroyed"
  /\ database' = "disconnected"
  /\ UNCHANGED boot
  /\ UnchangedButBoot

\* GET /health/ready asks the database before it looks at the forwarder, and so
\* connects it again when it comes between the signal and the end of the server.
Ready ==
  /\ boot.listening
  /\ Serving
  /\ database' = Queried
  /\ UNCHANGED <<phase, boot>>
  /\ UnchangedButBoot

-----------------------------------------------------------------------------

StartStep == StartConsumers \/ Connect \/ CheckFails \/ Listen \/ AbortStart

\* The gateway at work and its shutdown.
RunStep ==
  /\ \/ \E l \in Loops :
          \/ boot.listening /\ \E e \in EventsOf(l) : PublishEvent(l, e)
          \/ ForwarderStep(l) \/ ForwarderLookUp(l)
          \/ ServiceStep(l)
     \/ MirrorStep
     \/ StartBatch \/ EndBatch
     \/ Disconnect \/ HookStep
     \/ LoopRunsEmpty
  /\ UNCHANGED boot

LifecycleNext ==
  \/ StartStep \/ ConnectEnds \/ CheckAnswered
  \/ Ready
  \/ RunStep

LifecycleSpec == LifecycleInit /\ [][LifecycleNext]_lifecycleVars

\* The hooks of the start run by themselves, but a database need not answer; a server
\* that was never opened has no requests to wait for.
FairLifecycle ==
  /\ LifecycleSpec
  /\ ShutdownFairness
  /\ WF_lifecycleVars(StartStep)
  /\ WF_lifecycleVars(CloseServer /\ ~boot.listening /\ UNCHANGED boot)

-----------------------------------------------------------------------------
(* Properties *)

\* Types of the state, those of the shutdown included.
LifecycleTypeOK == ShutdownTypeOK /\ boot \in Boot

\* The server is open only inside the life of all that its requests rely on: both
\* loops of the forwarder and the loop of the Kafka handler have subscribed and
\* none has ended, the bus is open and so is the producer.  Otherwise a webhook
\* would be acknowledged and its event dropped.
ServerWithinConsumers ==
  boot.listening /\ Serving =>
    /\ ~closing
    /\ \A l \in Loops : loop[l].pc # "ended"
    /\ WithKafka => mirror.pc \notin {"disabled", "ended"} /\ producer = "open"

\* A start comes to its end, unless the connection to the database is neither made
\* nor refused.  A shutdown does, whether the broker and the services answer or
\* fail: that of a failed start, over consumers that were never started, and that of
\* a server, once its last request has ended, for which it waits without a bound.
StartAndShutdownEnd ==
  /\ phase = "starting" ~> phase # "starting" \/ boot.database = "connecting"
  /\ \/ phase \in {"aborted", "refusing"}
     \/ phase = "destroyed" /\ ~boot.listening
     ~> ~Alive

=============================================================================
