---------------------------- MODULE OutboxWorker ----------------------------
(***************************************************************************)
(* The worker that publishes analytics_outbox (analytics-outbox.worker.ts) *)
(* in one or several gateway instances that share the table.               *)
(*                                                                         *)
(* One action is one database call or one call of the broker; everything   *)
(* may happen between two of them, also a crash of the instance, a lock    *)
(* that grows stale, or a batch of another instance.                       *)
(*                                                                         *)
(* Time is relative: a row knows how old its lock is and how long it still *)
(* waits for its next attempt, a worker how long ago it computed the `now' *)
(* of its claim.  The ages saturate where a comparison cannot tell them    *)
(* apart any more, so the state space is finite without stopping a clock.  *)
(***************************************************************************)
EXTENDS Naturals, FiniteSets

CONSTANTS
  Records,     \* outbox rows; their order is that of createdAt
  Workers,     \* gateway instances
  BatchSize,   \* BATCH_SIZE
  MaxRetries,  \* MAX_RETRIES
  MaxBackoff,  \* MAX_BACKOFF_SECONDS, in ticks
  StaleLock,   \* STALE_LOCK_MS, in ticks
  MaxClaimAge, \* bound: ticks that the claim loop of a batch may take
  Timely,      \* TRUE: no lock grows stale while its holder works on it
  MaxFaults,   \* bound on crashes and failed database calls
  None

ASSUME OutboxAssumption ==
  /\ Records \subseteq Nat
  /\ BatchSize \in Nat \ {0}
  /\ MaxRetries \in Nat \ {0}
  /\ MaxBackoff \in Nat
  /\ StaleLock \in Nat
  /\ MaxClaimAge \in Nat
  /\ Timely \in BOOLEAN
  /\ MaxFaults \in Nat
  /\ None \notin Workers \cup Records

VARIABLES
  row,    \* row[r]: the columns of a record
  worker, \* worker[w]: the batch of an instance
  acked,  \* records whose message the broker has acknowledged
  failed, \* failed[r]: how often publishing r has failed
  stolen, \* records whose lock was taken over when it was stale
  faults

vars == <<row, worker, acked, failed, stolen, faults>>

-----------------------------------------------------------------------------
(* Types *)

\* Older locks are stale for every claim.
OldestLock == StaleLock + MaxClaimAge + 1

Row == [exists    : BOOLEAN,
        published : BOOLEAN,
        dead      : BOOLEAN,
        attempts  : Nat,
        lockedBy  : Workers \cup {None},
        lockAge   : 0..OldestLock,
        wait      : 0..MaxBackoff]

\* The states in which an instance works on its current record.
InFlight == {"sending", "marking", "releasing"}

Worker == [pc       : {"idle", "claiming", "publishing"} \cup InFlight,
           todo     : SUBSET Records,     \* candidates not yet claimed
           claimed  : SUBSET Records,     \* claimed, not yet published
           current  : Records \cup {None},
           attempts : Nat,                \* of the current record, as read
           age      : 0..MaxClaimAge]     \* since the `now' of the claim

IdleWorker == [pc |-> "idle", todo |-> {}, claimed |-> {}, current |-> None,
               attempts |-> 0, age |-> 0]

-----------------------------------------------------------------------------
(* Helpers *)

Smaller(a, b) == IF a < b THEN a ELSE b

\* Seconds until the next attempt, counted from the attempts made.
Backoff(attempts) == Smaller(MaxBackoff, 2 ^ attempts)

\* The first n of a set of records in the order of createdAt.
Oldest(S, n) == {r \in S : Cardinality({q \in S : q < r}) < n}

First(S) == CHOOSE r \in S : \A q \in S : r <= q

\* Mutation of the decision below: counted one failure too early.
GivenUpEarly(attempts) == attempts + 1 >= MaxRetries

\* A record that failed this often is dead-lettered.
GivenUp(attempts) == attempts >= MaxRetries

\* Mutations of the condition below: the update by id alone, and a lock that is
\* stale one tick early.
LockableAlways(r, age) == TRUE

LockableOnTheDot(r, age) ==
  row[r].lockedBy = None \/ row[r].lockAge >= age + StaleLock

\* lockedAt IS NULL or lockedAt < staleBefore, for a claim of the given age.
Lockable(r, age) ==
  row[r].lockedBy = None \/ row[r].lockAge > age + StaleLock

\* Mutations of the query below: settled records are not filtered out.
CandidatesPublishedToo ==
  {r \in Records :
     row[r].exists /\ ~row[r].dead /\ row[r].wait = 0 /\ Lockable(r, 0)}

CandidatesDeadToo ==
  {r \in Records :
     row[r].exists /\ ~row[r].published /\ row[r].wait = 0 /\ Lockable(r, 0)}

\* Instance w is not done with its claim of r yet.
HasClaimed(w, r) == r \in worker[w].claimed \/ r = worker[w].current

\* The candidates a batch starts from.
Candidates ==
  {r \in Records : /\ row[r].exists
                   /\ ~row[r].published
                   /\ ~row[r].dead
                   /\ row[r].wait = 0
                   /\ Lockable(r, 0)}

Init ==
  /\ row = [r \in Records |->
              [exists |-> FALSE, published |-> FALSE, dead |-> FALSE,
               attempts |-> 0, lockedBy |-> None, lockAge |-> 0, wait |-> 0]]
  /\ worker = [w \in Workers |-> IdleWorker]
  /\ acked = {}
  /\ failed = [r \in Records |-> 0]
  /\ stolen = {}
  /\ faults = 0

-----------------------------------------------------------------------------
(* The environment *)

\* The store inserts a fact, due at once.
EnqueueFact(r) ==
  /\ ~row[r].exists
  /\ row' = [row EXCEPT ![r].exists = TRUE]
  /\ UNCHANGED <<worker, acked, failed, stolen, faults>>

\* A unit of time passes.
Tick ==
  /\ \A w \in Workers : worker[w].pc = "claiming" => worker[w].age < MaxClaimAge
  /\ Timely => \A w \in Workers, r \in Records :
       row[r].lockedBy = w /\ HasClaimed(w, r) => row[r].lockAge < StaleLock
  /\ row' = [r \in Records |->
       [row[r] EXCEPT
          !.lockAge = IF row[r].lockedBy = None THEN 0
                                                ELSE Smaller(OldestLock, @ + 1),
          !.wait = IF @ = 0 THEN 0 ELSE @ - 1]]
  /\ worker' = [w \in Workers |->
       [worker[w] EXCEPT !.age = IF worker[w].pc = "claiming" THEN @ + 1 ELSE @]]
  /\ UNCHANGED <<acked, failed, stolen, faults>>

\* A crash, or a database call that fails or whose answer is lost: the batch is
\* over and the locks it holds stay.
Abort(w) ==
  /\ worker[w].pc # "idle"
  /\ faults < MaxFaults
  /\ faults' = faults + 1
  /\ worker' = [worker EXCEPT ![w] = IdleWorker]
  /\ UNCHANGED <<row, acked, failed, stolen>>

-----------------------------------------------------------------------------
(* One batch: runOnce, claim, publish, releaseWithFailure *)

\* The poll finds due records; the running flag admits one batch per instance.
StartBatch(w) ==
  /\ worker[w].pc = "idle"
  /\ Candidates # {}
  /\ worker' = [worker EXCEPT ![w] =
       [IdleWorker EXCEPT !.pc = "claiming", !.todo = Oldest(Candidates, BatchSize)]]
  /\ UNCHANGED <<row, acked, failed, stolen, faults>>

\* The conditional update: it looks at the lock again, at nothing else.
ClaimNext(w) ==
  LET r == First(worker[w].todo)
      won == Lockable(r, worker[w].age)
  IN
  /\ worker[w].pc = "claiming"
  /\ worker[w].todo # {}
  /\ worker' = [worker EXCEPT ![w].todo = @ \ {r},
                              ![w].claimed = IF won THEN @ \cup {r} ELSE @]
  /\ row' = IF won THEN [row EXCEPT ![r].lockedBy = w,
                                    ![r].lockAge = worker[w].age]
                   ELSE row
  /\ stolen' = IF won /\ row[r].lockAge > worker[w].age + StaleLock
                 THEN stolen \cup {r} ELSE stolen
  /\ UNCHANGED <<acked, failed, faults>>

EndClaim(w) ==
  /\ worker[w].pc = "claiming"
  /\ worker[w].todo = {}
  /\ worker' = [worker EXCEPT ![w].pc = "publishing"]
  /\ UNCHANGED <<row, acked, failed, stolen, faults>>

\* The record is read again and skipped when the lock has changed hands.
ReadRecord(w) ==
  LET r == First(worker[w].claimed) IN
  /\ worker[w].pc = "publishing"
  /\ worker[w].claimed # {}
  /\ \/ /\ row[r].lockedBy = w
        /\ worker' = [worker EXCEPT ![w].pc = "sending", ![w].claimed = @ \ {r},
                        ![w].current = r, ![w].attempts = row[r].attempts]
     \/ /\ row[r].lockedBy # w
        /\ worker' = [worker EXCEPT ![w].claimed = @ \ {r}]
  /\ UNCHANGED <<row, acked, failed, stolen, faults>>

EndBatch(w) ==
  /\ worker[w].pc = "publishing"
  /\ worker[w].claimed = {}
  /\ worker' = [worker EXCEPT ![w] = IdleWorker]
  /\ UNCHANGED <<row, acked, failed, stolen, faults>>

\* publishRaw resolves; the broker has the message.
SendSucceeds(w) ==
  /\ worker[w].pc = "sending"
  /\ acked' = acked \cup {worker[w].current}
  /\ worker' = [worker EXCEPT ![w].pc = "marking"]
  /\ UNCHANGED <<row, failed, stolen, faults>>

\* Mutation of the failure below: it is logged, and the record marked.
SendFailsLogged(w) ==
  /\ worker[w].pc = "sending"
  /\ failed' = [failed EXCEPT ![worker[w].current] = @ + 1]
  /\ worker' = [worker EXCEPT ![w].pc = "marking"]
  /\ UNCHANGED <<row, acked, stolen, faults>>

\* publishRaw throws; the broker may have the message all the same.
SendFails(w) ==
  /\ worker[w].pc = "sending"
  /\ failed' = [failed EXCEPT ![worker[w].current] = @ + 1]
  /\ worker' = [worker EXCEPT ![w].pc = "releasing"]
  /\ UNCHANGED <<row, acked, stolen, faults>>

\* The next record of the batch.
NextRecord(w) ==
  worker' = [worker EXCEPT ![w].pc = "publishing", ![w].current = None,
                           ![w].attempts = 0]

\* The success is written by id alone, whoever holds the lock by now.
MarkPublished(w) ==
  /\ worker[w].pc = "marking"
  /\ LET r == worker[w].current IN
       row' = [row EXCEPT ![r].published = TRUE, ![r].lockedBy = None,
                          ![r].lockAge = 0]
  /\ NextRecord(w)
  /\ UNCHANGED <<acked, failed, stolen, faults>>

\* releaseWithFailure, likewise, from the attempts that were read.
ReleaseWithFailure(w) ==
  LET r == worker[w].current
      attempts == worker[w].attempts + 1
      dead == GivenUp(attempts)
  IN
  /\ worker[w].pc = "releasing"
  /\ row' = [row EXCEPT ![r].attempts = attempts,
                        ![r].lockedBy = None,
                        ![r].lockAge = 0,
                        ![r].dead = @ \/ dead,
                        ![r].wait = IF dead THEN @ ELSE Backoff(attempts)]
  /\ NextRecord(w)
  /\ UNCHANGED <<acked, failed, stolen, faults>>

-----------------------------------------------------------------------------

BatchStep(w) ==
  \/ StartBatch(w)
  \/ ClaimNext(w)
  \/ EndClaim(w)
  \/ ReadRecord(w)
  \/ EndBatch(w)
  \/ SendSucceeds(w)
  \/ SendFails(w)
  \/ MarkPublished(w)
  \/ ReleaseWithFailure(w)

Next ==
  \/ \E r \in Records : EnqueueFact(r)
  \/ \E w \in Workers : BatchStep(w) \/ Abort(w)
  \/ Tick

Spec == Init /\ [][Next]_vars

\* The timer polls every second, every awaited call is answered or fails, and
\* time passes.  Nothing is assumed of the broker's answers.
Fairness ==
  /\ \A w \in Workers : WF_vars(BatchStep(w))
  /\ WF_vars(Tick)

FairSpec == Spec /\ Fairness

-----------------------------------------------------------------------------
(* Properties *)

\* Types of the columns of analytics_outbox and of the batches of runOnce; a backoff
\* is never longer than its cap, and crashes stay within their bound.
TypeOK ==
  /\ row \in [Records -> Row]
  /\ worker \in [Workers -> Worker]
  /\ acked \subseteq Records
  /\ failed \in [Records -> Nat]
  /\ stolen \subseteq Records
  /\ faults \in 0..MaxFaults

\* A record is marked as published only after the broker acknowledged it.
PublishedMeansAcked == \A r \in Records : row[r].published => r \in acked

\* No record is given up before it failed MaxRetries times, although instances
\* write attempts they read before they lost the lock: updates of the counter
\* may get lost, but never invent a failure.
DeadLetterEarned ==
  \A r \in Records : row[r].dead => failed[r] >= MaxRetries

\* The conditional update makes claims exclusive: two instances are at work on
\* one record only if its lock was taken over as stale at some time.
ClaimExclusive ==
  \A v, w \in Workers :
    /\ v # w
    /\ worker[v].pc \in InFlight /\ worker[w].pc \in InFlight
    /\ worker[v].current = worker[w].current
    => worker[v].current \in stolen

\* What instance w knows of the record it works on: the lock it read is still its
\* own unless it was taken over, and what it will write is backed by the broker.
BatchKnows(w) ==
  LET b == worker[w]
      r == b.current
  IN
  /\ b.pc \in InFlight <=> r # None
  /\ b.pc \in InFlight /\ r \notin stolen => row[r].lockedBy = w
  /\ b.pc = "sending" => b.attempts <= failed[r]
  /\ b.pc = "marking" => r \in acked
  /\ b.pc = "releasing" => b.attempts < failed[r]

\* What the columns of r say is what happened to it.
RowJustified(r) ==
  /\ row[r].attempts <= failed[r]
  /\ row[r].published => r \in acked
  /\ row[r].dead => failed[r] >= MaxRetries

\* The inductive invariant: no step of any instance, and no crash, leaves a
\* batch believing, or a row claiming, what did not happen.  ClaimExclusive,
\* DeadLetterEarned and PublishedMeansAcked follow from it.
IndInv ==
  /\ \A w \in Workers : BatchKnows(w)
  /\ \A r \in Records : RowJustified(r)

\* A settled record is not sent again.  It holds for one instance, with all its
\* crashes.  With two it fails: the conditional update checks the lock only, so
\* a candidate list read before another instance settled the record claims it.
SettledNotSentAgain ==
  [][\A w \in Workers :
       worker[w].pc = "publishing" /\ worker'[w].pc = "sending"
         => LET r == worker'[w].current IN ~row[r].published /\ ~row[r].dead]_vars

\* What a batch has in hand, in the order in which it works on it, is unsettled
\* and in hand once.  This too takes a single instance.
BatchUnsettled ==
  \A w \in Workers :
    LET b == worker[w] IN
    /\ b.todo \cap b.claimed = {}
    /\ b.current \notin b.todo \cup b.claimed
    /\ \A r \in Records :
         r \in b.todo \cup b.claimed \/ r = b.current
           => row[r].exists /\ ~row[r].published /\ ~row[r].dead

\* One instance implements the contract of the outbox.
Contract == INSTANCE OutboxContract WITH
  fate <- [r \in Records |->
             IF row[r].published THEN "published"
             ELSE IF row[r].dead THEN "dead"
             ELSE IF row[r].exists THEN "pending" ELSE "absent"]

ContractSpec == Contract!Spec

=============================================================================
