------------------------- MODULE OutboxWorkerProofs -------------------------
(***************************************************************************)
(* Theorems about OutboxWorker: claims, success marks and dead letters are *)
(* sound for any number of instances and records and any interleaving with *)
(* crashes and stale locks, and one instance settles every record once.    *)
(***************************************************************************)
EXTENDS OutboxWorker, WellFoundedInduction, TLAPS

-----------------------------------------------------------------------------
(* The order of the records. *)

LEMMA LessIsInRelation ==
  ASSUME NEW x \in Nat, NEW y \in Nat, x < y
  PROVE  <<x, y>> \in OpToRel(<, Nat)
<1> DEFINE p == <<x, y>>
<1>1. p \in Nat \X Nat /\ p[1] < p[2]
  OBVIOUS
<1> HIDE DEF p
<1>2. p \in OpToRel(<, Nat)
  BY <1>1, Zenon DEF OpToRel
<1> QED BY <1>2 DEF p

\* A batch that has records left has a first one among them.
LEMMA FirstIsMember ==
  ASSUME NEW S, S \subseteq Records, S # {}
  PROVE  First(S) \in S
<1>1. S \subseteq Nat
  BY OutboxAssumption
<1>2. PICK x \in S : \A y \in S : ~(<<y, x>> \in OpToRel(<, Nat))
  BY <1>1, NatLessThanWellFounded, WFMin
<1>3. \A y \in S : ~(y < x)
  BY <1>1, <1>2, LessIsInRelation, Zenon
<1>4. \A y \in S : x <= y
  BY <1>1, <1>3
<1> QED BY <1>4 DEF First

-----------------------------------------------------------------------------
(* Types.  The remaining wait is left open: nothing below depends on it. *)

RowShape == [exists    : BOOLEAN,
             published : BOOLEAN,
             dead      : BOOLEAN,
             attempts  : Nat,
             lockedBy  : Workers \cup {None},
             lockAge   : 0..OldestLock,
             wait      : Int]

Shape ==
  /\ row \in [Records -> RowShape]
  /\ worker \in [Workers -> Worker]
  /\ acked \subseteq Records
  /\ failed \in [Records -> Nat]
  /\ stolen \subseteq Records

Inductive == Shape /\ IndInv

\* An instance that works on a record works on a record of the table.
LEMMA CurrentRecord ==
  ASSUME Inductive, NEW w \in Workers, worker[w].pc \in InFlight
  PROVE  worker[w].current \in Records
BY DEF Inductive, Shape, IndInv, BatchKnows, Worker

\* Replacing one batch or one row by another of its type keeps all types.
LEMMA BatchReplaced ==
  ASSUME Shape, NEW w \in Workers, NEW b \in Worker,
         worker' = [worker EXCEPT ![w] = b]
  PROVE  /\ worker' \in [Workers -> Worker]
         /\ worker'[w] = b
         /\ \A v \in Workers \ {w} : worker'[v] = worker[v]
BY DEF Shape

LEMMA RowReplaced ==
  ASSUME Shape, NEW r \in Records, NEW new \in RowShape,
         row' = [row EXCEPT ![r] = new]
  PROVE  /\ row' \in [Records -> RowShape]
         /\ row'[r] = new
         /\ \A q \in Records \ {r} : row'[q] = row[q]
BY DEF Shape

\* An instance between two records knows nothing that could be wrong.
LEMMA NothingInFlight ==
  ASSUME NEW w \in Workers, worker[w].pc \notin InFlight, worker[w].current = None
  PROVE  BatchKnows(w)
BY DEF BatchKnows, InFlight

\* What another instance knows survives a step that does not touch its batch,
\* the lock of its record, or the history of it.
LEMMA OthersKnow ==
  ASSUME Inductive, NEW v \in Workers, BatchKnows(v),
         worker'[v] = worker[v], acked \subseteq acked', stolen \subseteq stolen',
         \A r \in Records : failed[r] <= failed'[r],
         failed' \in [Records -> Nat],
         \A r \in Records : /\ row[r].lockedBy = v
                            /\ worker[v].pc \in InFlight /\ worker[v].current = r
                            => row'[r].lockedBy = v \/ r \in stolen'
  PROVE  BatchKnows(v)'
<1>1. worker[v].pc \in InFlight => worker[v].current \in Records
  BY CurrentRecord
<1>2. worker[v] \in Worker
  BY DEF Inductive, Shape
<1>3. CASE worker[v].pc \in InFlight
  BY <1>1, <1>2, <1>3 DEF BatchKnows, Inductive, Shape, Worker, InFlight
<1>4. CASE worker[v].pc \notin InFlight
  BY <1>4 DEF BatchKnows, InFlight
<1> QED BY <1>3, <1>4

LEMMA InitInductive == Init => Inductive
<1> SUFFICES ASSUME Init PROVE Inductive
  OBVIOUS
<1> USE DEF Init
<1>1. Shape
  BY OutboxAssumption DEF Shape, RowShape, Worker, IdleWorker, OldestLock
<1>2. ASSUME NEW w \in Workers PROVE BatchKnows(w)
  BY NothingInFlight DEF IdleWorker, InFlight
<1>3. ASSUME NEW r \in Records PROVE RowJustified(r)
  BY DEF RowJustified
<1> QED BY <1>1, <1>2, <1>3 DEF Inductive, IndInv

-----------------------------------------------------------------------------
(* Steps that leave the batches, or the table, alone. *)

\* A row that only changes what nobody reasons about stays justified.
LEMMA RowsStayJustified ==
  ASSUME Inductive, acked \subseteq acked',
         failed' \in [Records -> Nat],
         \A r \in Records : failed[r] <= failed'[r],
         \A r \in Records : /\ row'[r].attempts = row[r].attempts
                            /\ row'[r].published = row[r].published
                            /\ row'[r].dead = row[r].dead
  PROVE  \A r \in Records : RowJustified(r)'
<1> SUFFICES ASSUME NEW r \in Records PROVE RowJustified(r)'
  OBVIOUS
<1>1. RowJustified(r)
  BY DEF Inductive, IndInv
<1>2. failed[r] <= failed'[r] /\ failed[r] \in Nat /\ failed'[r] \in Nat
      /\ row[r].attempts \in Nat
  BY DEF Inductive, Shape, RowShape
<1> QED BY <1>1, <1>2, OutboxAssumption DEF RowJustified

\* A step of w that changes only its batch, and leaves it between two records.
LEMMA BatchOnly ==
  ASSUME Inductive, NEW w \in Workers, NEW b \in Worker,
         b.pc \notin InFlight, b.current = None,
         worker' = [worker EXCEPT ![w] = b],
         UNCHANGED <<row, acked, failed, stolen>>
  PROVE  Inductive'
<1>1. Shape'
  BY BatchReplaced DEF Inductive, Shape
<1>2. worker'[w] = b
  BY BatchReplaced DEF Inductive
<1>3. ASSUME NEW v \in Workers PROVE BatchKnows(v)'
  <2>1. CASE v = w
    BY <1>2, <2>1 DEF BatchKnows, InFlight
  <2>2. CASE v # w
    <3>1. worker'[v] = worker[v]
      BY <2>2, BatchReplaced DEF Inductive
    <3> QED BY <3>1 DEF Inductive, IndInv, BatchKnows
  <2> QED BY <2>1, <2>2
<1>4. \A r \in Records : RowJustified(r)'
  BY DEF Inductive, IndInv, RowJustified
<1> QED BY <1>1, <1>3, <1>4 DEF Inductive, IndInv

LEMMA EnqueueFactKeeps ==
  ASSUME Inductive, NEW r \in Records, EnqueueFact(r)
  PROVE  Inductive'
<1> DEFINE new == [row[r] EXCEPT !.exists = TRUE]
<1>1. new \in RowShape /\ row' = [row EXCEPT ![r] = new]
  BY DEF EnqueueFact, Inductive, Shape, RowShape
<1>2. \A q \in Records : /\ row'[q].lockedBy = row[q].lockedBy
                         /\ row'[q].attempts = row[q].attempts
                         /\ row'[q].published = row[q].published
                         /\ row'[q].dead = row[q].dead
  BY DEF EnqueueFact, Inductive, Shape, RowShape
<1> HIDE DEF new
<1>3. Shape'
  BY <1>1, RowReplaced DEF EnqueueFact, Inductive, Shape
<1>4. ASSUME NEW w \in Workers PROVE BatchKnows(w)'
  BY <1>2, OthersKnow DEF EnqueueFact, Inductive, IndInv, Shape
<1>5. \A q \in Records : RowJustified(q)'
  BY <1>2, RowsStayJustified DEF EnqueueFact, Inductive, Shape
<1> QED BY <1>3, <1>4, <1>5 DEF Inductive, IndInv

\* Time changes ages and waits, and nothing that a batch relies on.
LEMMA TickKeeps ==
  ASSUME Inductive, Tick
  PROVE  Inductive'
<1>1. ASSUME NEW r \in Records
      PROVE  /\ row'[r] \in RowShape
             /\ row'[r].lockedBy = row[r].lockedBy
             /\ row'[r].attempts = row[r].attempts
             /\ row'[r].published = row[r].published
             /\ row'[r].dead = row[r].dead
  <2> DEFINE age == IF row[r].lockedBy = None THEN 0
                    ELSE Smaller(OldestLock, row[r].lockAge + 1)
             wait == IF row[r].wait = 0 THEN 0 ELSE row[r].wait - 1
  <2>1. row[r] \in RowShape
    BY DEF Inductive, Shape
  <2>2. age \in 0..OldestLock /\ wait \in Int
    BY <2>1, OutboxAssumption DEF RowShape, Smaller, OldestLock
  <2>3. row'[r] = [row[r] EXCEPT !.lockAge = age, !.wait = wait]
    BY <2>1 DEF Tick, RowShape
  <2> HIDE DEF age, wait
  <2> QED BY <2>1, <2>2, <2>3 DEF RowShape
<1>2. ASSUME NEW w \in Workers
      PROVE  /\ worker'[w] \in Worker
             /\ worker'[w].pc = worker[w].pc
             /\ worker'[w].current = worker[w].current
             /\ worker'[w].attempts = worker[w].attempts
  <2> DEFINE age == IF worker[w].pc = "claiming" THEN worker[w].age + 1
                                                 ELSE worker[w].age
  <2>1. /\ worker[w] \in Worker
        /\ worker[w].pc = "claiming" => worker[w].age < MaxClaimAge
    BY DEF Inductive, Shape, Tick
  <2>2. age \in 0..MaxClaimAge
    BY <2>1, OutboxAssumption DEF Worker
  <2>3. worker'[w] = [worker[w] EXCEPT !.age = age]
    BY <2>1 DEF Tick, Worker
  <2> HIDE DEF age
  <2> QED BY <2>1, <2>2, <2>3 DEF Worker
<1>3. Shape'
  <2>1. row' \in [Records -> RowShape]
    BY <1>1 DEF Tick
  <2>2. worker' \in [Workers -> Worker]
    BY <1>2 DEF Tick
  <2> QED BY <2>1, <2>2 DEF Tick, Inductive, Shape
<1>4. ASSUME NEW w \in Workers PROVE BatchKnows(w)'
  <2>1. BatchKnows(w)
    BY DEF Inductive, IndInv
  <2>2. worker[w].pc \in InFlight => worker[w].current \in Records
    BY CurrentRecord
  <2>3. UNCHANGED <<acked, failed, stolen>>
    BY DEF Tick
  <2> QED BY <1>1, <1>2, <2>1, <2>2, <2>3 DEF BatchKnows, InFlight
<1>5. \A r \in Records : RowJustified(r)'
  <2>1. acked' = acked /\ failed' = failed /\ failed \in [Records -> Nat]
    BY DEF Tick, Inductive, Shape
  <2>2. \A r \in Records : failed[r] <= failed'[r]
    BY <2>1
  <2> QED BY <1>1, <2>1, <2>2, RowsStayJustified
<1> QED BY <1>3, <1>4, <1>5 DEF Inductive, IndInv

\* A crash loses the batch and all it knew; locks and rows stay.
LEMMA AbortKeeps ==
  ASSUME Inductive, NEW w \in Workers, Abort(w)
  PROVE  Inductive'
<1>1. IdleWorker \in Worker /\ IdleWorker.pc \notin InFlight
      /\ IdleWorker.current = None
  BY OutboxAssumption DEF IdleWorker, Worker, InFlight
<1> QED BY <1>1, BatchOnly DEF Abort

-----------------------------------------------------------------------------
(* Steps of a batch. *)

LEMMA FreshBatch ==
  ASSUME NEW S, S \subseteq Records,
         NEW b, b = [IdleWorker EXCEPT !.pc = "claiming", !.todo = S]
  PROVE  b \in Worker /\ b.pc = "claiming" /\ b.current = None
<1>1. IdleWorker \in Worker /\ IdleWorker.current = None
  BY OutboxAssumption DEF IdleWorker, Worker
<1> QED BY <1>1 DEF Worker

LEMMA StartBatchKeeps ==
  ASSUME Inductive, NEW w \in Workers, StartBatch(w)
  PROVE  Inductive'
<1> DEFINE S == Oldest(Candidates, BatchSize)
           b == [IdleWorker EXCEPT !.pc = "claiming", !.todo = S]
<1>1. S \subseteq Records
  BY DEF Oldest, Candidates
<1>2. worker' = [worker EXCEPT ![w] = b]
      /\ UNCHANGED <<row, acked, failed, stolen>>
  BY DEF StartBatch
<1> HIDE DEF S
<1>3. b \in Worker /\ b.pc = "claiming" /\ b.current = None
  BY <1>1, FreshBatch
<1> HIDE DEF b
<1> QED BY <1>2, <1>3, BatchOnly DEF InFlight

LEMMA EndClaimKeeps ==
  ASSUME Inductive, NEW w \in Workers, EndClaim(w)
  PROVE  Inductive'
<1> DEFINE b == [worker[w] EXCEPT !.pc = "publishing"]
<1>1. worker[w] \in Worker /\ worker[w].current = None
  BY DEF EndClaim, Inductive, Shape, IndInv, BatchKnows, InFlight
<1>2. b \in Worker /\ b.pc = "publishing" /\ b.current = None
  BY <1>1 DEF Worker
<1>3. worker' = [worker EXCEPT ![w] = b]
      /\ UNCHANGED <<row, acked, failed, stolen>>
  BY DEF EndClaim
<1> HIDE DEF b
<1> QED BY <1>2, <1>3, BatchOnly DEF InFlight

LEMMA EndBatchKeeps ==
  ASSUME Inductive, NEW w \in Workers, EndBatch(w)
  PROVE  Inductive'
<1>1. IdleWorker \in Worker /\ IdleWorker.pc \notin InFlight
      /\ IdleWorker.current = None
  BY OutboxAssumption DEF IdleWorker, Worker, InFlight
<1> QED BY <1>1, BatchOnly DEF EndBatch

\* A claim takes a lock nobody holds, or writes the takeover into the history;
\* the instance that lost its lock may then believe what it likes.
LEMMA ClaimNextKeeps ==
  ASSUME Inductive, NEW w \in Workers, ClaimNext(w)
  PROVE  Inductive'
<1> DEFINE r == First(worker[w].todo)
           won == Lockable(r, worker[w].age)
           b == [worker[w] EXCEPT !.todo = @ \ {r},
                                  !.claimed = IF won THEN @ \cup {r} ELSE @]
           new == [row[r] EXCEPT !.lockedBy = w, !.lockAge = worker[w].age]
<1>1. worker[w] \in Worker /\ worker[w].pc = "claiming" /\ worker[w].todo # {}
      /\ worker[w].current = None
  BY DEF ClaimNext, Inductive, Shape, IndInv, BatchKnows, InFlight
<1>2. r \in Records
  BY <1>1, FirstIsMember DEF Worker
<1>3. /\ worker' = [worker EXCEPT ![w] = b]
      /\ row' = IF won THEN [row EXCEPT ![r] = new] ELSE row
      /\ stolen' = IF won /\ row[r].lockAge > worker[w].age + StaleLock
                     THEN stolen \cup {r} ELSE stolen
      /\ UNCHANGED <<acked, failed>>
  BY <1>1, <1>2 DEF ClaimNext, Inductive, Shape, RowShape, Worker
<1>4. won => \/ row[r].lockedBy = None
             \/ row[r].lockAge > worker[w].age + StaleLock
  BY DEF Lockable
<1>5. b \in Worker /\ b.pc = "claiming" /\ b.current = None
  BY <1>1, <1>2 DEF Worker
<1>6. /\ new \in RowShape
      /\ new.attempts = row[r].attempts
      /\ new.published = row[r].published
      /\ new.dead = row[r].dead
  <2>1. worker[w].age \in 0..OldestLock
    BY <1>1, OutboxAssumption DEF Worker, OldestLock
  <2>2. row[r] \in RowShape
    BY <1>2 DEF Inductive, Shape
  <2> QED BY <2>1, <2>2 DEF RowShape
<1> HIDE DEF b, new, won, r
<1>7. /\ worker' \in [Workers -> Worker]
      /\ worker'[w] = b
      /\ \A v \in Workers \ {w} : worker'[v] = worker[v]
  BY <1>3, <1>5, BatchReplaced DEF Inductive
<1>8. /\ row' \in [Records -> RowShape]
      /\ \A q \in Records \ {r} : row'[q] = row[q]
      /\ ~won => row' = row
      /\ won => row'[r] = new
  BY <1>2, <1>3, <1>6, RowReplaced DEF Inductive, Shape
<1>9. Shape'
  BY <1>2, <1>3, <1>7, <1>8 DEF Inductive, Shape
<1>10. ASSUME NEW v \in Workers PROVE BatchKnows(v)'
  <2>1. CASE v = w
    BY <1>5, <1>7, <2>1 DEF BatchKnows, InFlight
  <2>2. CASE v # w
    <3>1. worker'[v] = worker[v] /\ v # None
      BY <1>7, <2>2, OutboxAssumption
    <3>2. ASSUME NEW q \in Records, row[q].lockedBy = v
          PROVE  row'[q].lockedBy = v \/ q \in stolen'
      BY <1>3, <1>4, <1>8, <3>1, <3>2
    <3>3. /\ acked' = acked /\ failed' = failed /\ stolen \subseteq stolen'
          /\ failed \in [Records -> Nat]
      BY <1>3 DEF Inductive, Shape
    <3>4. \A q \in Records : failed[q] <= failed'[q]
      BY <3>3
    <3>5. BatchKnows(v)
      BY DEF Inductive, IndInv
    <3> QED BY <3>1, <3>2, <3>3, <3>4, <3>5, OthersKnow
  <2> QED BY <2>1, <2>2
<1>11. \A q \in Records : RowJustified(q)'
  <2>1. acked' = acked /\ failed' = failed /\ failed \in [Records -> Nat]
    BY <1>3 DEF Inductive, Shape
  <2>2. \A q \in Records : failed[q] <= failed'[q]
    BY <2>1
  <2>3. \A q \in Records : /\ row'[q].attempts = row[q].attempts
                           /\ row'[q].published = row[q].published
                           /\ row'[q].dead = row[q].dead
    BY <1>6, <1>8
  <2> QED BY <2>1, <2>2, <2>3, RowsStayJustified
<1> QED BY <1>9, <1>10, <1>11 DEF Inductive, IndInv

\* Reading a record whose lock changed hands skips it; the other way the lock and
\* the attempts are what the row says.
LEMMA ReadRecordKeeps ==
  ASSUME Inductive, NEW w \in Workers, ReadRecord(w)
  PROVE  Inductive'
<1> DEFINE r == First(worker[w].claimed)
<1>1. worker[w] \in Worker /\ worker[w].pc = "publishing"
      /\ worker[w].claimed # {} /\ worker[w].current = None
  BY DEF ReadRecord, Inductive, Shape, IndInv, BatchKnows, InFlight
<1>2. r \in Records
  BY <1>1, FirstIsMember DEF Worker
<1>3. UNCHANGED <<row, acked, failed, stolen>>
  BY DEF ReadRecord
<1>4. CASE row[r].lockedBy # w
  <2> DEFINE b == [worker[w] EXCEPT !.claimed = @ \ {r}]
  <2>1. worker' = [worker EXCEPT ![w] = b]
    BY <1>4 DEF ReadRecord
  <2>2. b \in Worker /\ b.pc = "publishing" /\ b.current = None
    BY <1>1 DEF Worker
  <2> HIDE DEF b, r
  <2> QED BY <1>3, <2>1, <2>2, BatchOnly DEF InFlight
<1>5. CASE row[r].lockedBy = w
  <2> DEFINE b == [worker[w] EXCEPT !.pc = "sending", !.claimed = @ \ {r},
                                    !.current = r, !.attempts = row[r].attempts]
  <2>1. worker' = [worker EXCEPT ![w] = b]
    BY <1>5 DEF ReadRecord
  <2>2. row[r] \in RowShape /\ row[r].attempts <= failed[r] /\ r # None
    BY <1>2, OutboxAssumption DEF Inductive, Shape, IndInv, RowJustified
  <2>3. /\ b \in Worker
        /\ b.pc = "sending" /\ b.current = r /\ b.attempts = row[r].attempts
    BY <1>1, <1>2, <2>2 DEF Worker, RowShape, InFlight
  <2> HIDE DEF b, r
  <2>4. Shape'
    BY <1>3, <2>1, <2>3, BatchReplaced DEF Inductive, Shape
  <2>5. ASSUME NEW v \in Workers PROVE BatchKnows(v)'
    <3>1. CASE v = w
      <4>1. worker'[v] = b
        BY <2>1, <2>3, <3>1, BatchReplaced DEF Inductive
      <4> QED BY <1>3, <1>5, <2>2, <2>3, <3>1, <4>1 DEF BatchKnows, InFlight
    <3>2. CASE v # w
      <4>1. worker'[v] = worker[v]
        BY <2>1, <2>3, <3>2, BatchReplaced DEF Inductive
      <4> QED BY <1>3, <4>1 DEF Inductive, IndInv, BatchKnows
    <3> QED BY <3>1, <3>2
  <2>6. \A q \in Records : RowJustified(q)'
    BY <1>3 DEF Inductive, IndInv, RowJustified
  <2> QED BY <2>4, <2>5, <2>6 DEF Inductive, IndInv
<1> QED BY <1>4, <1>5

\* A step of w that ends or continues its current record leaves the table alone.
LEMMA SendKeeps ==
  ASSUME Inductive, NEW w \in Workers, NEW b \in Worker,
         worker' = [worker EXCEPT ![w] = b],
         worker[w].pc = "sending",
         b.pc \in {"marking", "releasing"},
         b.current = worker[w].current, b.attempts = worker[w].attempts,
         b.pc = "marking" => b.current \in acked',
         b.pc = "releasing" => failed[b.current] < failed'[b.current],
         acked \subseteq acked', acked' \subseteq Records,
         failed' \in [Records -> Nat],
         \A r \in Records : failed[r] <= failed'[r],
         UNCHANGED <<row, stolen>>
  PROVE  Inductive'
<1>1. Shape'
  BY BatchReplaced DEF Inductive, Shape
<1>2. ASSUME NEW v \in Workers PROVE BatchKnows(v)'
  <2>1. BatchKnows(v)
    BY DEF Inductive, IndInv
  <2>2. CASE v = w
    <3>1. worker'[v] = b
      BY <2>2, BatchReplaced DEF Inductive
    <3>2. worker[w].current \in Records /\ worker[w] \in Worker
      BY CurrentRecord DEF InFlight, Inductive, Shape
    <3>3. /\ worker[w].attempts <= failed[worker[w].current]
          /\ failed[worker[w].current] \in Nat
          /\ failed'[worker[w].current] \in Nat
          /\ worker[w].attempts \in Nat
      BY <2>1, <2>2, <3>2 DEF BatchKnows, Worker, Inductive, Shape
    <3> QED BY <2>1, <2>2, <3>1, <3>2, <3>3, OutboxAssumption DEF BatchKnows, InFlight
  <2>3. CASE v # w
    <3>1. worker'[v] = worker[v]
      BY <2>3, BatchReplaced DEF Inductive
    <3> QED BY <2>1, <3>1, OthersKnow
  <2> QED BY <2>2, <2>3
<1>3. \A r \in Records : RowJustified(r)'
  BY RowsStayJustified
<1> QED BY <1>1, <1>2, <1>3 DEF Inductive, IndInv

LEMMA SendSucceedsKeeps ==
  ASSUME Inductive, NEW w \in Workers, SendSucceeds(w)
  PROVE  Inductive'
<1> DEFINE b == [worker[w] EXCEPT !.pc = "marking"]
<1>1. worker[w].current \in Records /\ worker[w].pc = "sending"
  BY CurrentRecord DEF SendSucceeds, InFlight
<1>2. /\ b \in Worker /\ b.pc = "marking"
      /\ b.current = worker[w].current /\ b.attempts = worker[w].attempts
  BY DEF Inductive, Shape, Worker, InFlight
<1>3. /\ worker' = [worker EXCEPT ![w] = b]
      /\ acked' = acked \cup {worker[w].current}
      /\ UNCHANGED <<row, failed, stolen>>
  BY DEF SendSucceeds
<1>4. failed' \in [Records -> Nat] /\ acked' \subseteq Records
  BY <1>1, <1>3 DEF Inductive, Shape
<1>5. \A r \in Records : failed[r] <= failed'[r]
  BY <1>3, <1>4
<1> HIDE DEF b
<1> QED BY <1>1, <1>2, <1>3, <1>4, <1>5, SendKeeps

LEMMA SendFailsKeeps ==
  ASSUME Inductive, NEW w \in Workers, SendFails(w)
  PROVE  Inductive'
<1> DEFINE b == [worker[w] EXCEPT !.pc = "releasing"]
<1>1. worker[w].current \in Records /\ worker[w].pc = "sending"
  BY CurrentRecord DEF SendFails, InFlight
<1>2. /\ b \in Worker /\ b.pc = "releasing"
      /\ b.current = worker[w].current /\ b.attempts = worker[w].attempts
  BY DEF Inductive, Shape, Worker, InFlight
<1>3. /\ worker' = [worker EXCEPT ![w] = b]
      /\ failed' = [failed EXCEPT ![worker[w].current] = @ + 1]
      /\ UNCHANGED <<row, acked, stolen>>
  BY DEF SendFails
<1>4. /\ failed' \in [Records -> Nat]
      /\ failed[worker[w].current] < failed'[worker[w].current]
      /\ \A r \in Records : failed[r] <= failed'[r]
  BY <1>1, <1>3 DEF Inductive, Shape
<1>5. acked' \subseteq Records
  BY <1>3 DEF Inductive, Shape
<1> HIDE DEF b
<1> QED BY <1>1, <1>2, <1>3, <1>4, <1>5, SendKeeps

\* Writing the outcome of the current record releases its lock.  Whoever else
\* works on it took the lock over, or lost it to a takeover.
LEMMA SettleKeeps ==
  ASSUME Inductive, NEW w \in Workers, worker[w].pc \in InFlight,
         NEW r \in Records, r = worker[w].current,
         NEW new \in RowShape,
         new.attempts <= failed[r],
         new.published => r \in acked,
         new.dead => failed[r] >= MaxRetries,
         row' = [row EXCEPT ![r] = new],
         NextRecord(w),
         UNCHANGED <<acked, failed, stolen>>
  PROVE  Inductive'
<1> DEFINE b == [worker[w] EXCEPT !.pc = "publishing", !.current = None,
                                  !.attempts = 0]
<1>1. b \in Worker /\ b.pc = "publishing" /\ b.current = None
  BY DEF Inductive, Shape, Worker, InFlight
<1>2. worker' = [worker EXCEPT ![w] = b]
  BY DEF NextRecord
<1> HIDE DEF b
<1>3. /\ worker' \in [Workers -> Worker]
      /\ worker'[w] = b
      /\ \A v \in Workers \ {w} : worker'[v] = worker[v]
  BY <1>1, <1>2, BatchReplaced DEF Inductive
<1>4. /\ row' \in [Records -> RowShape]
      /\ row'[r] = new
      /\ \A q \in Records \ {r} : row'[q] = row[q]
  BY RowReplaced DEF Inductive
<1>5. Shape'
  BY <1>3, <1>4 DEF Inductive, Shape
<1>6. ASSUME NEW v \in Workers PROVE BatchKnows(v)'
  <2>1. CASE v = w
    BY <1>1, <1>3, <2>1 DEF BatchKnows, InFlight
  <2>2. CASE v # w
    <3>1. worker'[v] = worker[v] /\ BatchKnows(v)
      BY <1>3, <2>2 DEF Inductive, IndInv
    <3>2. worker[v].pc \in InFlight /\ worker[v].current = r => r \in stolen
      BY <2>2 DEF Inductive, IndInv, BatchKnows
    <3>3. \A q \in Records : failed[q] <= failed'[q]
      BY DEF Inductive, Shape
    <3>4. failed' \in [Records -> Nat]
      BY DEF Inductive, Shape
    <3> QED BY <1>4, <3>1, <3>2, <3>3, <3>4, OthersKnow
  <2> QED BY <2>1, <2>2
<1>7. ASSUME NEW q \in Records PROVE RowJustified(q)'
  <2>1. CASE q = r
    BY <1>4, <2>1 DEF RowJustified
  <2>2. CASE q # r
    BY <1>4, <2>2 DEF RowJustified, Inductive, IndInv
  <2> QED BY <2>1, <2>2
<1> QED BY <1>5, <1>6, <1>7 DEF Inductive, IndInv

LEMMA MarkPublishedKeeps ==
  ASSUME Inductive, NEW w \in Workers, MarkPublished(w)
  PROVE  Inductive'
<1> DEFINE r == worker[w].current
           new == [row[r] EXCEPT !.published = TRUE, !.lockedBy = None, !.lockAge = 0]
<1>1. worker[w].pc = "marking" /\ worker[w].pc \in InFlight /\ r \in Records
  BY CurrentRecord DEF MarkPublished, InFlight
<1>2. row[r] \in RowShape /\ r \in acked /\ RowJustified(r)
  BY <1>1 DEF Inductive, Shape, IndInv, BatchKnows
<1>3. /\ new \in RowShape
      /\ new.attempts = row[r].attempts /\ new.dead = row[r].dead
  <2>1. row[r] \in RowShape /\ 0 \in 0..OldestLock
    BY <1>2, OutboxAssumption DEF OldestLock
  <2> QED BY <2>1 DEF RowShape
<1>4. row' = [row EXCEPT ![r] = new] /\ NextRecord(w)
      /\ UNCHANGED <<acked, failed, stolen>>
  BY DEF MarkPublished
<1> HIDE DEF new, r
<1>5. new.attempts <= failed[r] /\ (new.dead => failed[r] >= MaxRetries)
  BY <1>2, <1>3 DEF RowJustified
<1> QED BY <1>1, <1>2, <1>3, <1>4, <1>5, SettleKeeps DEF r

\* All that the provers know of a power; the ceiling does the rest.
LEMMA PowerIsInteger == ASSUME NEW n \in Nat PROVE 2 ^ n \in Int
OBVIOUS

\* The attempts written are those read plus the failure just seen, and the
\* record had failed that often when it was read.
LEMMA ReleaseWithFailureKeeps ==
  ASSUME Inductive, NEW w \in Workers, ReleaseWithFailure(w)
  PROVE  Inductive'
<1> DEFINE r == worker[w].current
           attempts == worker[w].attempts + 1
           dead == GivenUp(attempts)
           wait == IF dead THEN row[r].wait ELSE Backoff(attempts)
           new == [row[r] EXCEPT !.attempts = attempts, !.lockedBy = None,
                                 !.lockAge = 0, !.dead = @ \/ dead,
                                 !.wait = wait]
<1>1. worker[w].pc = "releasing" /\ worker[w].pc \in InFlight /\ r \in Records
  BY CurrentRecord DEF ReleaseWithFailure, InFlight
<1>2. row[r] \in RowShape /\ RowJustified(r) /\ worker[w] \in Worker
      /\ failed[r] \in Nat /\ worker[w].attempts < failed[r]
  BY <1>1 DEF Inductive, Shape, IndInv, BatchKnows
<1>3. attempts \in Nat /\ attempts <= failed[r] /\ dead \in BOOLEAN
      /\ (dead => failed[r] >= MaxRetries)
  BY <1>2, OutboxAssumption DEF Worker, GivenUp
<1>4. wait \in Int
  <2>1. row[r].wait \in Int
    BY <1>2 DEF RowShape
  <2>2. Backoff(attempts) \in Int
    <3> HIDE DEF attempts
    <3>1. 2 ^ attempts \in Int
      BY <1>3, PowerIsInteger
    <3>2. MaxBackoff \in Int
      BY OutboxAssumption
    <3> QED BY <3>1, <3>2, Zenon DEF Backoff, Smaller
  <2> QED BY <2>1, <2>2
<1>5. row' = [row EXCEPT ![r] = new] /\ NextRecord(w)
      /\ UNCHANGED <<acked, failed, stolen>>
  BY DEF ReleaseWithFailure
<1> HIDE DEF wait, dead, attempts
<1>6. /\ new \in RowShape
      /\ new.attempts = attempts /\ new.published = row[r].published
      /\ new.dead = (row[r].dead \/ dead)
  <2>1. row[r] \in RowShape /\ 0 \in 0..OldestLock /\ dead \in BOOLEAN
        /\ attempts \in Nat /\ wait \in Int
    BY <1>2, <1>3, <1>4, OutboxAssumption DEF OldestLock
  <2>2. (row[r].dead \/ dead) \in BOOLEAN
    OBVIOUS
  <2> QED BY <2>1, <2>2 DEF RowShape
<1> HIDE DEF new, r
<1>7. /\ new.attempts <= failed[r]
      /\ new.published => r \in acked
      /\ new.dead => failed[r] >= MaxRetries
  BY <1>2, <1>3, <1>6 DEF RowJustified
<1> QED BY <1>1, <1>5, <1>6, <1>7, SettleKeeps DEF r

-----------------------------------------------------------------------------
(* Theorems *)

LEMMA NextInductive == Inductive /\ [Next]_vars => Inductive'
<1> SUFFICES ASSUME Inductive, [Next]_vars PROVE Inductive'
  OBVIOUS
<1>1. CASE UNCHANGED vars
  BY <1>1 DEF vars, Inductive, Shape, IndInv, BatchKnows, RowJustified
<1>2. ASSUME NEW r \in Records, EnqueueFact(r) PROVE Inductive'
  BY <1>2, EnqueueFactKeeps
<1>3. ASSUME NEW w \in Workers, Abort(w) PROVE Inductive'
  BY <1>3, AbortKeeps
<1>4. ASSUME NEW w \in Workers, BatchStep(w) PROVE Inductive'
  BY <1>4, StartBatchKeeps, ClaimNextKeeps, EndClaimKeeps, ReadRecordKeeps,
     EndBatchKeeps, SendSucceedsKeeps, SendFailsKeeps, MarkPublishedKeeps,
     ReleaseWithFailureKeeps DEF BatchStep
<1> QED BY <1>1, <1>2, <1>3, <1>4, TickKeeps DEF Next

LEMMA AlwaysInductive == Spec => []Inductive
BY InitInductive, NextInductive, PTL DEF Spec

\* Whatever the instances do to each other, a batch in flight and the columns of
\* a row are backed by what the broker answered (claim, publish and
\* releaseWithFailure of analytics-outbox.worker.ts).
THEOREM OutboxInvariance == Spec => []IndInv
BY AlwaysInductive, PTL DEF Inductive

\* publishedAt is written only after the broker acknowledged the message.
THEOREM PublishedTheorem == Spec => []PublishedMeansAcked
<1>1. IndInv => PublishedMeansAcked
  BY DEF IndInv, RowJustified, PublishedMeansAcked
<1> QED BY <1>1, OutboxInvariance, PTL

\* deadLetteredAt is written only after MAX_RETRIES failures of that record.
THEOREM DeadLetterTheorem == Spec => []DeadLetterEarned
<1>1. IndInv => DeadLetterEarned
  BY DEF IndInv, RowJustified, DeadLetterEarned
<1> QED BY <1>1, OutboxInvariance, PTL

\* Two instances send the same record only after a takeover of a stale lock.
THEOREM ClaimTheorem == Spec => []ClaimExclusive
<1>1. IndInv => ClaimExclusive
  BY DEF IndInv, BatchKnows, ClaimExclusive
<1> QED BY <1>1, OutboxInvariance, PTL

-----------------------------------------------------------------------------
(* One instance. *)

OneInstance == \A v, w \in Workers : v = w

Unsettled(r) == row[r].exists /\ ~row[r].published /\ ~row[r].dead

LEMMA InitBatchUnsettled == Init => BatchUnsettled
BY OutboxAssumption DEF Init, BatchUnsettled, IdleWorker

\* The batch after a step, written for the only instance: no row it holds becomes
\* settled, and what it holds was in hand or a candidate before.
LEMMA BatchStaysUnsettled ==
  ASSUME OneInstance, NEW w \in Workers, NEW b,
         Shape, worker' = [worker EXCEPT ![w] = b],
         b.todo \cap b.claimed = {},
         b.current \notin b.todo \cup b.claimed,
         \A r \in Records : r \in b.todo \cup b.claimed \/ r = b.current
                            => Unsettled(r)'
  PROVE  BatchUnsettled'
<1>1. worker'[w] = b
  BY DEF Shape
<1> SUFFICES ASSUME NEW v \in Workers
             PROVE  /\ worker'[v].todo \cap worker'[v].claimed = {}
                    /\ worker'[v].current \notin worker'[v].todo \cup worker'[v].claimed
                    /\ \A r \in Records :
                         r \in worker'[v].todo \cup worker'[v].claimed
                           \/ r = worker'[v].current
                           => row'[r].exists /\ ~row'[r].published /\ ~row'[r].dead
  BY DEF BatchUnsettled
<1>2. worker'[v] = b
  BY <1>1 DEF OneInstance
<1> QED BY <1>2 DEF Unsettled

\* A step that settles no row and shrinks the batch, or leaves it as it is.
LEMMA NothingSettled ==
  ASSUME Inductive, BatchUnsettled,
         \A r \in Records : Unsettled(r) => Unsettled(r)',
         \A w \in Workers : /\ worker'[w].todo = worker[w].todo
                            /\ worker'[w].claimed = worker[w].claimed
                            /\ worker'[w].current = worker[w].current
  PROVE  BatchUnsettled'
BY DEF BatchUnsettled, Unsettled

LEMMA StepBatchUnsettled ==
  ASSUME OneInstance, Inductive, BatchUnsettled, [Next]_vars
  PROVE  BatchUnsettled'
<1>1. Shape
  BY DEF Inductive
<1>2. ASSUME NEW w \in Workers
      PROVE  /\ worker[w] \in Worker
             /\ worker[w].todo \cap worker[w].claimed = {}
             /\ worker[w].current \notin worker[w].todo \cup worker[w].claimed
             /\ \A r \in Records :
                  r \in worker[w].todo \cup worker[w].claimed \/ r = worker[w].current
                    => Unsettled(r)
  BY <1>1 DEF Shape, BatchUnsettled, Unsettled
<1>3. CASE UNCHANGED vars
  BY <1>3 DEF vars, BatchUnsettled
<1>4. ASSUME NEW r \in Records, EnqueueFact(r) PROVE BatchUnsettled'
  <2>1. \A q \in Records : Unsettled(q) => Unsettled(q)'
    BY <1>1, <1>4 DEF EnqueueFact, Unsettled, Shape, RowShape
  <2> QED BY <1>4, <2>1, NothingSettled DEF EnqueueFact
<1>5. ASSUME Tick PROVE BatchUnsettled'
  <2>1. \A q \in Records : Unsettled(q) => Unsettled(q)'
    BY <1>1, <1>5 DEF Tick, Unsettled, Shape, RowShape
  <2>2. \A w \in Workers : /\ worker'[w].todo = worker[w].todo
                           /\ worker'[w].claimed = worker[w].claimed
                           /\ worker'[w].current = worker[w].current
    BY <1>1, <1>5 DEF Tick, Shape, Worker
  <2> QED BY <2>1, <2>2, NothingSettled
<1>6. ASSUME NEW w \in Workers, Abort(w) \/ EndBatch(w) PROVE BatchUnsettled'
  <2>1. worker' = [worker EXCEPT ![w] = IdleWorker]
    BY <1>6 DEF Abort, EndBatch
  <2>2. /\ IdleWorker.todo = {} /\ IdleWorker.claimed = {}
        /\ IdleWorker.current = None
    BY DEF IdleWorker
  <2> QED BY <1>1, <2>1, <2>2, OutboxAssumption, BatchStaysUnsettled
<1>7. ASSUME NEW w \in Workers, StartBatch(w) PROVE BatchUnsettled'
  <2> DEFINE S == Oldest(Candidates, BatchSize)
             b == [IdleWorker EXCEPT !.pc = "claiming", !.todo = S]
  <2>1. S \subseteq Records /\ \A r \in S : Unsettled(r)
    BY DEF Oldest, Candidates, Unsettled
  <2>2. worker' = [worker EXCEPT ![w] = b] /\ row' = row
    BY <1>7 DEF StartBatch
  <2> HIDE DEF S
  <2>3. b.todo = S /\ b.claimed = {} /\ b.current = None
    BY DEF IdleWorker
  <2> HIDE DEF b
  <2>4. \A r \in Records : Unsettled(r) => Unsettled(r)'
    BY <2>2 DEF Unsettled
  <2> QED BY <1>1, <2>1, <2>2, <2>3, <2>4, OutboxAssumption, BatchStaysUnsettled
<1>8. ASSUME NEW w \in Workers, ClaimNext(w) PROVE BatchUnsettled'
  <2> DEFINE r == First(worker[w].todo)
             won == Lockable(r, worker[w].age)
             b == [worker[w] EXCEPT !.todo = @ \ {r},
                                    !.claimed = IF won THEN @ \cup {r} ELSE @]
  <2>1. worker[w].todo # {} /\ r \in worker[w].todo /\ r \in Records
    BY <1>2, <1>8, FirstIsMember DEF ClaimNext, Worker
  <2>2. worker' = [worker EXCEPT ![w] = b]
    BY <1>1, <1>8 DEF ClaimNext, Shape, Worker
  <2>3. \A q \in Records : Unsettled(q) => Unsettled(q)'
    BY <1>1, <1>8, <2>1 DEF ClaimNext, Unsettled, Shape, RowShape
  <2>4. /\ b.todo = worker[w].todo \ {r}
        /\ b.claimed \subseteq worker[w].claimed \cup {r}
        /\ b.current = worker[w].current
    BY <1>2 DEF Worker
  <2> HIDE DEF b, won, r
  <2>5. /\ b.todo \cap b.claimed = {}
        /\ b.current \notin b.todo \cup b.claimed
    BY <1>2, <2>1, <2>4
  <2>6. \A q \in Records : q \in b.todo \cup b.claimed \/ q = b.current
                           => Unsettled(q)'
    <3> SUFFICES ASSUME NEW q \in Records,
                        q \in b.todo \cup b.claimed \/ q = b.current
                 PROVE  Unsettled(q)'
      OBVIOUS
    <3>1. q \in worker[w].todo \cup worker[w].claimed \/ q = worker[w].current
      BY <2>1, <2>4
    <3>2. Unsettled(q)
      BY <1>2, <3>1
    <3> QED BY <2>3, <3>2
  <2> QED BY <1>1, <2>2, <2>5, <2>6, BatchStaysUnsettled
<1>9. ASSUME NEW w \in Workers, EndClaim(w) \/ SendSucceeds(w) \/ SendFails(w)
      PROVE  BatchUnsettled'
  <2>1. /\ row' = row
        /\ \A v \in Workers : /\ worker'[v].todo = worker[v].todo
                              /\ worker'[v].claimed = worker[v].claimed
                              /\ worker'[v].current = worker[v].current
    BY <1>1, <1>9 DEF EndClaim, SendSucceeds, SendFails, Shape, Worker
  <2>2. \A q \in Records : Unsettled(q) => Unsettled(q)'
    BY <2>1 DEF Unsettled
  <2> QED BY <2>1, <2>2, NothingSettled
<1>10. ASSUME NEW w \in Workers, ReadRecord(w) PROVE BatchUnsettled'
  <2> DEFINE r == First(worker[w].claimed)
  <2>1. r \in worker[w].claimed /\ r \in Records
    BY <1>2, <1>10, FirstIsMember DEF ReadRecord, Worker
  <2>2. worker[w].current = None
    BY <1>10 DEF ReadRecord, Inductive, IndInv, BatchKnows, InFlight
  <2>3. PICK b : /\ worker' = [worker EXCEPT ![w] = b]
                 /\ b.todo = worker[w].todo
                 /\ b.claimed = worker[w].claimed \ {r}
                 /\ b.current \in {r, None}
    <3>1. CASE row[r].lockedBy = w
      <4> DEFINE b == [worker[w] EXCEPT !.pc = "sending", !.claimed = @ \ {r},
                          !.current = r, !.attempts = row[r].attempts]
      <4>1. worker' = [worker EXCEPT ![w] = b]
        BY <1>10, <3>1 DEF ReadRecord
      <4>2. /\ b.todo = worker[w].todo /\ b.current = r
            /\ b.claimed = worker[w].claimed \ {r}
        BY <1>2 DEF Worker
      <4> HIDE DEF b, r
      <4> QED BY <4>1, <4>2
    <3>2. CASE row[r].lockedBy # w
      <4> DEFINE b == [worker[w] EXCEPT !.claimed = @ \ {r}]
      <4>1. worker' = [worker EXCEPT ![w] = b]
        BY <1>10, <3>2 DEF ReadRecord
      <4>2. /\ b.todo = worker[w].todo /\ b.current = None
            /\ b.claimed = worker[w].claimed \ {r}
        BY <1>2, <2>2 DEF Worker
      <4> HIDE DEF b, r
      <4> QED BY <4>1, <4>2
    <3> QED BY <3>1, <3>2
  <2>4. \A q \in Records : Unsettled(q) => Unsettled(q)'
    BY <1>10 DEF ReadRecord, Unsettled
  <2> HIDE DEF r
  <2>5. worker[w].todo \subseteq Records /\ worker[w].claimed \subseteq Records
    BY <1>2 DEF Worker
  <2>6. /\ b.todo \cap b.claimed = {}
        /\ b.current \notin b.todo \cup b.claimed
    BY <1>2, <2>1, <2>3, <2>5, OutboxAssumption
  <2>7. \A q \in Records : q \in b.todo \cup b.claimed \/ q = b.current
                           => Unsettled(q)'
    BY <1>2, <2>1, <2>3, <2>4, OutboxAssumption
  <2> QED BY <1>1, <2>3, <2>6, <2>7, BatchStaysUnsettled
<1>11. ASSUME NEW w \in Workers, MarkPublished(w) \/ ReleaseWithFailure(w)
       PROVE  BatchUnsettled'
  <2> DEFINE b == [worker[w] EXCEPT !.pc = "publishing", !.current = None,
                                    !.attempts = 0]
  <2>1. worker' = [worker EXCEPT ![w] = b]
    BY <1>11 DEF MarkPublished, ReleaseWithFailure, NextRecord
  <2>2. /\ b.todo = worker[w].todo /\ b.claimed = worker[w].claimed
        /\ b.current = None
    BY <1>2 DEF Worker
  <2>3. \A q \in Records : q # worker[w].current => row'[q] = row[q]
    BY <1>1, <1>11 DEF MarkPublished, ReleaseWithFailure, Shape
  <2> HIDE DEF b
  <2>4. b.todo \subseteq Records /\ b.claimed \subseteq Records
    BY <1>2, <2>2 DEF Worker
  <2>5. \A q \in Records : q \in b.todo \cup b.claimed \/ q = b.current
                           => Unsettled(q)'
    BY <1>2, <2>2, <2>3, OutboxAssumption DEF Unsettled
  <2>6. b.current \notin b.todo \cup b.claimed
    BY <2>2, <2>4, OutboxAssumption
  <2> QED BY <1>1, <1>2, <2>1, <2>2, <2>5, <2>6, BatchStaysUnsettled
<1> QED BY <1>3, <1>4, <1>5, <1>6, <1>7, <1>8, <1>9, <1>10, <1>11
        DEF Next, BatchStep

\* Of the rows, one instance settles only those that are pending: this is a step
\* of the contract, or none.
LEMMA ContractStep ==
  ASSUME OneInstance, Inductive, BatchUnsettled, [Next]_vars
  PROVE  [Contract!Next]_([r \in Records |->
             IF row[r].published THEN "published"
             ELSE IF row[r].dead THEN "dead"
             ELSE IF row[r].exists THEN "pending" ELSE "absent"])
<1> DEFINE Fate(r) == IF row[r].published THEN "published"
                      ELSE IF row[r].dead THEN "dead"
                      ELSE IF row[r].exists THEN "pending" ELSE "absent"
           fate == [r \in Records |-> Fate(r)]
<1>1. Shape
  BY DEF Inductive
<1>2. ASSUME \A r \in Records : /\ row'[r].exists = row[r].exists
                                /\ row'[r].published = row[r].published
                                /\ row'[r].dead = row[r].dead
      PROVE  fate' = fate
  BY <1>2
<1>3. CASE UNCHANGED vars
  BY <1>2, <1>3 DEF vars
<1>4. ASSUME Tick PROVE fate' = fate
  <2>1. \A r \in Records : /\ row'[r].exists = row[r].exists
                           /\ row'[r].published = row[r].published
                           /\ row'[r].dead = row[r].dead
    BY <1>1, <1>4 DEF Tick, Shape, RowShape
  <2> QED BY <1>2, <2>1
<1>5. ASSUME NEW w \in Workers, ClaimNext(w) PROVE fate' = fate
  <2>1. \A r \in Records : /\ row'[r].exists = row[r].exists
                           /\ row'[r].published = row[r].published
                           /\ row'[r].dead = row[r].dead
    BY <1>1, <1>5 DEF ClaimNext, Shape, RowShape
  <2> QED BY <1>2, <2>1
<1>6. ASSUME NEW w \in Workers,
             \/ Abort(w) \/ StartBatch(w) \/ EndClaim(w) \/ ReadRecord(w)
             \/ EndBatch(w) \/ SendSucceeds(w) \/ SendFails(w)
      PROVE  fate' = fate
  <2>1. row' = row
    BY <1>6 DEF Abort, StartBatch, EndClaim, ReadRecord, EndBatch, SendSucceeds,
                SendFails
  <2> QED BY <1>2, <2>1
<1>7. ASSUME NEW r \in Records, EnqueueFact(r)
      PROVE  Contract!Enqueue(r) \/ fate' = fate
  <2>1. \A q \in Records : /\ q # r => row'[q] = row[q]
                           /\ row'[r].exists /\ ~row[r].exists
                           /\ row'[r].published = row[r].published
                           /\ row'[r].dead = row[r].dead
    BY <1>1, <1>7 DEF EnqueueFact, Shape, RowShape
  <2>2. CASE row[r].published \/ row[r].dead
    <3>1. \A q \in Records : Fate(q)' = Fate(q)
      BY <2>1, <2>2
    <3> QED BY <3>1
  <2>3. CASE ~row[r].published /\ ~row[r].dead
    <3>1. \A q \in Records : Fate(q)' = IF q = r THEN "pending" ELSE Fate(q)
      BY <2>1, <2>3
    <3>2. fate[r] = "absent"
      BY <2>1, <2>3
    <3>3. fate' = [fate EXCEPT ![r] = "pending"]
      BY <3>1
    <3> QED BY <3>2, <3>3 DEF Contract!Enqueue
  <2> QED BY <2>2, <2>3
<1>8. ASSUME NEW w \in Workers, MarkPublished(w) \/ ReleaseWithFailure(w)
      PROVE  (\E r \in Records : Contract!Settle(r)) \/ fate' = fate
  <2>1. PICK r \in Records : r = worker[w].current
    BY <1>8, CurrentRecord DEF MarkPublished, ReleaseWithFailure, InFlight
  <2>2. Unsettled(r)
    BY <2>1 DEF BatchUnsettled, Unsettled
  <2>3. /\ \A q \in Records : q # r => row'[q] = row[q]
        /\ row'[r].exists
    <3>1. row \in [Records -> RowShape] /\ row[r].exists
      BY <1>1, <2>2 DEF Shape, Unsettled
    <3>2. CASE MarkPublished(w)
      BY <2>1, <3>1, <3>2 DEF MarkPublished, RowShape
    <3>3. CASE ReleaseWithFailure(w)
      <4> DEFINE attempts == worker[w].attempts + 1
                 dead == GivenUp(attempts)
                 wait == IF dead THEN row[worker[w].current].wait
                                 ELSE Backoff(attempts)
                 new == [row[worker[w].current] EXCEPT
                           !.attempts = attempts, !.lockedBy = None,
                           !.lockAge = 0, !.dead = @ \/ dead, !.wait = wait]
      <4>1. row' = [row EXCEPT ![worker[w].current] = new]
        BY <3>3 DEF ReleaseWithFailure
      <4> HIDE DEF attempts, dead, wait
      <4>2. new.exists = row[r].exists
        BY <2>1, <3>1 DEF RowShape
      <4> HIDE DEF new
      <4> QED BY <2>1, <3>1, <4>1, <4>2
    <3> QED BY <1>8, <3>2, <3>3
  <2>4. \A q \in Records : q # r => Fate(q)' = Fate(q)
    BY <2>3
  <2>5. fate[r] = "pending"
    BY <2>1, <2>2 DEF Unsettled
  <2>6. Fate(r)' \in {"published", "dead", "pending"}
    BY <2>3
  <2>7. fate' = [fate EXCEPT ![r] = Fate(r)']
    BY <2>1, <2>4
  <2>8. CASE Fate(r)' = "pending"
    BY <2>5, <2>7, <2>8
  <2>9. CASE Fate(r)' \in {"published", "dead"}
    BY <2>1, <2>5, <2>7, <2>9 DEF Contract!Settle
  <2> QED BY <2>6, <2>8, <2>9
<1> QED BY <1>3, <1>4, <1>5, <1>6, <1>7, <1>8 DEF Next, BatchStep, Contract!Next

\* A single instance never holds a settled record, so it never sends one again.
THEOREM OneInstanceUnsettled ==
  ASSUME OneInstance
  PROVE  Spec => []BatchUnsettled
<1>1. Inductive /\ BatchUnsettled /\ [Next]_vars => BatchUnsettled'
  BY StepBatchUnsettled
<1> QED BY <1>1, InitBatchUnsettled, AlwaysInductive, PTL DEF Spec

THEOREM NotSentAgainTheorem ==
  ASSUME OneInstance
  PROVE  Spec => SettledNotSentAgain
<1> DEFINE Again == \A w \in Workers :
                      worker[w].pc = "publishing" /\ worker'[w].pc = "sending"
                        => LET r == worker'[w].current
                           IN  ~row[r].published /\ ~row[r].dead
<1>1. Inductive /\ BatchUnsettled /\ [Next]_vars => [Again]_vars
  <2> SUFFICES ASSUME Inductive, BatchUnsettled, Next, NEW w \in Workers,
                      worker[w].pc = "publishing", worker'[w].pc = "sending"
               PROVE  LET r == worker'[w].current
                      IN  ~row[r].published /\ ~row[r].dead
    OBVIOUS
  <2>1. Shape /\ worker[w] \in Worker
    BY DEF Inductive, Shape
  <2>2. ReadRecord(w)
    <3>1. ASSUME NEW r \in Records, EnqueueFact(r) PROVE FALSE
      BY <3>1 DEF EnqueueFact
    <3>2. ASSUME Tick PROVE FALSE
      BY <2>1, <3>2 DEF Tick, Shape, Worker
    <3>3. ASSUME NEW v \in Workers, Abort(v) \/ BatchStep(v) PROVE ReadRecord(w)
      <4>1. v = w
        BY DEF OneInstance
      <4>2. ~(Abort(w) \/ EndBatch(w))
        BY <2>1 DEF Abort, EndBatch, Shape, IdleWorker
      <4>3. ~(\/ StartBatch(w) \/ ClaimNext(w) \/ EndClaim(w) \/ SendSucceeds(w)
              \/ SendFails(w) \/ MarkPublished(w) \/ ReleaseWithFailure(w))
        BY DEF StartBatch, ClaimNext, EndClaim, SendSucceeds, SendFails,
               MarkPublished, ReleaseWithFailure
      <4> QED BY <3>3, <4>1, <4>2, <4>3 DEF BatchStep
    <3> QED BY <3>1, <3>2, <3>3 DEF Next
  <2>3. worker[w].claimed # {} /\ worker[w].claimed \subseteq Records
    BY <2>1, <2>2 DEF ReadRecord, Worker
  <2>4. worker'[w].current = First(worker[w].claimed)
    BY <2>1, <2>2 DEF ReadRecord, Shape, Worker
  <2>5. worker'[w].current \in worker[w].claimed
    BY <2>3, <2>4, FirstIsMember
  <2> QED BY <2>3, <2>5 DEF BatchUnsettled
<1> QED BY <1>1, OneInstanceUnsettled, AlwaysInductive, PTL
        DEF Spec, SettledNotSentAgain

\* One instance settles every fact at most once, crashes included: it implements
\* the safety part of OutboxContract.
THEOREM OneInstanceImplements ==
  ASSUME OneInstance
  PROVE  Spec => Contract!SafeSpec
<1>1. Init => Contract!Init
  BY DEF Init, Contract!Init
<1>2. Inductive /\ BatchUnsettled /\ [Next]_vars
        => [Contract!Next]_([r \in Records |->
             IF row[r].published THEN "published"
             ELSE IF row[r].dead THEN "dead"
             ELSE IF row[r].exists THEN "pending" ELSE "absent"])
  BY ContractStep
<1> QED BY <1>1, <1>2, OneInstanceUnsettled, AlwaysInductive, PTL
        DEF Spec, Contract!SafeSpec
=============================================================================
