--------------------------- MODULE OutboxContract ---------------------------
(***************************************************************************)
(* What the analytics outbox promises: a fact that was enqueued is settled *)
(* once, either published or dead-lettered, it stays settled the way it    *)
(* was, and no fact stays pending for ever.                                *)
(***************************************************************************)
CONSTANT Records

VARIABLE fate \* fate[r]: where the fact r stands

Fates == {"absent", "pending", "published", "dead"}

Init == fate = [r \in Records |-> "absent"]

Enqueue(r) ==
  /\ fate[r] = "absent"
  /\ fate' = [fate EXCEPT ![r] = "pending"]

Settle(r) ==
  /\ fate[r] = "pending"
  /\ \E final \in {"published", "dead"} : fate' = [fate EXCEPT ![r] = final]

Next == \E r \in Records : Enqueue(r) \/ Settle(r)

SafeSpec == Init /\ [][Next]_fate

Spec == SafeSpec /\ \A r \in Records : WF_fate(Settle(r))

=============================================================================
