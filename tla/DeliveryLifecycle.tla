------------------------- MODULE DeliveryLifecycle -------------------------
(***************************************************************************)
(* The delivery statuses of the gateway and the transitions its domain     *)
(* service allows (delivery-lifecycle.service.ts).  Pure definitions: the  *)
(* state machine that promises to follow them is MessageLifecycle, the one *)
(* that calls them is MessageGateway.                                      *)
(***************************************************************************)

DeliveryStatus == {"UNKNOWN", "PENDING", "QUEUED", "SENT",
                   "DELIVERED", "READ", "FAILED", "CANCELLED"}

\* Mutation of the table below: a read receipt may overtake its delivery.
ValidTransitionsSkipping ==
  [UNKNOWN   |-> {"PENDING", "FAILED"},
   PENDING   |-> {"QUEUED", "SENT", "FAILED", "CANCELLED"},
   QUEUED    |-> {"SENT", "FAILED", "CANCELLED"},
   SENT      |-> {"DELIVERED", "READ", "FAILED", "CANCELLED"},
   DELIVERED |-> {"READ", "FAILED", "CANCELLED"},
   READ      |-> {"FAILED", "CANCELLED"},
   FAILED    |-> {"PENDING", "CANCELLED"},
   CANCELLED |-> {}]

ValidTransitions ==
  [UNKNOWN   |-> {"PENDING", "FAILED"},
   PENDING   |-> {"QUEUED", "SENT", "FAILED", "CANCELLED"},
   QUEUED    |-> {"SENT", "FAILED", "CANCELLED"},
   SENT      |-> {"DELIVERED", "FAILED", "CANCELLED"},
   DELIVERED |-> {"READ", "FAILED", "CANCELLED"},
   READ      |-> {"FAILED", "CANCELLED"},
   FAILED    |-> {"PENDING", "CANCELLED"},
   CANCELLED |-> {}]

\* Repeating the current status counts as valid.
IsValidTransition(current, next) ==
  current = next \/ next \in ValidTransitions[current]

=============================================================================
