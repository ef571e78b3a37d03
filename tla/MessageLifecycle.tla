-------------------------- MODULE MessageLifecycle --------------------------
(***************************************************************************)
(* What the delivery store promises about every message: it is registered  *)
(* once, as SENT, and from then on its status only makes the steps of the  *)
(* delivery lifecycle.  MessageGateway implements this when webhooks are   *)
(* handled one at a time.                                                  *)
(***************************************************************************)
EXTENDS DeliveryLifecycle

CONSTANTS MessageIds, \* internal ids chosen by the clients
          None        \* "no mapping stored yet"

VARIABLE status       \* status[id]: the stored status, or None

Init == status = [id \in MessageIds |-> None]

Register(id) ==
  /\ status[id] = None
  /\ status' = [status EXCEPT ![id] = "SENT"]

Move(id, next) ==
  /\ status[id] # None
  /\ IsValidTransition(status[id], next)
  /\ status' = [status EXCEPT ![id] = next]

Next == \E id \in MessageIds :
          \/ Register(id)
          \/ \E next \in DeliveryStatus : Move(id, next)

Spec == Init /\ [][Next]_status

=============================================================================
