--------------------------- MODULE EventChannels ---------------------------
(***************************************************************************)
(* What the in-process bus promises to its consumers: each one takes the   *)
(* events published while it was open, all of them and in order, and a     *)
(* consumer of a closed bus ends, but not before it has taken the last.    *)
(***************************************************************************)
EXTENDS Sequences

CONSTANTS Subscribers, Events

VARIABLES
  state,  \* state[s]: where the subscription stands
  pending \* pending[s]: published, not yet taken

vars == <<state, pending>>

Init ==
  /\ state = [s \in Subscribers |-> "none"]
  /\ pending = [s \in Subscribers |-> <<>>]

Subscribe(s) ==
  /\ state[s] = "none"
  /\ state' = [state EXCEPT ![s] = "open"]
  /\ UNCHANGED pending

Publish(e) ==
  /\ pending' = [s \in Subscribers |->
       IF state[s] = "open" THEN Append(pending[s], e) ELSE pending[s]]
  /\ UNCHANGED state

Close ==
  /\ state' = [s \in Subscribers |->
       IF state[s] = "open" THEN "closing" ELSE state[s]]
  /\ UNCHANGED pending

Take(s) ==
  /\ pending[s] # <<>>
  /\ pending' = [pending EXCEPT ![s] = Tail(@)]
  /\ UNCHANGED state

End(s) ==
  /\ state[s] = "closing"
  /\ pending[s] = <<>>
  /\ state' = [state EXCEPT ![s] = "ended"]
  /\ UNCHANGED pending

\* Only a consumer that walks away loses events: its own.
Leave(s) ==
  /\ state[s] \in {"open", "closing"}
  /\ state' = [state EXCEPT ![s] = "left"]
  /\ pending' = [pending EXCEPT ![s] = <<>>]

Next ==
  \/ \E e \in Events : Publish(e)
  \/ \E s \in Subscribers : Subscribe(s) \/ Take(s) \/ End(s) \/ Leave(s)
  \/ Close

SafeSpec == Init /\ [][Next]_vars

Spec == SafeSpec /\ \A s \in Subscribers : WF_vars(Take(s)) /\ WF_vars(End(s))

=============================================================================
