------------------------- MODULE ProviderSelection -------------------------
(***************************************************************************)
(* How a send finds its provider: the choice of the first healthy provider *)
(* of a channel (default-provider.resolver.ts), the dispatch to it         *)
(* (gateway-dispatcher.service.ts), and the health query that asks all     *)
(* providers at once (providers.resolver.ts).  Health changes meanwhile.   *)
(*                                                                         *)
(* enableProvider and disableProvider of the registry have no caller, so   *)
(* every registered provider is enabled.                                   *)
(***************************************************************************)
EXTENDS GatewayConfig

CONSTANTS
  Messages,  \* sends, each with an id of its own
  Queries,   \* calls of gatewayHealth
  MaxChanges \* bound: how often the health of providers changes

ASSUME SelectionAssumption == MaxChanges \in Nat

VARIABLES
  config,  \* what the environment selects; fixed at the start
  up,      \* up[p]: p answers its health probe with yes
  changes,
  send,    \* send[m]: the dispatch of message m
  took,    \* took[m]: the providers that took message m, in order
  wasDown, \* wasDown[m]: providers that were down, or did not answer their probe,
           \*   at some moment of the send (history)
  query,   \* query[q]: the health query
  wasUp    \* wasUp[q]: providers that were up at some moment of it (history)

vars == <<config, up, changes, send, took, wasDown, query, wasUp>>

-----------------------------------------------------------------------------
(* The channels of this configuration *)

Primaries(ch) == PrimariesOf(config, ch)

Fallbacks(ch) == FallbacksOf(config, ch)

\* Mutation of the order below: the fallback first.
CandidatesReversed(ch) == Fallbacks(ch) \o Primaries(ch)

\* The resolver tries them in this order.
Candidates(ch) == Primaries(ch) \o Fallbacks(ch)

\* Without a primary e-mail provider there is no e-mail channel.
ChannelRegistered(ch) == Primaries(ch) # <<>>

RegisteredProviders == UNION {ToSet(Candidates(ch)) : ch \in Channels}

\* The health of Resend is that it has credentials; nothing is asked.
Probed == Providers \ {"RESEND"}

-----------------------------------------------------------------------------

Send == [pc      : {"none", "probing", "probed", "sending", "taken",
                    "noChannel", "unavailable", "sent", "failed"},
         channel : Channels,
         at      : 1..3,     \* the candidate that is tried
         healthy : BOOLEAN]  \* the answer to its probe that is under way

Query == [pc      : {"none", "asking", "healthy", "degraded"},
          pending : SUBSET Providers,
          count   : 0..3]

Init ==
  /\ config \in Configurations
  /\ up \in [Providers -> BOOLEAN]
  /\ \A p \in Providers :
       up[p] => Reachable(config, p) /\ p \in RegisteredProviders
  /\ Reachable(config, "RESEND") /\ "RESEND" \in RegisteredProviders => up["RESEND"]
  /\ changes = 0
  /\ send = [m \in Messages |->
       [pc |-> "none", channel |-> "EMAIL", at |-> 1, healthy |-> FALSE]]
  /\ took = [m \in Messages |-> <<>>]
  /\ wasDown = [m \in Messages |-> {}]
  /\ query = [q \in Queries |-> [pc |-> "none", pending |-> {}, count |-> 0]]
  /\ wasUp = [q \in Queries |-> {}]

InProgress(m) == send[m].pc \in {"probing", "probed", "sending", "taken"}

Candidate(m) == Candidates(send[m].channel)[send[m].at]

ChangeHealth(p) ==
  /\ changes < MaxChanges
  /\ Reachable(config, p)
  /\ p \in RegisteredProviders
  /\ changes' = changes + 1
  /\ up' = [up EXCEPT ![p] = ~@]
  /\ wasDown' = [m \in Messages |->
       IF InProgress(m) THEN wasDown[m] \cup {p} ELSE wasDown[m]]
  /\ wasUp' = [q \in Queries |->
       IF query[q].pc = "asking" THEN wasUp[q] \cup {p} ELSE wasUp[q]]
  /\ UNCHANGED <<config, send, took, query>>

-----------------------------------------------------------------------------
(* GatewayDispatcher.dispatch and DefaultProviderResolver.resolve *)

Dispatch(m, ch) ==
  /\ send[m].pc = "none"
  /\ send' = [send EXCEPT ![m].channel = ch,
       ![m].pc = IF ChannelRegistered(ch) THEN "probing" ELSE "noChannel"]
  /\ wasDown' = [wasDown EXCEPT ![m] = {p \in Providers : ~up[p]}]
  /\ UNCHANGED <<config, up, changes, took, query, wasUp>>

\* The provider answers the probe; the answer may be old when it arrives.
ProbeAnswered(m) ==
  /\ send[m].pc = "probing"
  /\ send' = [send EXCEPT ![m].pc = "probed", ![m].healthy = up[Candidate(m)]]
  /\ UNCHANGED <<config, up, changes, took, wasDown, query, wasUp>>

\* The probe times out or its connection breaks, whatever the provider's health.
ProbeFails(m) ==
  /\ send[m].pc \in {"probing", "probed"}
  /\ Candidate(m) \in Probed
  /\ send' = [send EXCEPT ![m].pc = "probed", ![m].healthy = FALSE]
  /\ wasDown' = [wasDown EXCEPT ![m] = @ \cup {Candidate(m)}]
  /\ UNCHANGED <<config, up, changes, took, query, wasUp>>

\* Mutation of the choice below: one candidate too many.
ChosenPastTheEnd(c) ==
  IF c.healthy THEN [c EXCEPT !.pc = "sending"]
  ELSE [c EXCEPT !.at = @ + 1, !.healthy = FALSE,
          !.pc = IF c.at <= Len(Candidates(c.channel)) THEN "probing"
                                                       ELSE "unavailable"]

\* Mutation of the choice below: after the last candidate comes the first again.
ChosenInCircles(c) ==
  IF c.healthy THEN [c EXCEPT !.pc = "sending"]
  ELSE [c EXCEPT !.at = (@ % Len(Candidates(c.channel))) + 1, !.healthy = FALSE,
                 !.pc = "probing"]

\* The first healthy candidate is chosen, and nobody if there is none.
Chosen(c) ==
  IF c.healthy THEN [c EXCEPT !.pc = "sending"]
  ELSE [c EXCEPT !.at = @ + 1, !.healthy = FALSE,
          !.pc = IF c.at < Len(Candidates(c.channel)) THEN "probing"
                                                      ELSE "unavailable"]

Resolve(m) ==
  /\ send[m].pc = "probed"
  /\ send' = [send EXCEPT ![m] = Chosen(@)]
  /\ UNCHANGED <<config, up, changes, took, wasDown, query, wasUp>>

\* The provider takes the message; its health may have changed since the probe.
ProviderTakes(m) ==
  /\ send[m].pc = "sending"
  /\ took' = [took EXCEPT ![m] = Append(@, Candidate(m))]
  /\ send' = [send EXCEPT ![m].pc = "taken"]
  /\ UNCHANGED <<config, up, changes, wasDown, query, wasUp>>

\* A failed send is final: no other provider is tried.
GivenUp(c) == [c EXCEPT !.pc = "failed"]

\* The provider refuses, or nobody knows: the request or its answer is lost, or
\* the answer has no message id.
SendFails(m) ==
  /\ send[m].pc \in {"sending", "taken"}
  /\ send' = [send EXCEPT ![m] = GivenUp(@)]
  /\ UNCHANGED <<config, up, changes, took, wasDown, query, wasUp>>

SendSucceeds(m) ==
  /\ send[m].pc = "taken"
  /\ send' = [send EXCEPT ![m].pc = "sent"]
  /\ UNCHANGED <<config, up, changes, took, wasDown, query, wasUp>>

-----------------------------------------------------------------------------
(* ProvidersResolver.gatewayHealth *)

\* All registered providers are probed at once.
Ask(q) ==
  /\ query[q].pc = "none"
  /\ query' = [query EXCEPT ![q].pc = "asking", ![q].pending = RegisteredProviders]
  /\ wasUp' = [wasUp EXCEPT ![q] = {p \in Providers : up[p]}]
  /\ UNCHANGED <<config, up, changes, send, took, wasDown>>

\* One of them answers, or its probe fails and counts as no.
QueryAnswered(q, p) ==
  /\ query[q].pc = "asking"
  /\ p \in query[q].pending
  /\ \E yes \in BOOLEAN :
       /\ yes => up[p]
       /\ ~yes => ~up[p] \/ p \in Probed
       /\ query' = [query EXCEPT ![q].pending = @ \ {p},
                                 ![q].count = IF yes THEN @ + 1 ELSE @]
  /\ UNCHANGED <<config, up, changes, send, took, wasDown, wasUp>>

\* Mutation of the verdict below: one healthy provider is enough.
VerdictLenient(count) == IF count > 0 THEN "healthy" ELSE "degraded"

Verdict(count) ==
  IF count = Cardinality(RegisteredProviders) THEN "healthy" ELSE "degraded"

Report(q) ==
  /\ query[q].pc = "asking"
  /\ query[q].pending = {}
  /\ query' = [query EXCEPT ![q].pc = Verdict(query[q].count)]
  /\ UNCHANGED <<config, up, changes, send, took, wasDown, wasUp>>

-----------------------------------------------------------------------------

Next ==
  \/ \E p \in Probed : ChangeHealth(p)
  \/ \E m \in Messages :
       \/ \E ch \in Channels : Dispatch(m, ch)
       \/ ProbeAnswered(m) \/ ProbeFails(m) \/ Resolve(m)
       \/ ProviderTakes(m) \/ SendFails(m) \/ SendSucceeds(m)
  \/ \E q \in Queries :
       Ask(q) \/ Report(q) \/ \E p \in Providers : QueryAnswered(q, p)

Spec == Init /\ [][Next]_vars

-----------------------------------------------------------------------------
(* Properties *)

\* Types of the state; a send that probes or sends has a candidate to do it with.
TypeOK ==
  /\ config \in Configurations
  /\ up \in [Providers -> BOOLEAN]
  /\ changes \in 0..MaxChanges
  /\ send \in [Messages -> Send]
  /\ \A m \in Messages :
       InProgress(m) => send[m].at <= Len(Candidates(send[m].channel))
  /\ took \in [Messages -> Seq(Providers)]
  /\ wasDown \in [Messages -> SUBSET Providers]
  /\ query \in [Queries -> Query]
  /\ wasUp \in [Queries -> SUBSET Providers]

\* A fallback is used only if the primary was down, or left its probe unanswered,
\* during this very send; and none is available only if that holds of them all.
FallbackEarned ==
  \A m \in Messages :
    LET c == send[m] IN
    /\ c.pc \in {"sending", "taken", "sent", "failed"}
         /\ Candidate(m) \in ToSet(Fallbacks(c.channel)) =>
           ToSet(Primaries(c.channel)) \subseteq wasDown[m]
    /\ c.pc = "unavailable" =>
         ToSet(Candidates(c.channel)) \subseteq wasDown[m]

\* No message goes out through two providers, however the first one failed; and
\* one reported as sent went out through the provider that was chosen.
TakenByOneProvider ==
  \A m \in Messages :
    /\ Len(took[m]) <= 1
    /\ send[m].pc = "sent" => took[m] = <<Candidate(m)>>

\* The gateway calls itself healthy only if every provider it registered was up
\* at some moment of the query (not all at the same moment).
HealthyMeansEachWasUp ==
  \A q \in Queries : query[q].pc = "healthy" => RegisteredProviders \subseteq wasUp[q]

=============================================================================
