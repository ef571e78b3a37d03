----------------------- MODULE ProviderSelectionProofs -----------------------
(***************************************************************************)
(* Theorems about ProviderSelection: for any number of sends, health       *)
(* queries and changes of health, a fallback is earned, a message is taken *)
(* by one provider, and a healthy verdict has seen every provider up.      *)
(***************************************************************************)
EXTENDS ProviderSelection, FiniteSetTheorems, TLAPS

-----------------------------------------------------------------------------
(* The candidates of a configuration *)

\* At most one primary and at most one fallback, and never the same twice.
LEMMA CandidateShape ==
  ASSUME NEW ch \in Channels
  PROVE  /\ Primaries(ch) \in {<<>>, <<"EVOLUTION">>, <<"RESEND">>, <<"STALWART">>}
         /\ Fallbacks(ch) \in {<<>>, <<"RESEND">>, <<"STALWART">>}
         /\ Primaries(ch) = <<>> => Fallbacks(ch) = <<>>
         /\ Fallbacks(ch) # <<>> => Primaries(ch) # Fallbacks(ch)
<1>1. \A e, name : EmailProvider(e, name) \in {<<>>, <<"RESEND">>, <<"STALWART">>}
  BY DEF EmailProvider
<1>2. \A e : /\ PrimariesOf(e, ch) \in {<<>>, <<"EVOLUTION">>, <<"RESEND">>, <<"STALWART">>}
             /\ FallbacksOf(e, ch) \in {<<>>, <<"RESEND">>, <<"STALWART">>}
  BY <1>1 DEF PrimariesOf, FallbacksOf
<1>3. \A e : /\ PrimariesOf(e, ch) = <<>> => FallbacksOf(e, ch) = <<>>
             /\ FallbacksOf(e, ch) # <<>> => PrimariesOf(e, ch) # FallbacksOf(e, ch)
  BY DEF FallbacksOf
<1> QED BY <1>2, <1>3 DEF Primaries, Fallbacks

\* Such short sequences are sequences of providers.
LEMMA AtMostOne ==
  ASSUME NEW s, s = <<>> \/ \E p \in Providers : s = <<p>>
  PROVE  /\ s \in Seq(Providers)
         /\ Len(s) \in 0..1
         /\ s = <<>> <=> Len(s) = 0
<1>1. CASE s = <<>>
  BY <1>1
<1>2. ASSUME NEW p \in Providers, s = <<p>>
      PROVE  s \in Seq(Providers) /\ Len(s) = 1 /\ s # <<>>
  BY <1>2
<1> QED BY <1>1, <1>2

\* So the order is the primary, then the fallback.
LEMMA CandidateOrder ==
  ASSUME NEW ch \in Channels
  PROVE  /\ Primaries(ch) \in Seq(Providers) /\ Fallbacks(ch) \in Seq(Providers)
         /\ Candidates(ch) \in Seq(Providers)
         /\ Len(Candidates(ch)) = Len(Primaries(ch)) + Len(Fallbacks(ch))
         /\ Len(Candidates(ch)) \in 0..2
         /\ ChannelRegistered(ch) <=> Len(Candidates(ch)) > 0
         /\ \A i \in 1..Len(Candidates(ch)) : Candidates(ch)[i] \in Providers
<1>1. Primaries(ch) = <<>> \/ \E p \in Providers : Primaries(ch) = <<p>>
  BY CandidateShape DEF Providers
<1>2. Fallbacks(ch) = <<>> \/ \E p \in Providers : Fallbacks(ch) = <<p>>
  BY CandidateShape DEF Providers
<1>3. /\ Primaries(ch) \in Seq(Providers) /\ Len(Primaries(ch)) \in 0..1
      /\ Primaries(ch) = <<>> <=> Len(Primaries(ch)) = 0
  BY <1>1, AtMostOne
<1>4. Fallbacks(ch) \in Seq(Providers) /\ Len(Fallbacks(ch)) \in 0..1
  BY <1>2, AtMostOne
<1>5. Primaries(ch) = <<>> => Len(Fallbacks(ch)) = 0
  BY CandidateShape
<1>6. /\ Candidates(ch) \in Seq(Providers)
      /\ Len(Candidates(ch)) = Len(Primaries(ch)) + Len(Fallbacks(ch))
  BY <1>3, <1>4 DEF Candidates
<1>7. \A i \in 1..Len(Candidates(ch)) : Candidates(ch)[i] \in Providers
  BY <1>6
<1>8. /\ Len(Candidates(ch)) \in 0..2
      /\ Len(Primaries(ch)) # 0 <=> Len(Candidates(ch)) > 0
  <2> DEFINE p == Len(Primaries(ch))
             f == Len(Fallbacks(ch))
             c == Len(Candidates(ch))
  <2>1. p \in 0..1 /\ f \in 0..1 /\ c = p + f
    BY <1>3, <1>4, <1>6
  <2>2. p = 0 => f = 0
    BY <1>3, <1>5
  <2> HIDE DEF p, f, c
  <2>3. c \in 0..2 /\ (p # 0 <=> c > 0)
    BY <2>1, <2>2
  <2> QED BY <2>3 DEF p, c
<1>9. ChannelRegistered(ch) <=> Len(Candidates(ch)) > 0
  BY <1>3, <1>8 DEF ChannelRegistered
<1> QED BY <1>3, <1>4, <1>6, <1>7, <1>8, <1>9

\* A fallback comes after every primary.
LEMMA FallbackIsSecond ==
  ASSUME NEW ch \in Channels, NEW i \in 1..Len(Candidates(ch)),
         Candidates(ch)[i] \in ToSet(Fallbacks(ch))
  PROVE  /\ i = 2
         /\ ToSet(Primaries(ch)) = {Candidates(ch)[1]}
<1>1. Fallbacks(ch) # <<>>
  BY DEF ToSet
<1>2. PICK p \in Providers : Primaries(ch) = <<p>>
  BY <1>1, CandidateShape DEF Providers
<1>3. PICK f \in Providers : Fallbacks(ch) = <<f>>
  BY <1>1, CandidateShape DEF Providers
<1>4. p # f
  BY <1>1, <1>2, <1>3, CandidateShape
<1>5. Candidates(ch) = <<p>> \o <<f>>
  BY <1>2, <1>3 DEF Candidates
<1>6. /\ Len(Candidates(ch)) = 2
      /\ Candidates(ch)[1] = p
      /\ Candidates(ch)[2] = f
  BY <1>5
<1>7. ToSet(Primaries(ch)) = {p} /\ ToSet(Fallbacks(ch)) = {f}
  BY <1>2, <1>3 DEF ToSet
<1> QED BY <1>4, <1>6, <1>7

\* The configuration is fixed at the start, and so is all of this.
LEMMA SameCandidates ==
  ASSUME config' = config
  PROVE  /\ \A ch : Primaries(ch)' = Primaries(ch)
         /\ \A ch : Fallbacks(ch)' = Fallbacks(ch)
         /\ \A ch : Candidates(ch)' = Candidates(ch)
         /\ \A ch : ChannelRegistered(ch)' = ChannelRegistered(ch)
         /\ RegisteredProviders' = RegisteredProviders
BY DEF Primaries, Fallbacks, Candidates, ChannelRegistered, RegisteredProviders

\* No more than the three providers are registered.
LEMMA FewRegistered ==
  /\ RegisteredProviders \subseteq Providers
  /\ IsFiniteSet(RegisteredProviders)
  /\ Cardinality(RegisteredProviders) \in 0..3
<1>1. RegisteredProviders \subseteq Providers
  BY CandidateOrder DEF RegisteredProviders, ToSet
<1>2. IsFiniteSet({"RESEND"}) /\ Cardinality({"RESEND"}) = 1
  BY FS_Singleton
<1>3. IsFiniteSet({"RESEND"} \cup {"EVOLUTION"})
      /\ Cardinality({"RESEND"} \cup {"EVOLUTION"}) = 2
  BY <1>2, FS_AddElement
<1>4. IsFiniteSet({"RESEND", "EVOLUTION"} \cup {"STALWART"})
      /\ Cardinality({"RESEND", "EVOLUTION"} \cup {"STALWART"}) = 3
  <2>1. {"RESEND"} \cup {"EVOLUTION"} = {"RESEND", "EVOLUTION"}
    OBVIOUS
  <2>2. "STALWART" \notin {"RESEND", "EVOLUTION"}
    OBVIOUS
  <2> QED BY <1>3, <2>1, <2>2, FS_AddElement
<1>5. {"RESEND", "EVOLUTION"} \cup {"STALWART"} = Providers
  BY DEF Providers
<1>6. IsFiniteSet(Providers) /\ Cardinality(Providers) = 3
  BY <1>4, <1>5
<1>7. /\ IsFiniteSet(RegisteredProviders)
      /\ Cardinality(RegisteredProviders) <= Cardinality(Providers)
  BY <1>1, <1>6, FS_Subset
<1>8. Cardinality(RegisteredProviders) \in Nat
  BY <1>7, FS_CardinalityType
<1> QED BY <1>1, <1>6, <1>7, <1>8

-----------------------------------------------------------------------------
(* The inductive invariant *)

\* The candidates a send has passed over.
Passed(m) ==
  {Candidates(send[m].channel)[i] :
     i \in {j \in 1..Len(Candidates(send[m].channel)) : j < send[m].at}}

\* What a send is right to believe, and what is done with its message.
SendKnows(m) ==
  /\ send[m].pc = "none" => send[m].at = 1
  /\ InProgress(m) => {p \in Providers : ~up[p]} \subseteq wasDown[m]
  /\ InProgress(m) \/ send[m].pc \in {"sent", "failed"} =>
       send[m].at <= Len(Candidates(send[m].channel))
  /\ send[m].pc \notin {"none", "noChannel"} => Passed(m) \subseteq wasDown[m]
  /\ send[m].pc = "unavailable" =>
       send[m].at > Len(Candidates(send[m].channel))
  /\ send[m].pc = "probed" /\ ~send[m].healthy => Candidate(m) \in wasDown[m]
  /\ send[m].pc \in {"taken", "sent"} => took[m] = <<Candidate(m)>>
  /\ send[m].pc = "failed" => took[m] \in {<<>>, <<Candidate(m)>>}
  /\ send[m].pc \notin {"taken", "sent", "failed"} => took[m] = <<>>

\* A query counts at most the providers that answered; if it has counted them all,
\* it saw each of them up.
QueryKnows(q) ==
  /\ query[q].pc = "none" => query[q].count = 0
  /\ query[q].pc = "asking" =>
       /\ {p \in Providers : up[p]} \subseteq wasUp[q]
       /\ query[q].pending \subseteq RegisteredProviders
       /\ query[q].count + Cardinality(query[q].pending)
            <= Cardinality(RegisteredProviders)
       /\ query[q].count + Cardinality(query[q].pending)
            = Cardinality(RegisteredProviders) =>
              RegisteredProviders \ query[q].pending \subseteq wasUp[q]
  /\ query[q].pc = "healthy" => RegisteredProviders \subseteq wasUp[q]

IndInv ==
  /\ TypeOK
  /\ \A m \in Messages : SendKnows(m)
  /\ \A q \in Queries : QueryKnows(q)

-----------------------------------------------------------------------------
(* What a step leaves alone *)

LEMMA SendUntouched ==
  ASSUME IndInv, NEW m \in Messages, config' = config,
         send'[m] = send[m], took'[m] = took[m], wasDown[m] \subseteq wasDown'[m],
         InProgress(m) => {p \in Providers : ~up'[p]} \subseteq wasDown'[m]
  PROVE  SendKnows(m)'
<1>1. Candidates(send[m].channel)' = Candidates(send[m].channel)
  BY SameCandidates
<1>2. Candidate(m)' = Candidate(m) /\ Passed(m)' = Passed(m)
  BY <1>1, SameCandidates DEF Candidate, Passed
<1>3. InProgress(m)' <=> InProgress(m)
  BY DEF InProgress
<1>4. SendKnows(m)
  BY DEF IndInv
<1> QED BY <1>1, <1>2, <1>3, <1>4, SameCandidates DEF SendKnows

LEMMA QueryUntouched ==
  ASSUME IndInv, NEW q \in Queries, config' = config,
         query'[q] = query[q], wasUp[q] \subseteq wasUp'[q],
         query[q].pc = "asking" => {p \in Providers : up'[p]} \subseteq wasUp'[q]
  PROVE  QueryKnows(q)'
BY SameCandidates DEF IndInv, QueryKnows

\* A step of one send concerns nothing but that send.
LEMMA OneSendChanges ==
  ASSUME IndInv, NEW m \in Messages, NEW c \in Send,
         send' = [send EXCEPT ![m] = c],
         took' \in [Messages -> Seq(Providers)],
         wasDown' \in [Messages -> SUBSET Providers],
         \A n \in Messages \ {m} : took'[n] = took[n] /\ wasDown'[n] = wasDown[n],
         UNCHANGED <<config, up, changes, query, wasUp>>,
         SendKnows(m)'
  PROVE  IndInv'
<1>1. send' \in [Messages -> Send]
  BY DEF IndInv, TypeOK
<1>2. ASSUME NEW n \in Messages \ {m}
      PROVE  SendKnows(n)'
  <2>1. send'[n] = send[n]
    BY DEF IndInv, TypeOK
  <2>2. InProgress(n) => {p \in Providers : ~up[p]} \subseteq wasDown[n]
    BY DEF IndInv, SendKnows
  <2> QED BY <2>1, <2>2, SendUntouched
<1>3. \A n \in Messages : SendKnows(n)'
  BY <1>2
<1>4. ASSUME NEW q \in Queries
      PROVE  QueryKnows(q)'
  BY QueryUntouched DEF IndInv, QueryKnows
<1>5. \A n \in Messages : InProgress(n)' =>
        send'[n].at <= Len(Candidates(send[n].channel)')
  BY <1>3 DEF SendKnows
<1>6. TypeOK'
  BY <1>1, <1>3 DEF IndInv, TypeOK, SendKnows
<1> QED BY <1>3, <1>4, <1>6 DEF IndInv

\* A step of one query concerns nothing but that query.
LEMMA OneQueryChanges ==
  ASSUME IndInv, NEW q \in Queries, NEW c \in Query,
         query' = [query EXCEPT ![q] = c],
         wasUp' \in [Queries -> SUBSET Providers],
         \A n \in Queries \ {q} : wasUp'[n] = wasUp[n],
         UNCHANGED <<config, up, changes, send, took, wasDown>>,
         QueryKnows(q)'
  PROVE  IndInv'
<1>1. query' \in [Queries -> Query]
  BY DEF IndInv, TypeOK
<1>2. ASSUME NEW n \in Queries \ {q}
      PROVE  QueryKnows(n)'
  <2>1. query'[n] = query[n]
    BY DEF IndInv, TypeOK
  <2>2. query[n].pc = "asking" => {p \in Providers : up[p]} \subseteq wasUp[n]
    BY DEF IndInv, QueryKnows
  <2> QED BY <2>1, <2>2, QueryUntouched
<1>3. ASSUME NEW m \in Messages
      PROVE  SendKnows(m)'
  BY SendUntouched DEF IndInv, SendKnows
<1>4. TypeOK'
  BY <1>1, <1>3 DEF IndInv, TypeOK, SendKnows
<1> QED BY <1>2, <1>3, <1>4 DEF IndInv

-----------------------------------------------------------------------------
(* The steps *)

LEMMA InitIndInv == Init => IndInv
<1> SUFFICES ASSUME Init PROVE IndInv
  OBVIOUS
<1>1. /\ send \in [Messages -> Send]
      /\ \A m \in Messages : send[m].pc = "none" /\ send[m].at = 1
  BY DEF Init, Send, Channels
<1>2. /\ query \in [Queries -> Query]
      /\ \A q \in Queries : query[q].pc = "none" /\ query[q].count = 0
  BY DEF Init, Query
<1>3. took \in [Messages -> Seq(Providers)] /\ \A m \in Messages : took[m] = <<>>
  BY DEF Init
<1>4. /\ config \in Configurations
      /\ up \in [Providers -> BOOLEAN]
      /\ changes \in 0..MaxChanges
      /\ wasDown \in [Messages -> SUBSET Providers]
      /\ wasUp \in [Queries -> SUBSET Providers]
  BY SelectionAssumption DEF Init
<1>5. TypeOK
  BY <1>1, <1>2, <1>3, <1>4 DEF TypeOK, InProgress
<1>6. \A m \in Messages : SendKnows(m)
  BY <1>1, <1>3 DEF SendKnows, InProgress
<1>7. \A q \in Queries : QueryKnows(q)
  BY <1>2 DEF QueryKnows
<1> QED BY <1>5, <1>6, <1>7 DEF IndInv

LEMMA ChangeHealthStep ==
  ASSUME IndInv, NEW p \in Probed, ChangeHealth(p)
  PROVE  IndInv'
<1>1. p \in Providers
  BY DEF Probed
<1>2. /\ changes' \in 0..MaxChanges
      /\ up' \in [Providers -> BOOLEAN]
      /\ \A r \in Providers \ {p} : up'[r] = up[r]
  BY <1>1, SelectionAssumption DEF ChangeHealth, IndInv, TypeOK
<1>3. /\ wasDown' \in [Messages -> SUBSET Providers]
      /\ wasUp' \in [Queries -> SUBSET Providers]
  BY <1>1 DEF ChangeHealth, IndInv, TypeOK
<1>4. ASSUME NEW m \in Messages
      PROVE  SendKnows(m)'
  <2>1. /\ wasDown[m] \subseteq wasDown'[m]
        /\ InProgress(m) => wasDown'[m] = wasDown[m] \cup {p}
    BY DEF ChangeHealth
  <2>2. InProgress(m) => {r \in Providers : ~up'[r]} \subseteq wasDown'[m]
    BY <1>2, <2>1 DEF IndInv, SendKnows
  <2> QED BY <2>1, <2>2, SendUntouched DEF ChangeHealth
<1>5. ASSUME NEW q \in Queries
      PROVE  QueryKnows(q)'
  <2>1. /\ wasUp[q] \subseteq wasUp'[q]
        /\ query[q].pc = "asking" => wasUp'[q] = wasUp[q] \cup {p}
    BY DEF ChangeHealth
  <2>2. query[q].pc = "asking" => {r \in Providers : up'[r]} \subseteq wasUp'[q]
    BY <1>2, <2>1 DEF IndInv, QueryKnows
  <2> QED BY <2>1, <2>2, QueryUntouched DEF ChangeHealth
<1>6. TypeOK'
  BY <1>2, <1>3, <1>4 DEF ChangeHealth, IndInv, TypeOK, SendKnows
<1> QED BY <1>4, <1>5, <1>6 DEF IndInv

LEMMA DispatchStep ==
  ASSUME IndInv, NEW m \in Messages, NEW ch \in Channels, Dispatch(m, ch)
  PROVE  IndInv'
<1> DEFINE c == [send[m] EXCEPT !.channel = ch,
                   !.pc = IF ChannelRegistered(ch) THEN "probing" ELSE "noChannel"]
<1>1. send[m] \in Send /\ send[m].pc = "none"
  BY DEF Dispatch, IndInv, TypeOK
<1>2. c \in Send
  BY <1>1 DEF Send
<1>3. send' = [send EXCEPT ![m] = c]
  BY DEF Dispatch, IndInv, TypeOK
<1>4. send'[m] = c
  BY <1>3 DEF IndInv, TypeOK
<1>5. wasDown' \in [Messages -> SUBSET Providers]
  BY DEF Dispatch, IndInv, TypeOK
<1>6. SendKnows(m)'
  <2>1. /\ send'[m].channel = ch /\ send'[m].at = 1
        /\ send'[m].pc = IF ChannelRegistered(ch) THEN "probing" ELSE "noChannel"
    BY <1>1, <1>4 DEF Send, IndInv, SendKnows
  <2>2. ChannelRegistered(ch) => 1 <= Len(Candidates(ch))
    BY CandidateOrder
  <2>3. /\ wasDown'[m] = {p \in Providers : ~up[p]}
        /\ took'[m] = <<>>
    BY <1>1 DEF Dispatch, IndInv, TypeOK, SendKnows
  <2>4. Passed(m)' = {}
    BY <2>1, CandidateOrder, SameCandidates DEF Dispatch, Passed
  <2> QED
    BY <2>1, <2>2, <2>3, <2>4, SameCandidates DEF Dispatch, SendKnows, InProgress
<1> QED BY <1>2, <1>3, <1>5, <1>6, OneSendChanges DEF Dispatch, IndInv, TypeOK

LEMMA ProbeAnsweredStep ==
  ASSUME IndInv, NEW m \in Messages, ProbeAnswered(m)
  PROVE  IndInv'
<1> DEFINE yes == up[Candidate(m)]
           c == [send[m] EXCEPT !.pc = "probed", !.healthy = yes]
<1>1. send[m] \in Send /\ send[m].pc = "probing"
  BY DEF ProbeAnswered, IndInv, TypeOK
<1>2. Candidate(m) \in Providers
  BY <1>1, CandidateOrder DEF IndInv, SendKnows, InProgress, Candidate, Send
<1>3. yes \in BOOLEAN
  BY <1>2 DEF IndInv, TypeOK
<1>4. c \in Send
  BY <1>1, <1>3 DEF Send
<1>5. send' = [send EXCEPT ![m] = c]
  BY DEF ProbeAnswered, IndInv, TypeOK
<1>6. /\ send'[m].pc = "probed" /\ send'[m].healthy = yes
      /\ send'[m].channel = send[m].channel /\ send'[m].at = send[m].at
  BY <1>1, <1>5 DEF Send, IndInv, TypeOK
<1>7. Candidate(m)' = Candidate(m) /\ Passed(m)' = Passed(m)
  <2>1. send'[m].channel = send[m].channel /\ send'[m].at = send[m].at
    BY <1>6
  <2> QED BY <2>1, SameCandidates DEF ProbeAnswered, Candidate, Passed
<1>8. ~yes => Candidate(m) \in wasDown[m]
  BY <1>1, <1>2 DEF IndInv, SendKnows, InProgress
<1>9. SendKnows(m)'
  BY <1>1, <1>6, <1>7, <1>8, SameCandidates
     DEF ProbeAnswered, IndInv, SendKnows, InProgress
<1> QED BY <1>4, <1>5, <1>9, OneSendChanges DEF ProbeAnswered, IndInv, TypeOK

LEMMA ProbeFailsStep ==
  ASSUME IndInv, NEW m \in Messages, ProbeFails(m)
  PROVE  IndInv'
<1> DEFINE c == [send[m] EXCEPT !.pc = "probed", !.healthy = FALSE]
<1>1. send[m] \in Send /\ send[m].pc \in {"probing", "probed"}
  BY DEF ProbeFails, IndInv, TypeOK
<1>2. Candidate(m) \in Providers
  BY DEF ProbeFails, Probed
<1>3. c \in Send
  BY <1>1 DEF Send
<1>4. send' = [send EXCEPT ![m] = c]
  BY DEF ProbeFails, IndInv, TypeOK
<1>5. /\ send'[m].pc = "probed" /\ send'[m].healthy = FALSE
      /\ send'[m].channel = send[m].channel /\ send'[m].at = send[m].at
  BY <1>1, <1>4 DEF Send, IndInv, TypeOK
<1>6. Candidate(m)' = Candidate(m) /\ Passed(m)' = Passed(m)
  BY <1>5, SameCandidates DEF ProbeFails, Candidate, Passed
<1>7. /\ wasDown' \in [Messages -> SUBSET Providers]
      /\ wasDown'[m] = wasDown[m] \cup {Candidate(m)}
      /\ \A n \in Messages \ {m} : wasDown'[n] = wasDown[n]
  BY <1>2 DEF ProbeFails, IndInv, TypeOK
<1>8. SendKnows(m)'
  BY <1>1, <1>5, <1>6, <1>7, SameCandidates
     DEF ProbeFails, IndInv, SendKnows, InProgress
<1> QED BY <1>3, <1>4, <1>7, <1>8, OneSendChanges DEF ProbeFails, IndInv, TypeOK

LEMMA ResolveStep ==
  ASSUME IndInv, NEW m \in Messages, Resolve(m)
  PROVE  IndInv'
<1> DEFINE c == send[m]
<1>1. /\ c \in Send /\ c.pc = "probed"
      /\ c.channel \in Channels /\ c.at \in 1..3 /\ c.healthy \in BOOLEAN
  BY DEF Resolve, IndInv, TypeOK, Send
<1>2. send' = [send EXCEPT ![m] = Chosen(c)] /\ send'[m] = Chosen(c)
  BY DEF Resolve, IndInv, TypeOK
<1>3. /\ c.at <= Len(Candidates(c.channel))
      /\ Len(Candidates(c.channel)) \in 0..2
      /\ took[m] = <<>>
      /\ Passed(m) \subseteq wasDown[m]
      /\ {p \in Providers : ~up[p]} \subseteq wasDown[m]
  BY <1>1, CandidateOrder DEF IndInv, SendKnows, InProgress
<1>4. CASE c.healthy
  <2>1. Chosen(c) = [c EXCEPT !.pc = "sending"]
    BY <1>4 DEF Chosen
  <2>2. Chosen(c) \in Send
    BY <1>1, <2>1 DEF Send
  <2>3. /\ send'[m].pc = "sending"
        /\ send'[m].channel = c.channel /\ send'[m].at = c.at
    BY <1>1, <1>2, <2>1 DEF Send
  <2>4. Passed(m)' = Passed(m)
    BY <2>3, SameCandidates DEF Resolve, Passed
  <2>5. SendKnows(m)'
    BY <1>3, <2>3, <2>4, SameCandidates DEF Resolve, SendKnows, InProgress
  <2> QED BY <1>2, <2>2, <2>5, OneSendChanges DEF Resolve, IndInv, TypeOK
<1>5. CASE ~c.healthy
  <2> DEFINE pc == IF c.at < Len(Candidates(c.channel)) THEN "probing"
                                                        ELSE "unavailable"
             d == [c EXCEPT !.at = c.at + 1, !.healthy = FALSE, !.pc = pc]
  <2>1. Chosen(c) = d
    BY <1>5 DEF Chosen
  <2>2. c.at + 1 \in 1..3
    <3> DEFINE at == c.at
               n == Len(Candidates(c.channel))
    <3>1. at \in 1..3 /\ n \in 0..2 /\ at <= n
      BY <1>1, <1>3
    <3> HIDE DEF at, n
    <3>2. at + 1 \in 1..3
      BY <3>1
    <3> QED BY <3>2 DEF at
  <2>3. pc \in {"probing", "unavailable"}
    OBVIOUS
  <2>4. d \in Send
    BY <1>1, <2>2, <2>3 DEF Send
  <2>5. /\ send'[m].pc = pc
        /\ send'[m].channel = c.channel /\ send'[m].at = c.at + 1
    BY <1>1, <1>2, <2>1 DEF Send
  <2>6. Passed(m)' = Passed(m) \cup {Candidate(m)}
    <3>1. Passed(m)' = {Candidates(c.channel)[i] :
                          i \in {j \in 1..Len(Candidates(c.channel)) : j < c.at + 1}}
      BY <2>5, SameCandidates DEF Resolve, Passed
    <3>2. {j \in 1..Len(Candidates(c.channel)) : j < c.at + 1}
            = {j \in 1..Len(Candidates(c.channel)) : j < c.at} \cup {c.at}
      <4> DEFINE at == c.at
                 n == Len(Candidates(c.channel))
      <4>1. at \in 1..3 /\ n \in 0..2 /\ at <= n
        BY <1>1, <1>3, Zenon
      <4> HIDE DEF at, n
      <4>2. {j \in 1..n : j < at + 1} = {j \in 1..n : j < at} \cup {at}
        BY <4>1
      <4> QED BY <4>2 DEF at, n
    <3> QED BY <3>1, <3>2 DEF Passed, Candidate
  <2>7. Candidate(m) \in wasDown[m]
    BY <1>1, <1>5 DEF IndInv, SendKnows
  <2>8. pc = "probing" => c.at + 1 <= Len(Candidates(c.channel))
    BY <1>1, <1>3
  <2>9. pc = "unavailable" => c.at + 1 > Len(Candidates(c.channel))
    BY <1>1, <1>3
  <2>10. SendKnows(m)'
    <3> HIDE DEF pc
    <3> QED
      BY <1>3, <2>3, <2>5, <2>6, <2>7, <2>8, <2>9, SameCandidates
         DEF Resolve, SendKnows, InProgress
  <2> QED BY <1>2, <2>1, <2>4, <2>10, OneSendChanges DEF Resolve, IndInv, TypeOK
<1> QED BY <1>1, <1>4, <1>5

LEMMA ProviderTakesStep ==
  ASSUME IndInv, NEW m \in Messages, ProviderTakes(m)
  PROVE  IndInv'
<1> DEFINE c == [send[m] EXCEPT !.pc = "taken"]
<1>1. send[m] \in Send /\ send[m].pc = "sending"
  BY DEF ProviderTakes, IndInv, TypeOK
<1>2. Candidate(m) \in Providers
  BY <1>1, CandidateOrder DEF IndInv, SendKnows, InProgress, Candidate, Send
<1>3. c \in Send
  BY <1>1 DEF Send
<1>4. send' = [send EXCEPT ![m] = c]
  BY DEF ProviderTakes, IndInv, TypeOK
<1>5. /\ send'[m].pc = "taken"
      /\ send'[m].channel = send[m].channel /\ send'[m].at = send[m].at
  BY <1>1, <1>4 DEF Send, IndInv, TypeOK
<1>6. Candidate(m)' = Candidate(m) /\ Passed(m)' = Passed(m)
  BY <1>5, SameCandidates DEF ProviderTakes, Candidate, Passed
<1>7. /\ took' \in [Messages -> Seq(Providers)]
      /\ took'[m] = <<Candidate(m)>>
      /\ \A n \in Messages \ {m} : took'[n] = took[n]
  <2>1. took[m] = <<>>
    BY <1>1 DEF IndInv, SendKnows
  <2>2. Append(took[m], Candidate(m)) = <<Candidate(m)>>
    BY <2>1
  <2>3. Append(took[m], Candidate(m)) \in Seq(Providers)
    BY <1>2 DEF IndInv, TypeOK
  <2> QED BY <2>2, <2>3 DEF ProviderTakes, IndInv, TypeOK
<1>8. SendKnows(m)'
  BY <1>1, <1>5, <1>6, <1>7, SameCandidates
     DEF ProviderTakes, IndInv, SendKnows, InProgress
<1> QED BY <1>3, <1>4, <1>7, <1>8, OneSendChanges DEF ProviderTakes, IndInv, TypeOK

LEMMA SendFailsStep ==
  ASSUME IndInv, NEW m \in Messages, SendFails(m)
  PROVE  IndInv'
<1> DEFINE c == [send[m] EXCEPT !.pc = "failed"]
<1>1. send[m] \in Send /\ send[m].pc \in {"sending", "taken"}
  BY DEF SendFails, IndInv, TypeOK
<1>2. c \in Send
  BY <1>1 DEF Send
<1>3. send' = [send EXCEPT ![m] = c]
  BY DEF SendFails, GivenUp, IndInv, TypeOK
<1>4. /\ send'[m].pc = "failed"
      /\ send'[m].channel = send[m].channel /\ send'[m].at = send[m].at
  BY <1>1, <1>3 DEF Send, IndInv, TypeOK
<1>5. Candidate(m)' = Candidate(m) /\ Passed(m)' = Passed(m)
  BY <1>4, SameCandidates DEF SendFails, Candidate, Passed
<1>6. took[m] \in {<<>>, <<Candidate(m)>>}
  BY <1>1 DEF IndInv, SendKnows
<1>7. SendKnows(m)'
  BY <1>1, <1>4, <1>5, <1>6, SameCandidates
     DEF SendFails, IndInv, SendKnows, InProgress
<1> QED BY <1>2, <1>3, <1>7, OneSendChanges DEF SendFails, IndInv, TypeOK

LEMMA SendSucceedsStep ==
  ASSUME IndInv, NEW m \in Messages, SendSucceeds(m)
  PROVE  IndInv'
<1> DEFINE c == [send[m] EXCEPT !.pc = "sent"]
<1>1. send[m] \in Send /\ send[m].pc = "taken"
  BY DEF SendSucceeds, IndInv, TypeOK
<1>2. c \in Send
  BY <1>1 DEF Send
<1>3. send' = [send EXCEPT ![m] = c]
  BY DEF SendSucceeds, IndInv, TypeOK
<1>4. /\ send'[m].pc = "sent"
      /\ send'[m].channel = send[m].channel /\ send'[m].at = send[m].at
  BY <1>1, <1>3 DEF Send, IndInv, TypeOK
<1>5. Candidate(m)' = Candidate(m) /\ Passed(m)' = Passed(m)
  BY <1>4, SameCandidates DEF SendSucceeds, Candidate, Passed
<1>6. SendKnows(m)'
  BY <1>1, <1>4, <1>5, SameCandidates
     DEF SendSucceeds, IndInv, SendKnows, InProgress
<1> QED BY <1>2, <1>3, <1>6, OneSendChanges DEF SendSucceeds, IndInv, TypeOK

LEMMA AskStep ==
  ASSUME IndInv, NEW q \in Queries, Ask(q)
  PROVE  IndInv'
<1> DEFINE c == [query[q] EXCEPT !.pc = "asking", !.pending = RegisteredProviders]
<1>1. query[q] \in Query /\ query[q].pc = "none"
  BY DEF Ask, IndInv, TypeOK
<1>2. c \in Query
  BY <1>1, FewRegistered DEF Query
<1>3. query' = [query EXCEPT ![q] = c]
  BY DEF Ask, IndInv, TypeOK
<1>4. /\ query'[q].pc = "asking" /\ query'[q].pending = RegisteredProviders
      /\ query'[q].count = 0
  BY <1>1, <1>3 DEF Query, IndInv, TypeOK, QueryKnows
<1>5. /\ wasUp' \in [Queries -> SUBSET Providers]
      /\ wasUp'[q] = {p \in Providers : up[p]}
      /\ \A n \in Queries \ {q} : wasUp'[n] = wasUp[n]
  BY DEF Ask, IndInv, TypeOK
<1>6. QueryKnows(q)'
  <2>1. /\ up' = up
        /\ RegisteredProviders' = RegisteredProviders
    BY SameCandidates DEF Ask
  <2>2. /\ query'[q].count + Cardinality(query'[q].pending)
              <= Cardinality(RegisteredProviders)
        /\ RegisteredProviders \ query'[q].pending = {}
    BY <1>4, FewRegistered
  <2> QED BY <1>4, <1>5, <2>1, <2>2 DEF QueryKnows
<1> QED BY <1>2, <1>3, <1>5, <1>6, OneQueryChanges DEF Ask, IndInv, TypeOK

LEMMA QueryAnsweredStep ==
  ASSUME IndInv, NEW q \in Queries, NEW p \in Providers, QueryAnswered(q, p)
  PROVE  IndInv'
<1>1. PICK yes \in BOOLEAN :
        /\ yes => up[p]
        /\ query' = [query EXCEPT ![q].pending = @ \ {p},
                                  ![q].count = IF yes THEN @ + 1 ELSE @]
  BY DEF QueryAnswered
<1> DEFINE rest == query[q].pending \ {p}
           count == IF yes THEN query[q].count + 1 ELSE query[q].count
           c == [query[q] EXCEPT !.pending = rest, !.count = count]
<1>2. /\ query[q] \in Query /\ query[q].pc = "asking"
      /\ query[q].count \in 0..3
      /\ p \in query[q].pending /\ query[q].pending \subseteq RegisteredProviders
      /\ {r \in Providers : up[r]} \subseteq wasUp[q]
  BY DEF QueryAnswered, IndInv, TypeOK, QueryKnows, Query
<1>3. IsFiniteSet(query[q].pending)
  BY <1>2, FewRegistered, FS_Subset
<1>4. /\ IsFiniteSet(rest)
      /\ Cardinality(rest) = Cardinality(query[q].pending) - 1
  BY <1>2, <1>3, FS_RemoveElement
<1>5. Cardinality(rest) \in Nat /\ Cardinality(query[q].pending) \in Nat
  BY <1>3, <1>4, FS_CardinalityType
<1>6. query[q].count + Cardinality(query[q].pending) <= Cardinality(RegisteredProviders)
  BY <1>2 DEF IndInv, QueryKnows
<1>7. /\ count \in 0..3
      /\ count + Cardinality(rest) <= Cardinality(RegisteredProviders)
  BY <1>2, <1>4, <1>5, <1>6, FewRegistered
<1>8. count + Cardinality(rest) = Cardinality(RegisteredProviders) =>
        /\ yes
        /\ query[q].count + Cardinality(query[q].pending)
             = Cardinality(RegisteredProviders)
  BY <1>2, <1>4, <1>5, <1>6, FewRegistered
<1>9. count + Cardinality(rest) = Cardinality(RegisteredProviders) =>
        RegisteredProviders \ rest \subseteq wasUp[q]
  <2> SUFFICES ASSUME count + Cardinality(rest) = Cardinality(RegisteredProviders)
               PROVE  RegisteredProviders \ rest \subseteq wasUp[q]
    OBVIOUS
  <2>1. RegisteredProviders \ query[q].pending \subseteq wasUp[q]
    BY <1>2, <1>8 DEF IndInv, QueryKnows
  <2>2. p \in wasUp[q]
    BY <1>1, <1>2, <1>8
  <2> QED BY <2>1, <2>2
<1>10. c \in Query
  <2>1. rest \in SUBSET Providers
    BY <1>2, FewRegistered
  <2> HIDE DEF rest, count
  <2> QED BY <1>2, <1>7, <2>1 DEF Query
<1>11. query' = [query EXCEPT ![q] = c]
  BY <1>1 DEF IndInv, TypeOK
<1>12. /\ query'[q].pc = "asking" /\ query'[q].pending = rest
       /\ query'[q].count = count
  BY <1>2, <1>11 DEF Query, IndInv, TypeOK
<1>13. UNCHANGED <<config, up, changes, send, took, wasDown, wasUp>>
  BY DEF QueryAnswered
<1>14. QueryKnows(q)'
  <2> HIDE DEF rest, count
  <2>1. rest \subseteq RegisteredProviders
    BY <1>2 DEF rest
  <2> QED BY <1>2, <1>7, <1>9, <1>12, <1>13, <2>1, SameCandidates DEF QueryKnows
<1> QED BY <1>10, <1>11, <1>13, <1>14, OneQueryChanges DEF IndInv, TypeOK

LEMMA ReportStep ==
  ASSUME IndInv, NEW q \in Queries, Report(q)
  PROVE  IndInv'
<1> DEFINE c == [query[q] EXCEPT !.pc = Verdict(query[q].count)]
<1>1. query[q] \in Query /\ query[q].pc = "asking" /\ query[q].pending = {}
  BY DEF Report, IndInv, TypeOK
<1>2. Verdict(query[q].count) \in {"healthy", "degraded"}
  BY DEF Verdict
<1>3. c \in Query
  BY <1>1, <1>2 DEF Query
<1>4. query' = [query EXCEPT ![q] = c]
  BY DEF Report, IndInv, TypeOK
<1>5. query'[q].pc = Verdict(query[q].count)
  BY <1>1, <1>4 DEF Query, IndInv, TypeOK
<1>6. Verdict(query[q].count) = "healthy" => RegisteredProviders \subseteq wasUp[q]
  <2>1. Cardinality({}) = 0
    BY FS_EmptySet
  <2>2. query[q].count \in Nat
    BY <1>1 DEF Query
  <2>3. query[q].count + Cardinality(query[q].pending) = query[q].count
    BY <1>1, <2>1, <2>2
  <2> QED BY <1>1, <2>3 DEF Verdict, IndInv, QueryKnows
<1>7. QueryKnows(q)'
  BY <1>2, <1>5, <1>6, SameCandidates DEF Report, QueryKnows
<1> QED BY <1>3, <1>4, <1>7, OneQueryChanges DEF Report, IndInv, TypeOK

-----------------------------------------------------------------------------
(* The theorems *)

LEMMA NextIndInv == IndInv /\ [Next]_vars => IndInv'
<1> SUFFICES ASSUME IndInv, [Next]_vars
             PROVE  IndInv'
  OBVIOUS
<1>1. CASE UNCHANGED vars
  <2>1. \A m \in Messages : SendKnows(m)'
    BY <1>1, SendUntouched DEF vars, IndInv, SendKnows
  <2>2. \A q \in Queries : QueryKnows(q)'
    BY <1>1, QueryUntouched DEF vars, IndInv, QueryKnows
  <2>3. TypeOK'
    BY <1>1, <2>1 DEF vars, IndInv, TypeOK, SendKnows
  <2> QED BY <2>1, <2>2, <2>3 DEF IndInv
<1>2. CASE Next
  BY <1>2, ChangeHealthStep, DispatchStep, ProbeAnsweredStep, ProbeFailsStep,
     ResolveStep, ProviderTakesStep, SendFailsStep, SendSucceedsStep, AskStep,
     ReportStep, QueryAnsweredStep
     DEF Next
<1> QED BY <1>1, <1>2

LEMMA AlwaysIndInv == Spec => []IndInv
BY InitIndInv, NextIndInv, PTL DEF Spec

\* Every variable keeps its type, and a send that probes or sends always has a
\* candidate to do it with: the resolver's loop never runs past its list.
THEOREM TypesPreserved == Spec => []TypeOK
<1>1. IndInv => TypeOK
  BY DEF IndInv
<1> QED BY <1>1, AlwaysIndInv, PTL

\* For any number of sends and changes of health: the fallback is used only after
\* the primary was down or silent during this send, and a send finds no provider
\* only if that holds of all of them.
THEOREM FallbackIsEarned == Spec => []FallbackEarned
<1>1. IndInv => FallbackEarned
  <2> SUFFICES ASSUME IndInv, NEW m \in Messages
               PROVE  /\ /\ send[m].pc \in {"sending", "taken", "sent", "failed"}
                         /\ Candidate(m) \in ToSet(Fallbacks(send[m].channel))
                         => ToSet(Primaries(send[m].channel)) \subseteq wasDown[m]
                      /\ send[m].pc = "unavailable" =>
                           ToSet(Candidates(send[m].channel)) \subseteq wasDown[m]
    BY DEF FallbackEarned
  <2>1. send[m].channel \in Channels /\ send[m].at \in 1..3
    BY DEF IndInv, TypeOK, Send
  <2>2. ASSUME send[m].pc \in {"sending", "taken", "sent", "failed"},
               Candidate(m) \in ToSet(Fallbacks(send[m].channel))
        PROVE  ToSet(Primaries(send[m].channel)) \subseteq wasDown[m]
    <3>1. send[m].at \in 1..Len(Candidates(send[m].channel))
      BY <2>1, <2>2, CandidateOrder DEF IndInv, SendKnows, InProgress
    <3>2. /\ send[m].at = 2
          /\ ToSet(Primaries(send[m].channel)) = {Candidates(send[m].channel)[1]}
      BY <2>1, <2>2, <3>1, FallbackIsSecond DEF Candidate
    <3>3. Candidates(send[m].channel)[1] \in Passed(m)
      BY <2>1, <3>1, <3>2, CandidateOrder DEF Passed
    <3>4. Passed(m) \subseteq wasDown[m]
      BY <2>2 DEF IndInv, SendKnows
    <3> QED BY <3>2, <3>3, <3>4
  <2>3. ASSUME send[m].pc = "unavailable"
        PROVE  ToSet(Candidates(send[m].channel)) \subseteq wasDown[m]
    <3>1. \A i \in 1..Len(Candidates(send[m].channel)) : i < send[m].at
      BY <2>1, <2>3, CandidateOrder DEF IndInv, SendKnows
    <3>2. ToSet(Candidates(send[m].channel)) \subseteq Passed(m)
      BY <3>1 DEF Passed, ToSet
    <3>3. Passed(m) \subseteq wasDown[m]
      BY <2>3 DEF IndInv, SendKnows
    <3> QED BY <3>2, <3>3
  <2> QED BY <2>2, <2>3
<1> QED BY <1>1, AlwaysIndInv, PTL

\* For any number of sends and changes of health: no message is taken by two
\* providers, and one reported as sent was taken by the provider chosen for it.
THEOREM OneProviderTakes == Spec => []TakenByOneProvider
<1>1. IndInv => TakenByOneProvider
  <2> SUFFICES ASSUME IndInv, NEW m \in Messages
               PROVE  /\ Len(took[m]) <= 1
                      /\ send[m].pc = "sent" => took[m] = <<Candidate(m)>>
    BY DEF TakenByOneProvider
  <2>1. took[m] = <<>> \/ took[m] = <<Candidate(m)>>
    BY DEF IndInv, SendKnows
  <2>2. Len(<<>>) = 0 /\ Len(<<Candidate(m)>>) = 1
    OBVIOUS
  <2> DEFINE n == Len(took[m])
  <2>3. n = 0 \/ n = 1
    BY <2>1, <2>2, Zenon
  <2>4. n <= 1
    <3> HIDE DEF n
    <3> QED BY <2>3
  <2> QED BY <2>4 DEF IndInv, SendKnows
<1> QED BY <1>1, AlwaysIndInv, PTL

\* For any number of health queries: a gateway reported as healthy had each of its
\* providers up at some moment of the query.
THEOREM HealthySawEachUp == Spec => []HealthyMeansEachWasUp
<1>1. IndInv => HealthyMeansEachWasUp
  BY DEF IndInv, QueryKnows, HealthyMeansEachWasUp
<1> QED BY <1>1, AlwaysIndInv, PTL

=============================================================================
