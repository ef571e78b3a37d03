-------------------------- MODULE SmtpSessionProofs --------------------------
(***************************************************************************)
(* Theorems about SmtpSession: whatever the chunks, the timers, the peer   *)
(* and the other sends do, for capabilities and tokens of any number.      *)
(***************************************************************************)
EXTENDS SmtpSession, SequenceTheorems, TLAPS

-----------------------------------------------------------------------------
(* The inductive invariant *)

\* The current command has left and its reply is awaited, or will be.
Asked == client.pc = "waiting" \/ (client.pc = "writing" /\ client.flushed)

\* Between two commands: no reply is outstanding.
Between == \/ client.pc \in {"fetching", "wrapping"}
           \/ client.pc = "writing" /\ ~client.flushed

\* What goes with each await.
StageInv ==
  /\ client.pc = "connecting" => client.cmd = "CONNECT"
  /\ \/ server.due \in {"none", client.cmd}
     \/ server.due = "AUTH XOAUTH2" /\ client.pc \in {"connecting", "over"}
  /\ client.pc = "fetching" => client.cmd \in {"EHLO", "EHLO AGAIN"}
  /\ client.pc = "wrapping" => client.cmd = "STARTTLS"
  /\ client.second =>
       client.cmd = "AUTH XOAUTH2" /\ client.pc \in {"waiting", "over"}
  /\ client.outcome = "none" <=> client.pc # "over"
  /\ client.outcome = "sent" => config.probe \/ client.cmd = "QUIT"

\* The challenge of the AUTH exchange is the only reply that another one follows.
Challenges(cmd, second) == cmd = "AUTH XOAUTH2" /\ ~second

\* What one line of the answer to cmd, its i-th, may be.
LineFits(line, i, cmd, second, s) ==
  /\ line.of = cmd \/ (line.of = "none" /\ line.code = "fail")
  /\ line.code = "more" =>
       cmd \in {"AUTH LOGIN", "USERNAME"} \/ (Challenges(cmd, second) /\ i = 1)
  /\ cmd = "BODY" /\ line.code = "ok" => s.accepted = 1

\* p is, or begins, what a server s may have answered to a command: one reply, a
\* challenge and a reply, or the first lines of a reply with which the client gets
\* stuck.
Expected(p, cmd, second, s) ==
  /\ \A i \in 1..Len(p) : LineFits(p[i], i, cmd, second, s)
  /\ Len(p) > 1 =>
       ~p[1].last \/ (Challenges(cmd, second) /\ Len(p) = 2 /\ p[1].code = "more")
  /\ s.due # "none" =>
       p = <<>> \/ (Challenges(cmd, second) /\ Len(p) = 1 /\ p[1].code = "more")
  /\ s.due = "AUTH XOAUTH2" /\ (second \/ p # <<>>) => s.challenged

\* The lines on their way, those in the buffer first, answer the current command.
StreamInv ==
  /\ Asked => Expected(buffer \o wire, client.cmd, client.second, server)
  /\ Between => buffer = <<>> /\ wire = <<>> /\ server.due = "none"

\* Tokens are issued in ascending order, so a token that is not older than the
\* rejected one is another.
TokenInv ==
  /\ client.token <= issued /\ client.rejected <= issued
  /\ client.attempt = 2 =>
       /\ cached = 0 \/ cached > client.rejected
       /\ client.token = 0 \/ client.token > client.rejected

\* The server takes a mail only in answer to its body, and once.
MailInv ==
  /\ server.accepted <= 1
  /\ server.accepted = 1 => client.cmd \in {"BODY", "QUIT"}
  /\ client.cmd = "QUIT" => server.accepted = 1
  /\ client.cmd = "BODY" /\ (server.due = "BODY" \/ Between) => server.accepted = 0

SessionInv ==
  /\ TypeOK
  /\ ~mixed
  /\ StageInv
  /\ StreamInv
  /\ TokenInv
  /\ MailInv
  /\ SessionReleased

-----------------------------------------------------------------------------
(* What the updates of the client set *)

Errors == Commands \cup {"none", "WRITE", "READ", "SOCKET", "AUTH", "FETCH"}

\* What a reply or a failure finds in the client it updates.
Carried(c, d) == /\ d.attempt = c.attempt /\ d.token = c.token /\ d.rejected = c.rejected

LEMMA ZeroLeast == \A k \in Nat : 0 <= k /\ 0 \in 0..k
OBVIOUS

LEMMA Successor ==
  ASSUME NEW n \in Nat
  PROVE  n + 1 \in Nat /\ n + 1 \in 0..n + 1 /\ \A k \in Nat : k <= n => k < n + 1
OBVIOUS

LEMMA Positive ==
  ASSUME NEW m \in Nat, NEW n, n \in 1..m + 1 \/ n = 1
  PROVE  n \in Nat /\ n > 0
OBVIOUS

LEMMA WriteSets ==
  ASSUME client \in Client, NEW cmd \in Commands, Write(cmd)
  PROVE  /\ client' \in Client /\ client'.pc = "writing" /\ client'.cmd = cmd
         /\ client'.flushed = FALSE /\ client'.second = FALSE
         /\ client'.outcome = client.outcome /\ Carried(client, client')
BY DEF Write, Client, Carried

\* The connection of a second attempt.
Repeats ==
  /\ client'.pc = "connecting" /\ client'.cmd = "CONNECT" /\ client'.second = FALSE
  /\ client'.attempt = 2 /\ client'.token = 0 /\ client'.rejected = client.token
  /\ client'.outcome = "none" /\ cached' = 0

Ends ==
  /\ client'.pc = "over" /\ client'.outcome = "failed" /\ client'.cmd = client.cmd
  /\ client'.second = client.second /\ Carried(client, client') /\ cached' = cached

LEMMA ThrowSets ==
  ASSUME client \in Client, NEW error \in Errors, Throw(error)
  PROVE  /\ client' \in Client
         /\ (error = "AUTH XOAUTH2" /\ Repeats) \/ Ends
<1>1. CASE Retries(error)
  <2> DEFINE n == client.attempt + 1
             t == client.token
  <2>0. error = "AUTH XOAUTH2"
    BY <1>1 DEF Retries
  <2>1. n = 2 /\ n \in 1..2 /\ t \in Nat
    <3>1. n = 2
      <4>1. client.attempt = 1
        BY <1>1 DEF Retries
      <4> QED BY <4>1
    <3>2. t \in Nat
      BY DEF Client
    <3> HIDE DEF n
    <3> QED BY <3>1, <3>2
  <2>2. client' = [NewClient EXCEPT !.attempt = n, !.rejected = t] /\ cached' = 0
    BY <1>1 DEF Throw
  <2> HIDE DEF n, t
  <2>3. client' = [pc |-> "connecting", cmd |-> "CONNECT", flushed |-> FALSE,
                   second |-> FALSE, attempt |-> n, token |-> 0, rejected |-> t,
                   outcome |-> "none", error |-> "none"]
    BY <2>2 DEF NewClient
  <2>4. client' \in Client
    BY <2>1, <2>3 DEF Client, Commands
  <2>5. /\ client'.pc = "connecting" /\ client'.cmd = "CONNECT" /\ client'.second = FALSE
        /\ client'.attempt = n /\ client'.token = 0 /\ client'.rejected = t
        /\ client'.outcome = "none"
    BY <2>3
  <2>6. Repeats
    BY <2>1, <2>2, <2>5 DEF Repeats, t
  <2> QED BY <2>0, <2>4, <2>6
<1>2. CASE ~Retries(error)
  <2>1. client' = [client EXCEPT !.pc = "over", !.outcome = "failed", !.error = error]
        /\ cached' = cached
    BY <1>2 DEF Throw
  <2>2. client' \in Client
    BY <2>1 DEF Client, Errors
  <2>3. Ends
    BY <2>1, <2>2 DEF Client, Ends, Carried
  <2> QED BY <2>2, <2>3
<1> QED BY <1>1, <1>2

-----------------------------------------------------------------------------
(* What the invariant says at the awaits *)

LEMMA SequelFacts ==
  ASSUME config \in Config, NEW cmd \in Commands
  PROVE  /\ Sequel(cmd) \in Commands \cup {"close", "wrap", "token", "no auth", "no mechanism"}
         /\ Sequel(cmd) = "close" => cmd = "QUIT" \/ (cmd = "EHLO" /\ config.probe)
         /\ Sequel(cmd) = "wrap" => cmd = "STARTTLS"
         /\ Sequel(cmd) \in {"token", "no auth", "no mechanism"} => cmd \in {"EHLO", "EHLO AGAIN"}
         /\ Sequel(cmd) = "QUIT" <=> cmd = "BODY"
         /\ Sequel(cmd) \in {"STARTTLS"} => cmd = "EHLO"
<1>1. Authenticate \in {"no auth", "token", "AUTH LOGIN", "AUTH PLAIN", "no mechanism"}
  BY DEF Authenticate
<1>2. CASE cmd = "EHLO"
  BY <1>1, <1>2 DEF Sequel, Commands
<1>3. CASE cmd = "EHLO AGAIN"
  BY <1>1, <1>3 DEF Sequel, Commands
<1>4. CASE cmd \in {"CONNECT", "STARTTLS", "AUTH LOGIN", "USERNAME"}
  BY <1>4 DEF Sequel, Commands
<1>5. CASE cmd \in {"PASSWORD", "AUTH PLAIN", "AUTH XOAUTH2"}
  BY <1>5 DEF Sequel, Commands
<1>6. CASE cmd \in {"MAIL FROM", "RCPT TO", "DATA"}
  BY <1>6 DEF Sequel, Commands
<1>7. CASE cmd \in {"BODY", "QUIT"}
  BY <1>7 DEF Sequel, Commands
<1> QED BY <1>2, <1>3, <1>4, <1>5, <1>6, <1>7 DEF Commands

\* A failed attempt: whatever it leaves in the buffer and the socket, the session is
\* over with the socket released, or a new connection is made with another token.
LEMMA ThrowKeeps ==
  ASSUME SessionInv, NEW error \in Errors, Throw(error),
         error = "AUTH XOAUTH2" =>
           /\ client.cmd \in {"AUTH XOAUTH2", "EHLO", "EHLO AGAIN"}
           /\ server.due \in {"none", "AUTH XOAUTH2"},
         UNCHANGED <<config, server, issued, mixed>>,
         buffer' \in Seq(Line), wire' \in Seq(Line),
         socket' \in {"none", "open", "closed", "destroyed"}, attached' \in BOOLEAN,
         client.cmd # "CONNECT" => socket' = "destroyed" /\ ~attached'
  PROVE  SessionInv'
<1> client \in Client
  BY DEF SessionInv, TypeOK
<1>1. client' \in Client /\ ((error = "AUTH XOAUTH2" /\ Repeats) \/ Ends)
  BY ThrowSets
<1>2. CASE error = "AUTH XOAUTH2" /\ Repeats
  <2>0. /\ client'.pc = "connecting" /\ client'.cmd = "CONNECT" /\ client'.second = FALSE
        /\ client'.attempt = 2 /\ client'.token = 0 /\ client'.rejected = client.token
        /\ client'.outcome = "none" /\ cached' = 0
    BY <1>2 DEF Repeats
  <2> DEFINE zero == 0
  <2>7. cached' = zero /\ client'.token = zero
    BY <2>0
  <2>8. /\ zero \in Nat /\ issued \in Nat /\ issued' = issued
        /\ \A k \in Nat : zero <= k /\ zero \in 0..k
    <3>1. issued \in Nat /\ issued' = issued
      BY DEF SessionInv, TypeOK
    <3>2. \A k \in Nat : zero <= k /\ zero \in 0..k
      BY ZeroLeast
    <3>3. zero \in Nat
      OBVIOUS
    <3> QED BY <3>1, <3>2, <3>3
  <2> HIDE DEF zero
  <2>1. TypeOK'
    BY <1>1, <2>7, <2>8 DEF SessionInv, TypeOK
  <2>2. StageInv'
    <3>1. server'.due \in {"none", "AUTH XOAUTH2"}
      BY <1>2
    <3> QED BY <2>0, <3>1 DEF StageInv
  <2>3. StreamInv'
    BY <2>0 DEF StreamInv, Asked, Between
  <2>4. TokenInv'
    <3>1. client.token \in Nat /\ client.token <= issued
      BY DEF SessionInv, TypeOK, TokenInv, Client
    <3> QED BY <2>0, <2>7, <2>8, <3>1 DEF TokenInv, zero
  <2>5. MailInv'
    <3>1. server.accepted \in Nat /\ server.accepted <= 1
          /\ server.accepted # 1
      BY <1>2 DEF SessionInv, TypeOK, MailInv
    <3> QED BY <2>0, <3>1 DEF MailInv
  <2>6. SessionReleased'
    BY <2>0 DEF SessionReleased
  <2> QED BY <2>1, <2>2, <2>3, <2>4, <2>5, <2>6 DEF SessionInv
<1>3. CASE Ends
  <2> USE DEF Ends, Carried
  <2>1. TypeOK'
    BY <1>1, <1>3 DEF SessionInv, TypeOK
  <2>2. StageInv'
    BY <1>3 DEF SessionInv, StageInv
  <2>3. StreamInv'
    BY <1>3 DEF StreamInv, Asked, Between
  <2>4. TokenInv'
    BY <1>3 DEF SessionInv, TokenInv
  <2>5. MailInv'
    BY <1>3 DEF SessionInv, MailInv, Between
  <2>6. SessionReleased'
    BY <1>3 DEF SessionReleased
  <2> QED BY <2>1, <2>2, <2>3, <2>4, <2>5, <2>6 DEF SessionInv
<1> QED BY <1>1, <1>2, <1>3

\* A pending promise rejects.
LEMMA FailKeeps ==
  ASSUME SessionInv, client.pc \in {"waiting", "writing"},
         NEW error \in Errors, error # "AUTH XOAUTH2",
         NEW peer \in {"none", "open", "closed", "destroyed"},
         Fail(error, peer) \/ Fail(client.cmd, peer),
         UNCHANGED <<config, server, issued, mixed, buffer>>, wire' \in Seq(Line)
  PROVE  SessionInv'
<1>1. PICK e \in Errors : Fail(e, peer) /\ (e = "AUTH XOAUTH2" => client.cmd = "AUTH XOAUTH2")
  BY DEF SessionInv, TypeOK, Client, Errors
<1>2. Named(e) \in Errors /\ (Named(e) = "AUTH XOAUTH2" => client.cmd = "AUTH XOAUTH2")
  BY <1>1 DEF Named, Errors, Commands
<1>3. /\ Throw(Named(e))
      /\ client.cmd # "CONNECT" => socket' = "destroyed" /\ ~attached'
      /\ socket' \in {"none", "open", "closed", "destroyed"} /\ attached' \in BOOLEAN
  BY <1>1 DEF Fail, CloseSocket, SessionInv, TypeOK
<1>4. buffer' \in Seq(Line)
  BY DEF SessionInv, TypeOK
<1>5. Named(e) = "AUTH XOAUTH2" =>
        client.cmd = "AUTH XOAUTH2" /\ server.due \in {"none", "AUTH XOAUTH2"}
  BY <1>2 DEF SessionInv, StageInv
<1> QED BY <1>2, <1>3, <1>4, <1>5, ThrowKeeps

-----------------------------------------------------------------------------
(* Steps that leave the replies alone *)

LEMMA InitSession == Init => SessionInv
<1> SUFFICES ASSUME Init PROVE SessionInv
  OBVIOUS
<1> USE DEF Init
<1>1. TypeOK
  <2>1. client \in Client
    BY DEF NewClient, Client, Commands
  <2>2. server \in [due : Commands \cup {"none"}, challenged : BOOLEAN, accepted : Nat]
    BY DEF Commands
  <2>3. buffer \in Seq(Line) /\ wire \in Seq(Line)
    OBVIOUS
  <2>4. cached \in 0..issued /\ issued \in Nat
    OBVIOUS
  <2> QED BY <2>1, <2>2, <2>3, <2>4 DEF TypeOK
<1>2. StageInv
  BY DEF NewClient, StageInv
<1>3. StreamInv
  BY DEF NewClient, StreamInv, Asked, Between
<1>4. TokenInv
  <2>1. client.token = 0 /\ client.rejected = 0 /\ client.attempt = 1 /\ issued = 0
    BY DEF NewClient
  <2> QED BY <2>1 DEF TokenInv
<1>5. MailInv
  <2>1. client.cmd = "CONNECT"
    BY DEF NewClient
  <2>2. server.accepted = 0
    OBVIOUS
  <2> QED BY <2>1, <2>2 DEF MailInv
<1>6. SessionReleased
  BY DEF NewClient, SessionReleased
<1> QED BY <1>1, <1>2, <1>3, <1>4, <1>5, <1>6 DEF SessionInv

LEMMA NoLines == Len(<<>>) = 0 /\ ~(Len(<<>>) > 1) /\ \A i \in 1..Len(<<>>) : FALSE
<1>1. Len(<<>>) = 0
  OBVIOUS
<1>2. \A i \in 1..0 : FALSE
  OBVIOUS
<1>3. ~(0 > 1)
  OBVIOUS
<1> QED BY <1>1, <1>2, <1>3

\* No reply has begun to arrive.
LEMMA NothingExpected ==
  ASSUME NEW cmd, NEW second, NEW s, s.due = "AUTH XOAUTH2" /\ second => s.challenged
  PROVE  Expected(<<>>, cmd, second, s)
BY NoLines, Zenon DEF Expected

LEMMA StutterKeeps == SessionInv /\ UNCHANGED vars => SessionInv'
<1> SUFFICES ASSUME SessionInv, UNCHANGED vars PROVE SessionInv'
  OBVIOUS
<1> USE DEF vars
<1>1. TypeOK' /\ ~mixed'
  BY DEF SessionInv, TypeOK
<1>2. StageInv'
  BY DEF SessionInv, StageInv
<1>3. StreamInv'
  BY DEF SessionInv, StreamInv, Asked, Between
<1>4. TokenInv' /\ MailInv' /\ SessionReleased'
  BY DEF SessionInv, TokenInv, MailInv, SessionReleased, Between
<1> QED BY <1>1, <1>2, <1>3, <1>4 DEF SessionInv

LEMMA ConnectedKeeps == SessionInv /\ Connected => SessionInv'
<1> SUFFICES ASSUME SessionInv, Connected PROVE SessionInv'
  OBVIOUS
<1> USE DEF Connected
<1>1. client.pc = "connecting" /\ client.cmd = "CONNECT" /\ ~client.second
  BY DEF SessionInv, StageInv
<1>2. /\ client' \in Client /\ client'.pc = "waiting" /\ client'.cmd = "CONNECT"
      /\ client'.second = client.second /\ Carried(client, client')
      /\ client'.outcome = client.outcome
  BY <1>1 DEF SessionInv, TypeOK, Client, Carried
<1>3. server'.due = "CONNECT" /\ server'.accepted = server.accepted
      /\ server' \in [due : Commands \cup {"none"}, challenged : BOOLEAN, accepted : Nat]
  BY DEF SessionInv, TypeOK, Commands
<1>4. TypeOK'
  BY <1>2, <1>3 DEF SessionInv, TypeOK
<1>5. StageInv'
  BY <1>1, <1>2, <1>3 DEF SessionInv, StageInv
<1>6. StreamInv'
  <2>1. buffer' \o wire' = <<>>
    OBVIOUS
  <2>2. Expected(<<>>, "CONNECT", client.second, server')
    BY <1>1, <1>3, NothingExpected
  <2> QED BY <1>2, <2>1, <2>2 DEF StreamInv, Between
<1>7. TokenInv'
  BY <1>2 DEF SessionInv, TokenInv, Carried
<1>8. MailInv'
  BY <1>1, <1>2, <1>3 DEF SessionInv, MailInv
<1> QED BY <1>2, <1>4, <1>5, <1>6, <1>7, <1>8 DEF SessionInv, SessionReleased

LEMMA FlushKeeps == SessionInv /\ Flush => SessionInv'
<1> SUFFICES ASSUME SessionInv, Flush PROVE SessionInv'
  OBVIOUS
<1> USE DEF Flush
<1>1. client.pc = "writing" /\ ~client.second /\ Between
  BY DEF SessionInv, StageInv, Between
<1>2. /\ client' \in Client /\ client'.pc = "writing" /\ client'.cmd = client.cmd
      /\ client'.second = client.second /\ Carried(client, client')
      /\ client'.outcome = client.outcome /\ client'.flushed
  BY <1>1 DEF SessionInv, TypeOK, Client, Carried
<1>3. server'.due = client.cmd /\ server'.accepted = server.accepted
      /\ server' \in [due : Commands \cup {"none"}, challenged : BOOLEAN, accepted : Nat]
  BY DEF SessionInv, TypeOK, Client
<1>4. TypeOK'
  BY <1>2, <1>3 DEF SessionInv, TypeOK
<1>5. StageInv'
  BY <1>1, <1>2, <1>3 DEF SessionInv, StageInv
<1>6. StreamInv'
  <2>1. buffer' \o wire' = <<>>
    BY <1>1 DEF SessionInv, StreamInv
  <2>2. Expected(<<>>, client.cmd, client.second, server')
    BY <1>1, NothingExpected
  <2> QED BY <1>2, <2>1, <2>2 DEF StreamInv, Between
<1>7. TokenInv'
  BY <1>2 DEF SessionInv, TokenInv, Carried
<1>8. MailInv'
  BY <1>1, <1>2, <1>3 DEF SessionInv, MailInv
<1> QED BY <1>2, <1>4, <1>5, <1>6, <1>7, <1>8 DEF SessionInv, SessionReleased

LEMMA WrapDoneKeeps == SessionInv /\ WrapDone => SessionInv'
<1> SUFFICES ASSUME SessionInv, WrapDone PROVE SessionInv'
  OBVIOUS
<1> USE DEF WrapDone
<1>1. client.pc = "wrapping" /\ client.cmd = "STARTTLS" /\ Between /\ client \in Client
  BY DEF SessionInv, StageInv, Between, TypeOK
<1>2. /\ client' \in Client /\ client'.pc = "writing" /\ client'.cmd = "EHLO AGAIN"
      /\ client'.flushed = FALSE /\ client'.second = FALSE
      /\ client'.outcome = client.outcome /\ Carried(client, client')
  BY <1>1, WriteSets DEF Commands
<1>3. TypeOK'
  BY <1>2 DEF SessionInv, TypeOK
<1>4. server.due = "none" /\ buffer = <<>> /\ wire = <<>>
  BY <1>1 DEF SessionInv, StreamInv
<1>5. StageInv'
  BY <1>1, <1>2, <1>4 DEF SessionInv, StageInv
<1>6. StreamInv'
  BY <1>2, <1>4 DEF StreamInv, Asked
<1>7. TokenInv'
  BY <1>2 DEF SessionInv, TokenInv, Carried
<1>8. MailInv'
  BY <1>1, <1>2 DEF SessionInv, MailInv
<1> QED BY <1>2, <1>3, <1>5, <1>6, <1>7, <1>8 DEF SessionInv, SessionReleased

LEMMA TokenFetchedKeeps == SessionInv /\ TokenFetched => SessionInv'
<1> SUFFICES ASSUME SessionInv, TokenFetched PROVE SessionInv'
  OBVIOUS
<1> DEFINE t == issued + 1
<1>0. issued' = t /\ cached' = t
      /\ client' = [client EXCEPT !.pc = "writing", !.cmd = "AUTH XOAUTH2",
                                  !.flushed = FALSE, !.token = t]
  BY DEF TokenFetched
<1>1. issued \in Nat /\ t \in Nat /\ t \in 0..t /\ \A k \in Nat : k <= issued => k < t
  <2>1. issued \in Nat
    BY DEF SessionInv, TypeOK
  <2> QED BY <2>1, Successor
<1> HIDE DEF t
<1> USE DEF TokenFetched
<1>2. client.pc = "fetching" /\ client.cmd \in {"EHLO", "EHLO AGAIN"} /\ ~client.second /\ Between
  BY DEF SessionInv, StageInv, Between
<1>3. server.due = "none" /\ buffer = <<>> /\ wire = <<>>
  BY <1>2 DEF SessionInv, StreamInv
<1>4. client' \in Client
  BY <1>0, <1>1 DEF SessionInv, TypeOK, Client, Commands
<1>5. /\ client'.pc = "writing" /\ client'.cmd = "AUTH XOAUTH2" /\ client'.flushed = FALSE
      /\ client'.second = client.second /\ client'.outcome = client.outcome
      /\ client'.attempt = client.attempt /\ client'.token = t
      /\ client'.rejected = client.rejected
  BY <1>0 DEF SessionInv, TypeOK, Client
<1>6. TypeOK'
  BY <1>0, <1>1, <1>4 DEF SessionInv, TypeOK
<1>7. StageInv'
  BY <1>2, <1>3, <1>5 DEF SessionInv, StageInv
<1>8. StreamInv'
  BY <1>3, <1>5 DEF StreamInv, Asked
<1>9. TokenInv'
  <2>1. client.rejected \in Nat /\ client.rejected <= issued
    BY DEF SessionInv, TypeOK, TokenInv, Client
  <2>2. client.rejected < t /\ t <= t
    BY <1>1, <2>1
  <2> QED BY <1>0, <1>1, <1>5, <2>1, <2>2 DEF TokenInv
<1>10. MailInv'
  BY <1>2, <1>5 DEF SessionInv, MailInv
<1> QED BY <1>5, <1>6, <1>7, <1>8, <1>9, <1>10 DEF SessionInv, SessionReleased

LEMMA OtherSendKeeps == SessionInv /\ OtherSend => SessionInv'
<1> SUFFICES ASSUME SessionInv, OtherSend PROVE SessionInv'
  OBVIOUS
<1> USE DEF OtherSend
<1>1. issued \in Nat /\ issued + 1 \in Nat /\ issued + 1 \in 0..issued + 1
      /\ \A k \in Nat : k <= issued => k < issued + 1
  <2>1. issued \in Nat
    BY DEF SessionInv, TypeOK
  <2> QED BY <2>1, Successor
<1>2. TypeOK' /\ ~mixed'
  BY <1>1 DEF SessionInv, TypeOK
<1>3. StageInv'
  BY DEF SessionInv, StageInv
<1>4. StreamInv'
  BY DEF SessionInv, StreamInv, Asked, Between
<1>5. TokenInv'
  <2>1. /\ client.token \in Nat /\ client.rejected \in Nat
        /\ client.token <= issued /\ client.rejected <= issued
        /\ client.attempt = 2 => client.token = 0 \/ client.token > client.rejected
    BY DEF SessionInv, TypeOK, TokenInv, Client
  <2> QED BY <1>1, <2>1 DEF TokenInv
<1>6. MailInv' /\ SessionReleased'
  BY DEF SessionInv, MailInv, SessionReleased, Between
<1> QED BY <1>2, <1>3, <1>4, <1>5, <1>6 DEF SessionInv

LEMMA TokenExpiresKeeps == SessionInv /\ TokenExpires => SessionInv'
<1> SUFFICES ASSUME SessionInv, TokenExpires PROVE SessionInv'
  OBVIOUS
<1> USE DEF TokenExpires
<1>1. TypeOK' /\ ~mixed'
  <2>1. cached' \in 0..issued'
    BY ZeroLeast DEF SessionInv, TypeOK
  <2> QED BY <2>1 DEF SessionInv, TypeOK
<1>2. StageInv'
  BY DEF SessionInv, StageInv
<1>3. StreamInv'
  BY DEF SessionInv, StreamInv, Asked, Between
<1>4. TokenInv'
  BY DEF SessionInv, TokenInv
<1>5. MailInv' /\ SessionReleased'
  BY DEF SessionInv, MailInv, SessionReleased, Between
<1> QED BY <1>1, <1>2, <1>3, <1>4, <1>5 DEF SessionInv

-----------------------------------------------------------------------------
(* Failures *)

LEMMA ConnectFailsKeeps == SessionInv /\ ConnectFails => SessionInv'
<1> SUFFICES ASSUME SessionInv, ConnectFails PROVE SessionInv'
  OBVIOUS
<1>1. client.cmd = "CONNECT"
  BY DEF ConnectFails, SessionInv, StageInv
<1>2. "CONNECT" \in Errors /\ "CONNECT" # "AUTH XOAUTH2" /\ Throw("CONNECT")
      /\ UNCHANGED <<config, server, issued, mixed>> /\ socket' = "destroyed"
  BY DEF ConnectFails, Errors, Commands
<1>3. buffer' \in Seq(Line) /\ wire' \in Seq(Line) /\ attached' \in BOOLEAN
  BY DEF ConnectFails, SessionInv, TypeOK
<1> QED BY <1>1, <1>2, <1>3, ThrowKeeps

LEMMA WrapFailsKeeps == SessionInv /\ WrapFails => SessionInv'
<1> SUFFICES ASSUME SessionInv, WrapFails PROVE SessionInv'
  OBVIOUS
<1>1. "STARTTLS" \in Errors /\ "STARTTLS" # "AUTH XOAUTH2" /\ Throw("STARTTLS")
      /\ UNCHANGED <<config, server, issued, mixed>> /\ socket' = "destroyed" /\ ~attached'
  BY DEF WrapFails, Errors, Commands, CloseSocket
<1>2. buffer' \in Seq(Line) /\ wire' \in Seq(Line) /\ attached' \in BOOLEAN
  BY DEF WrapFails, CloseSocket, SessionInv, TypeOK
<1> QED BY <1>1, <1>2, ThrowKeeps

LEMMA TokenRefusedKeeps == SessionInv /\ TokenRefused => SessionInv'
<1> SUFFICES ASSUME SessionInv, TokenRefused PROVE SessionInv'
  OBVIOUS
<1>1. PICK error \in {"AUTH XOAUTH2", "FETCH"} : Throw(error)
  BY DEF TokenRefused
<1>2. error \in Errors /\ UNCHANGED <<config, server, issued, mixed>>
      /\ socket' = "destroyed" /\ ~attached'
  BY <1>1 DEF TokenRefused, Errors, Commands, CloseSocket
<1>3. buffer' \in Seq(Line) /\ wire' \in Seq(Line) /\ attached' \in BOOLEAN
  BY DEF TokenRefused, CloseSocket, SessionInv, TypeOK
<1>4. client.cmd \in {"AUTH XOAUTH2", "EHLO", "EHLO AGAIN"}
      /\ server.due \in {"none", "AUTH XOAUTH2"}
  BY DEF TokenRefused, SessionInv, StageInv, StreamInv, Between
<1> QED BY <1>1, <1>2, <1>3, <1>4, ThrowKeeps

LEMMA WriteFailsKeeps == SessionInv /\ WriteFails => SessionInv'
<1> SUFFICES ASSUME SessionInv, WriteFails PROVE SessionInv'
  OBVIOUS
<1>1. "WRITE" \in Errors /\ "WRITE" # "AUTH XOAUTH2" /\ client.pc = "writing"
      /\ Fail("WRITE", socket) /\ UNCHANGED <<config, server, issued, mixed, buffer>>
  BY DEF WriteFails, Errors
<1>2. wire' \in Seq(Line) /\ socket \in {"none", "open", "closed", "destroyed"}
  BY DEF WriteFails, SessionInv, TypeOK
<1> QED BY <1>1, <1>2, FailKeeps

LEMMA TimeoutKeeps == SessionInv /\ Timeout => SessionInv'
<1> SUFFICES ASSUME SessionInv, Timeout PROVE SessionInv'
  OBVIOUS
<1>1. "READ" \in Errors /\ "READ" # "AUTH XOAUTH2" /\ client.pc = "waiting"
      /\ Fail(client.cmd, socket) /\ UNCHANGED <<config, server, issued, mixed, buffer>>
  BY DEF Timeout, Errors
<1>2. wire' \in Seq(Line) /\ socket \in {"none", "open", "closed", "destroyed"}
  BY DEF Timeout, SessionInv, TypeOK
<1> QED BY <1>1, <1>2, FailKeeps

LEMMA OverlongLineKeeps == SessionInv /\ OverlongLine => SessionInv'
<1> SUFFICES ASSUME SessionInv, OverlongLine PROVE SessionInv'
  OBVIOUS
<1>1. "READ" \in Errors /\ "READ" # "AUTH XOAUTH2" /\ client.pc = "waiting"
      /\ Fail("READ", socket) /\ UNCHANGED <<config, server, issued, mixed, buffer>>
  BY DEF OverlongLine, Errors
<1>2. wire' \in Seq(Line) /\ socket \in {"none", "open", "closed", "destroyed"}
  BY DEF OverlongLine, SessionInv, TypeOK
<1> QED BY <1>1, <1>2, FailKeeps

LEMMA AtMost ==
  ASSUME NEW m \in Nat, NEW n \in Nat, m <= n
  PROVE  /\ m > 1 => n > 1 /\ (n = 2 => m = 2)
         /\ n = 1 => m = 0 \/ m = 1
OBVIOUS

LEMMA Prefix ==
  ASSUME NEW S, NEW a \in Seq(S), NEW b \in Seq(S)
  PROVE  /\ \A i \in 1..Len(a) : i \in 1..Len(a \o b) /\ (a \o b)[i] = a[i]
         /\ a # <<>> => a \o b # <<>> /\ (a \o b)[1] = a[1]
         /\ Len(a) > 1 => Len(a \o b) > 1 /\ (Len(a \o b) = 2 => Len(a) = 2) /\ a # <<>>
         /\ Len(a \o b) = 1 => a = <<>> \/ Len(a) = 1
<1>1. Len(a) \in Nat /\ Len(a \o b) \in Nat /\ Len(a) <= Len(a \o b)
  OBVIOUS
<1>2. \A i \in 1..Len(a) : i \in 1..Len(a \o b) /\ (a \o b)[i] = a[i]
  OBVIOUS
<1>3. a # <<>> => a \o b # <<>> /\ (a \o b)[1] = a[1]
  OBVIOUS
<1>4. Len(a) = 0 => a = <<>>
  OBVIOUS
<1>5. Len(a) > 1 => Len(a \o b) > 1 /\ (Len(a \o b) = 2 => Len(a) = 2)
  BY <1>1, AtMost, Zenon
<1>6. Len(a \o b) = 1 => Len(a) = 0 \/ Len(a) = 1
  BY <1>1, AtMost, Zenon
<1>7. Len(a) > 1 => a # <<>>
  OBVIOUS
<1> QED BY <1>2, <1>3, <1>4, <1>5, <1>6, <1>7

\* Fewer of the lines are still an answer that has begun.
LEMMA PrefixExpected ==
  ASSUME NEW a \in Seq(Line), NEW b \in Seq(Line), NEW cmd, NEW second, NEW s,
         Expected(a \o b, cmd, second, s)
  PROVE  Expected(a, cmd, second, s)
<1> DEFINE p == a \o b
<1>1. /\ \A i \in 1..Len(a) : i \in 1..Len(p) /\ p[i] = a[i]
      /\ a # <<>> => p # <<>> /\ p[1] = a[1]
      /\ Len(a) > 1 => Len(p) > 1 /\ (Len(p) = 2 => Len(a) = 2) /\ a # <<>>
      /\ Len(p) = 1 => a = <<>> \/ Len(a) = 1
  BY Prefix
<1> HIDE DEF p
<1>6. Expected(p, cmd, second, s)
  BY DEF p
<1>7. \A i \in 1..Len(a) : LineFits(a[i], i, cmd, second, s)
  BY <1>1, <1>6 DEF Expected
<1>8. Len(a) > 1 =>
        ~a[1].last \/ (Challenges(cmd, second) /\ Len(a) = 2 /\ a[1].code = "more")
  BY <1>1, <1>6, Zenon DEF Expected
<1>9. s.due # "none" =>
        a = <<>> \/ (Challenges(cmd, second) /\ Len(a) = 1 /\ a[1].code = "more")
  BY <1>1, <1>6, Zenon DEF Expected
<1>10. s.due = "AUTH XOAUTH2" /\ (second \/ a # <<>>) => s.challenged
  BY <1>1, <1>6, Zenon DEF Expected
<1> QED BY <1>7, <1>8, <1>9, <1>10, Zenon DEF Expected

LEMMA PeerClosesKeeps == SessionInv /\ PeerCloses => SessionInv'
<1> SUFFICES ASSUME SessionInv, PeerCloses PROVE SessionInv'
  OBVIOUS
<1>0. buffer \in Seq(Line) /\ wire \in Seq(Line) /\ wire' = <<>> /\ wire' \in Seq(Line)
      /\ socket = "open" /\ UNCHANGED <<config, buffer, server, issued, mixed>>
  BY DEF PeerCloses, SessionInv, TypeOK
<1>1. CASE client.pc = "waiting"
  <2>1. "SOCKET" \in Errors /\ "SOCKET" # "AUTH XOAUTH2" /\ Fail("SOCKET", "closed")
    BY <1>1 DEF PeerCloses, Errors
  <2> QED BY <1>0, <1>1, <2>1, FailKeeps
<1>2. CASE client.pc # "waiting"
  <2>0. socket' = "closed" /\ UNCHANGED <<client, attached, cached>>
    BY <1>2 DEF PeerCloses
  <2>1. TypeOK' /\ ~mixed'
    BY <1>0, <2>0 DEF SessionInv, TypeOK
  <2>2. StageInv'
    BY <1>0, <2>0 DEF SessionInv, StageInv
  <2>3. StreamInv'
    <3>1. Asked => Expected(buffer, client.cmd, client.second, server)
      BY <1>0, PrefixExpected DEF SessionInv, StreamInv
    <3>2. buffer' \o wire' = buffer
      BY <1>0
    <3> QED BY <1>0, <2>0, <3>1, <3>2 DEF SessionInv, StreamInv, Asked, Between
  <2>4. TokenInv'
    BY <1>0, <2>0 DEF SessionInv, TokenInv
  <2>5. MailInv'
    BY <1>0, <2>0 DEF SessionInv, MailInv, Between
  <2>6. SessionReleased'
    BY <1>0, <2>0 DEF SessionInv, SessionReleased
  <2> QED BY <2>1, <2>2, <2>3, <2>4, <2>5, <2>6 DEF SessionInv
<1> QED BY <1>1, <1>2

-----------------------------------------------------------------------------
(* Replies *)

\* A line with which the client can go on, or with which it fails.
Answers(line) ==
  /\ line.of = client.cmd \/ line.code = "fail"
  /\ line.code = "more" => client.cmd \in {"AUTH LOGIN", "USERNAME"}
  /\ client.cmd = "BODY" /\ line.code = "ok" => server.accepted = 1

\* The promise of the current command resolves, and with its line the stream is empty.
LEMMA RepliedKeeps ==
  ASSUME SessionInv, client.pc \in {"waiting", "writing"},
         NEW line \in Line, Replied(line), Answers(line),
         server.due = "none", buffer' = <<>>, wire' = <<>>,
         UNCHANGED <<config, server, issued>>
  PROVE  SessionInv'
<1>0. /\ client \in Client /\ config \in Config /\ client.cmd \in Commands
      /\ buffer' \in Seq(Line) /\ wire' \in Seq(Line)
      /\ socket \in {"none", "open", "closed", "destroyed"} /\ attached \in BOOLEAN
      /\ client.outcome = "none" /\ ~mixed
  <2>1. /\ client \in Client /\ config \in Config /\ client.cmd \in Commands
        /\ socket \in {"none", "open", "closed", "destroyed"} /\ attached \in BOOLEAN
    BY DEF SessionInv, TypeOK, Client
  <2>2. buffer' \in Seq(Line) /\ wire' \in Seq(Line)
    OBVIOUS
  <2>3. client.outcome = "none" /\ ~mixed
    BY DEF SessionInv, StageInv
  <2> QED BY <2>1, <2>2, <2>3
<1> DEFINE next == Sequel(client.cmd)
<1>1. CASE Throw(client.cmd) /\ CloseSocket /\ mixed' = mixed
  <2>1. client.cmd \in Errors /\ socket' = "destroyed" /\ ~attached' /\ attached' \in BOOLEAN
    BY <1>0, <1>1 DEF CloseSocket, Errors
  <2> QED BY <1>0, <1>1, <2>1, ThrowKeeps
<1>2. CASE line.code # "fail" /\ Continue(next) /\ mixed' = (mixed \/ line.of # client.cmd)
  <2>0. mixed' = FALSE /\ line.code \in {"ok", "more"}
    BY <1>0, <1>2 DEF Line, Codes, Answers
  <2>1. /\ next \in Commands \cup {"close", "wrap", "token", "no auth", "no mechanism"}
        /\ next = "close" => client.cmd = "QUIT" \/ (client.cmd = "EHLO" /\ config.probe)
        /\ next = "wrap" => client.cmd = "STARTTLS"
        /\ next \in {"token", "no auth", "no mechanism"} => client.cmd \in {"EHLO", "EHLO AGAIN"}
        /\ next = "QUIT" <=> client.cmd = "BODY"
    BY <1>0, SequelFacts
  <2>2. client.cmd = "BODY" => server.accepted = 1
    BY <2>0 DEF Answers
  <2> HIDE DEF next
  <2>3. CASE /\ next = "close" /\ CloseSocket /\ cached' = cached
             /\ client' = [client EXCEPT !.pc = "over", !.outcome = "sent"]
    <3>1. /\ client' \in Client /\ client'.pc = "over" /\ client'.outcome = "sent"
          /\ client'.cmd = client.cmd /\ client'.second = client.second
          /\ Carried(client, client')
      BY <1>0, <2>3 DEF Client, Carried
    <3>2. socket' = "destroyed" /\ attached' = FALSE
      BY <2>3 DEF CloseSocket
    <3>3. TypeOK'
      BY <1>0, <2>0, <2>3, <3>1, <3>2 DEF SessionInv, TypeOK
    <3>4. StageInv'
      BY <2>1, <2>3, <3>1 DEF SessionInv, StageInv
    <3>5. StreamInv'
      BY <3>1 DEF StreamInv, Asked, Between
    <3>6. TokenInv'
      BY <2>3, <3>1 DEF SessionInv, TokenInv, Carried
    <3>7. MailInv'
      BY <2>1, <2>3, <3>1 DEF SessionInv, MailInv, Between
    <3> QED BY <2>0, <3>2, <3>3, <3>4, <3>5, <3>6, <3>7 DEF SessionInv, SessionReleased
  <2>4. CASE /\ next = "wrap" /\ attached' = FALSE /\ UNCHANGED <<socket, cached>>
             /\ client' = [client EXCEPT !.pc = "wrapping"]
    <3>1. /\ client' \in Client /\ client'.pc = "wrapping" /\ client'.outcome = client.outcome
          /\ client'.cmd = client.cmd /\ client'.second = client.second
          /\ Carried(client, client')
      BY <1>0, <2>4 DEF Client, Carried
    <3>2. client.cmd = "STARTTLS" /\ ~client.second
      BY <2>1, <2>4 DEF SessionInv, StageInv
    <3>3. TypeOK'
      BY <1>0, <2>0, <2>4, <3>1 DEF SessionInv, TypeOK
    <3>4. StageInv'
      BY <1>0, <3>1, <3>2 DEF SessionInv, StageInv
    <3>5. StreamInv'
      BY <3>1 DEF StreamInv, Asked
    <3>6. TokenInv'
      BY <2>4, <3>1 DEF SessionInv, TokenInv, Carried
    <3>7. MailInv'
      BY <3>1, <3>2 DEF SessionInv, MailInv
    <3> QED BY <2>0, <3>1, <3>3, <3>4, <3>5, <3>6, <3>7 DEF SessionInv, SessionReleased
  <2>5. CASE /\ next = "token" /\ cached # 0 /\ UNCHANGED <<socket, attached, cached>>
             /\ client' = [client EXCEPT !.pc = "writing", !.cmd = "AUTH XOAUTH2",
                                         !.flushed = FALSE, !.token = cached]
    <3>0. cached \in Nat
      BY DEF SessionInv, TypeOK
    <3>1. /\ client' \in Client /\ client'.pc = "writing" /\ client'.outcome = client.outcome
          /\ client'.cmd = "AUTH XOAUTH2" /\ client'.second = client.second
          /\ client'.flushed = FALSE /\ client'.attempt = client.attempt
          /\ client'.token = cached /\ client'.rejected = client.rejected
      BY <1>0, <2>5, <3>0 DEF Client, Commands
    <3>2. client.cmd \in {"EHLO", "EHLO AGAIN"} /\ ~client.second
      BY <2>1, <2>5 DEF SessionInv, StageInv
    <3>3. TypeOK'
      BY <1>0, <2>0, <2>5, <3>1 DEF SessionInv, TypeOK
    <3>4. StageInv'
      BY <1>0, <3>1, <3>2 DEF SessionInv, StageInv
    <3>5. StreamInv'
      BY <3>1 DEF StreamInv, Asked
    <3>6. TokenInv'
      <4>1. cached <= issued
        BY DEF SessionInv, TypeOK
      <4> QED BY <2>5, <3>1, <4>1 DEF SessionInv, TokenInv
    <3>7. MailInv'
      BY <3>1, <3>2 DEF SessionInv, MailInv
    <3> QED BY <2>0, <3>1, <3>3, <3>4, <3>5, <3>6, <3>7 DEF SessionInv, SessionReleased
  <2>6. CASE /\ next = "token" /\ UNCHANGED <<socket, attached, cached>>
             /\ client' = [client EXCEPT !.pc = "fetching"]
    <3>1. /\ client' \in Client /\ client'.pc = "fetching" /\ client'.outcome = client.outcome
          /\ client'.cmd = client.cmd /\ client'.second = client.second
          /\ Carried(client, client')
      BY <1>0, <2>6 DEF Client, Carried
    <3>2. client.cmd \in {"EHLO", "EHLO AGAIN"} /\ ~client.second
      BY <2>1, <2>6 DEF SessionInv, StageInv
    <3>3. TypeOK'
      BY <1>0, <2>0, <2>6, <3>1 DEF SessionInv, TypeOK
    <3>4. StageInv'
      BY <1>0, <3>1, <3>2 DEF SessionInv, StageInv
    <3>5. StreamInv'
      BY <3>1 DEF StreamInv, Asked
    <3>6. TokenInv'
      BY <2>6, <3>1 DEF SessionInv, TokenInv, Carried
    <3>7. MailInv'
      BY <3>1, <3>2 DEF SessionInv, MailInv
    <3> QED BY <2>0, <3>1, <3>3, <3>4, <3>5, <3>6, <3>7 DEF SessionInv, SessionReleased
  <2>7. CASE /\ next \in {"no auth", "no mechanism"} /\ CloseSocket
             /\ Throw("EHLO") \/ Throw("AUTH")
    <3>1. PICK error \in {"EHLO", "AUTH"} : Throw(error)
      BY <2>7
    <3>2. error \in Errors /\ error # "AUTH XOAUTH2"
      BY DEF Errors, Commands
    <3>3. socket' = "destroyed" /\ ~attached' /\ attached' \in BOOLEAN
      BY <2>7 DEF CloseSocket
    <3>4. mixed' = mixed
      BY <1>0, <2>0 DEF SessionInv, TypeOK
    <3> QED BY <1>0, <3>1, <3>2, <3>3, <3>4, ThrowKeeps
  <2>8. CASE next \in Commands /\ Write(next) /\ UNCHANGED <<socket, attached, cached>>
    <3>1. /\ client' \in Client /\ client'.pc = "writing" /\ client'.cmd = next
          /\ client'.flushed = FALSE /\ client'.second = FALSE
          /\ client'.outcome = client.outcome /\ Carried(client, client')
      BY <1>0, <2>8, WriteSets
    <3>2. client.cmd # "QUIT"
      BY <2>8 DEF Sequel, next, Commands
    <3>3. TypeOK'
      BY <1>0, <2>0, <2>8, <3>1 DEF SessionInv, TypeOK
    <3>4. StageInv'
      BY <1>0, <3>1 DEF SessionInv, StageInv
    <3>5. StreamInv'
      BY <3>1 DEF StreamInv, Asked
    <3>6. TokenInv'
      BY <2>8, <3>1 DEF SessionInv, TokenInv, Carried
    <3>7. MailInv'
      <4>1. next = "BODY" => server.accepted = 0
        <5>1. server.accepted \in Nat /\ server.accepted <= 1
          BY DEF SessionInv, TypeOK, MailInv
        <5>2. next = "BODY" => server.accepted # 1
          BY <2>1, <3>2 DEF SessionInv, MailInv
        <5> QED BY <5>1, <5>2
      <4> QED BY <2>1, <2>2, <3>1, <3>2, <4>1 DEF SessionInv, MailInv
    <3> QED BY <2>0, <3>1, <3>3, <3>4, <3>5, <3>6, <3>7 DEF SessionInv, SessionReleased
  <2> QED
    BY <1>2, <2>3, <2>4, <2>5, <2>6, <2>7, <2>8 DEF Continue
<1> QED BY <1>1, <1>2 DEF Replied

LEMMA AtMostOne ==
  ASSUME NEW m \in Nat, NEW n, m + 1 = n
  PROVE  ((n > 1 => n = 2) => ~(m > 1)) /\ (n = 1 => m = 0)
OBVIOUS

LEMMA NotFirst == \A n \in Nat : \A i \in 1..n : i + 1 # 1
OBVIOUS

LEMMA FirstLine ==
  ASSUME NEW a \in Seq(Line), NEW b \in Seq(Line), a # <<>>
  PROVE  /\ Head(a) \in Line /\ Tail(a) \in Seq(Line) /\ Head(a) = (a \o b)[1] /\ a \o b # <<>>
         /\ 1 \in 1..Len(a \o b)
         /\ Len(Tail(a) \o b) + 1 = Len(a \o b)
         /\ \A i \in 1..Len(Tail(a) \o b) :
              i + 1 \in 1..Len(a \o b) /\ (Tail(a) \o b)[i] = (a \o b)[i + 1]
         /\ ~(Len(a \o b) > 1) => Tail(a) = <<>> /\ b = <<>>
<1>1. Head(a) \in Line /\ Tail(a) \in Seq(Line) /\ Len(Tail(a)) = Len(a) - 1 /\ Len(a) \in Nat \ {0}
  OBVIOUS
<1>2. Head(a) = (a \o b)[1] /\ a \o b # <<>>
  OBVIOUS
<1>3. /\ Len(a \o b) = Len(a) + Len(b) /\ Len(Tail(a) \o b) = Len(Tail(a)) + Len(b)
      /\ Len(b) \in Nat
  BY <1>1
<1>4. Len(Tail(a) \o b) + 1 = Len(a \o b) /\ 1 \in 1..Len(a \o b)
  BY <1>1, <1>3
<1>5. \A i \in 1..Len(Tail(a) \o b) :
        i + 1 \in 1..Len(a \o b) /\ (Tail(a) \o b)[i] = (a \o b)[i + 1]
  BY <1>1, <1>3
<1>6. ~(Len(a \o b) > 1) => Len(Tail(a)) = 0 /\ Len(b) = 0
  BY <1>1, <1>3
<1>7. \A q \in Seq(Line) : Len(q) = 0 => q = <<>>
  OBVIOUS
<1> QED BY <1>1, <1>2, <1>4, <1>5, <1>6, <1>7

\* A promise waits with these lines in the buffer, and they do not begin with a
\* challenge it has to look behind.
LEMMA SettleKeeps ==
  ASSUME SessionInv, client.pc \in {"waiting", "writing"},
         NEW lines \in Seq(Line), NEW rest \in Seq(Line), NEW second \in BOOLEAN,
         second => client.cmd = "AUTH XOAUTH2",
         Expected(lines \o rest, client.cmd, second, server),
         Challenges(client.cmd, second) /\ Settles(lines) => Head(lines).code # "more",
         Settle(lines, second), wire' = rest, UNCHANGED <<config, server, issued>>
  PROVE  SessionInv'
<1>1. CASE Settles(lines)
  <2> DEFINE p == lines \o rest
  <2>1. /\ lines # <<>> /\ Head(lines).last
        /\ Replied(Head(lines)) /\ buffer' = Rest(lines)
    BY <1>1 DEF Settle, Settles
  <2>2. /\ Head(lines) \in Line /\ Head(lines) = p[1] /\ p # <<>> /\ 1 \in 1..Len(p)
        /\ ~(Len(p) > 1) => Tail(lines) = <<>> /\ rest = <<>>
    BY <2>1, FirstLine
  <2> HIDE DEF p
  <2>3. Expected(p, client.cmd, second, server)
    BY DEF p
  <2>4. ~(Len(p) > 1)
    BY <1>1, <2>1, <2>2, <2>3, Zenon DEF Expected
  <2>5. server.due = "none"
    BY <1>1, <2>2, <2>3, Zenon DEF Expected
  <2>6. LineFits(p[1], 1, client.cmd, second, server)
    BY <2>2, <2>3, Zenon DEF Expected
  <2>7. Answers(Head(lines))
    BY <1>1, <2>2, <2>6 DEF LineFits, Answers
  <2>8. buffer' = <<>> /\ wire' = <<>>
    BY <2>1, <2>2, <2>4 DEF Rest
  <2> QED BY <2>1, <2>2, <2>5, <2>7, <2>8, RepliedKeeps
<1>2. CASE ~Settles(lines)
  <2>0. /\ client' = [client EXCEPT !.pc = "waiting", !.second = second]
        /\ buffer' = lines /\ UNCHANGED <<socket, attached, cached, mixed>>
    BY <1>2 DEF Settle
  <2>1. /\ client' \in Client /\ client'.pc = "waiting" /\ client'.outcome = client.outcome
        /\ client'.cmd = client.cmd /\ client'.second = second /\ Carried(client, client')
    BY <2>0 DEF SessionInv, TypeOK, Client, Carried
  <2>2. TypeOK' /\ ~mixed'
    BY <2>0, <2>1 DEF SessionInv, TypeOK
  <2>3. StageInv'
    BY <2>1 DEF SessionInv, StageInv
  <2>4. StreamInv'
    <3>1. ~Between'
      BY <2>1 DEF Between
    <3>2. Expected(buffer' \o wire', client'.cmd, client'.second, server')
      BY <2>0, <2>1
    <3> QED BY <3>1, <3>2 DEF StreamInv
  <2>5. TokenInv'
    BY <2>0, <2>1 DEF SessionInv, TokenInv, Carried
  <2>6. MailInv'
    BY <2>1 DEF SessionInv, MailInv, Between
  <2> QED BY <2>1, <2>2, <2>3, <2>4, <2>5, <2>6 DEF SessionInv, SessionReleased
<1> QED BY <1>1, <1>2

LEMMA NextReplyKeeps ==
  ASSUME SessionInv, Asked, NEW lines \in Seq(Line), NEW rest \in Seq(Line),
         Expected(lines \o rest, client.cmd, client.second, server),
         NextReply(lines), wire' = rest, UNCHANGED <<config, server, issued>>
  PROVE  SessionInv'
<1>0. client.pc \in {"waiting", "writing"} /\ client.second \in BOOLEAN
      /\ (client.second => client.cmd = "AUTH XOAUTH2")
  BY DEF SessionInv, TypeOK, Client, StageInv, Asked
<1>1. CASE /\ client.cmd = "AUTH XOAUTH2" /\ ~client.second
           /\ Settles(lines) /\ Head(lines).code = "more" /\ Settle(Tail(lines), TRUE)
  <2> DEFINE p == lines \o rest
             q == Tail(lines) \o rest
  <2>0. lines # <<>>
    BY <1>1 DEF Settles
  <2>1. /\ Tail(lines) \in Seq(Line) /\ Head(lines) = p[1] /\ p # <<>>
        /\ Len(q) + 1 = Len(p)
        /\ \A i \in 1..Len(q) : i + 1 \in 1..Len(p) /\ q[i] = p[i + 1]
    BY <2>0, FirstLine
  <2>2. q \in Seq(Line) /\ Len(q) \in Nat /\ (Len(q) = 0 => q = <<>>)
    BY <2>1
  <2> HIDE DEF p, q
  <2>3. Expected(p, client.cmd, client.second, server) /\ p[1].last
    BY <1>1, <2>1 DEF p, Settles
  <2>4. Len(p) > 1 => Len(p) = 2
    BY <2>3, Zenon DEF Expected
  <2>5. ~(Len(q) > 1)
    BY <2>1, <2>2, <2>4, AtMostOne
  <2>6. server.due # "none" => q = <<>>
    <3>1. server.due # "none" => Len(p) = 1
      BY <2>1, <2>3, Zenon DEF Expected
    <3> QED BY <2>1, <2>2, <3>1, AtMostOne
  <2>7. server.due = "AUTH XOAUTH2" => server.challenged
    BY <2>1, <2>3, Zenon DEF Expected
  <2>8. \A i \in 1..Len(q) : LineFits(q[i], i, client.cmd, TRUE, server)
    <3> SUFFICES ASSUME NEW i \in 1..Len(q) PROVE LineFits(q[i], i, client.cmd, TRUE, server)
      OBVIOUS
    <3>1. LineFits(q[i], i + 1, client.cmd, client.second, server)
      BY <2>1, <2>3 DEF Expected
    <3>2. i + 1 # 1
      BY <2>2, NotFirst
    <3> QED BY <1>1, <3>1, <3>2, Zenon DEF LineFits, Challenges
  <2>9. Expected(q, client.cmd, TRUE, server)
    BY <2>5, <2>6, <2>7, <2>8, Zenon DEF Expected
  <2>10. ~Challenges(client.cmd, TRUE)
    BY DEF Challenges
  <2> QED BY <1>0, <1>1, <2>1, <2>9, <2>10, SettleKeeps DEF q
<1>2. CASE /\ ~(client.cmd = "AUTH XOAUTH2" /\ ~client.second
                /\ Settles(lines) /\ Head(lines).code = "more")
           /\ Settle(lines, client.second)
  <2>1. Challenges(client.cmd, client.second) /\ Settles(lines) => Head(lines).code # "more"
    BY <1>2 DEF Challenges
  <2> QED BY <1>0, <1>2, <2>1, SettleKeeps
<1> QED BY <1>1, <1>2 DEF NextReply

LEMMA WriteDoneKeeps == SessionInv /\ WriteDone => SessionInv'
<1> SUFFICES ASSUME SessionInv, WriteDone PROVE SessionInv'
  OBVIOUS
<1>1. Asked /\ NextReply(buffer) /\ wire' = wire /\ UNCHANGED <<config, server, issued>>
  BY DEF WriteDone, Asked
<1>2. buffer \in Seq(Line) /\ wire \in Seq(Line)
  BY DEF SessionInv, TypeOK
<1>3. Expected(buffer \o wire, client.cmd, client.second, server)
  BY <1>1 DEF SessionInv, StreamInv
<1> QED BY <1>1, <1>2, <1>3, NextReplyKeeps

LEMMA ConcatLines == \A a, b, c \in Seq(Line) : (a \o b) \o c = a \o (b \o c)
BY ConcatAssociative

\* Cutting the stream into chunks neither loses nor reorders a line.
LEMMA Chunk ==
  ASSUME NEW a \in Seq(Line), NEW w \in Seq(Line), NEW n \in 1..Len(w)
  PROVE  /\ a \o SubSeq(w, 1, n) \in Seq(Line) /\ SubSeq(w, n + 1, Len(w)) \in Seq(Line)
         /\ (a \o SubSeq(w, 1, n)) \o SubSeq(w, n + 1, Len(w)) = a \o w
<1>1. SubSeq(w, 1, n) \in Seq(Line) /\ SubSeq(w, n + 1, Len(w)) \in Seq(Line)
  BY SubSeqProperties
<1>2. SubSeq(w, 1, n) \o SubSeq(w, n + 1, Len(w)) = SubSeq(w, 1, Len(w))
  BY ConcatAdjacentSubSeq
<1>3. SubSeq(w, 1, Len(w)) = w
  OBVIOUS
<1>4. (a \o SubSeq(w, 1, n)) \o SubSeq(w, n + 1, Len(w))
        = a \o (SubSeq(w, 1, n) \o SubSeq(w, n + 1, Len(w)))
  <2> DEFINE u == SubSeq(w, 1, n)
             v == SubSeq(w, n + 1, Len(w))
  <2>1. u \in Seq(Line) /\ v \in Seq(Line)
    BY <1>1
  <2> HIDE DEF u, v
  <2>2. (a \o u) \o v = a \o (u \o v)
    BY <2>1, ConcatLines
  <2> QED BY <2>2 DEF u, v
<1>5. a \o SubSeq(w, 1, n) \in Seq(Line)
  BY <1>1
<1> QED BY <1>1, <1>2, <1>3, <1>4, <1>5

LEMMA DataKeeps == SessionInv /\ Data => SessionInv'
<1> SUFFICES ASSUME SessionInv, Data PROVE SessionInv'
  OBVIOUS
<1>0. buffer \in Seq(Line) /\ wire \in Seq(Line)
  BY DEF SessionInv, TypeOK
<1>1. PICK n \in 1..Len(wire) :
        /\ wire' = SubSeq(wire, n + 1, Len(wire))
        /\ IF client.pc = "waiting"
             THEN NextReply(buffer \o SubSeq(wire, 1, n))
             ELSE /\ buffer' = buffer \o SubSeq(wire, 1, n)
                  /\ UNCHANGED <<client, socket, attached, cached, mixed>>
  BY DEF Data
<1> DEFINE lines == buffer \o SubSeq(wire, 1, n)
           rest == SubSeq(wire, n + 1, Len(wire))
<1>2. lines \in Seq(Line) /\ rest \in Seq(Line) /\ lines \o rest = buffer \o wire
  BY <1>0, Chunk
<1>3. wire # <<>>
  BY <1>0
<1>4. /\ wire' = rest /\ UNCHANGED <<config, server, issued>>
      /\ client.pc = "waiting" => NextReply(lines)
      /\ client.pc # "waiting" =>
           buffer' = lines /\ UNCHANGED <<client, socket, attached, cached, mixed>>
  BY <1>1 DEF Data
<1> HIDE DEF lines, rest
<1>5. CASE client.pc = "waiting"
  <2>1. Asked /\ Expected(lines \o rest, client.cmd, client.second, server)
    BY <1>2, <1>5 DEF SessionInv, StreamInv, Asked
  <2> QED BY <1>2, <1>4, <1>5, <2>1, NextReplyKeeps
<1>6. CASE client.pc # "waiting"
  <2>0. buffer' = lines /\ UNCHANGED <<client, socket, attached, cached, mixed>>
    BY <1>4, <1>6
  <2>1. TypeOK' /\ ~mixed'
    BY <1>2, <1>4, <2>0 DEF SessionInv, TypeOK
  <2>2. StageInv'
    BY <1>4, <2>0 DEF SessionInv, StageInv
  <2>3. StreamInv'
    <3>1. ~Between /\ buffer' \o wire' = buffer \o wire
      BY <1>2, <1>3, <1>4, <2>0 DEF SessionInv, StreamInv
    <3> QED BY <1>4, <2>0, <3>1 DEF SessionInv, StreamInv, Asked, Between
  <2>4. TokenInv'
    BY <1>4, <2>0 DEF SessionInv, TokenInv
  <2>5. MailInv'
    BY <1>4, <2>0 DEF SessionInv, MailInv, Between
  <2>6. SessionReleased'
    BY <1>4, <2>0 DEF SessionInv, SessionReleased
  <2> QED BY <2>1, <2>2, <2>3, <2>4, <2>5, <2>6 DEF SessionInv
<1> QED BY <1>5, <1>6

-----------------------------------------------------------------------------
(* The server *)

LEMMA Two ==
  /\ 1 + 1 = 2 /\ 1 \in 1..2 /\ 2 \in 1..2 /\ 1 <= 1 /\ ~(2 <= 1) /\ 2 - 1 = 1
  /\ \A i \in 1..2 : i = 1 \/ i = 2
<1>1. 1 + 1 = 2 /\ 1 <= 1 /\ ~(2 <= 1) /\ 2 - 1 = 1
  OBVIOUS
<1>2. 1 \in 1..2 /\ 2 \in 1..2
  OBVIOUS
<1>3. \A i \in 1..2 : i = 1 \/ i = 2
  OBVIOUS
<1> QED BY <1>1, <1>2, <1>3

LEMMA JoinOne ==
  ASSUME NEW S, NEW p \in Seq(S), NEW q \in Seq(S), Len(p) = 1, Len(q) = 1
  PROVE  /\ Len(p \o q) = 2 /\ (p \o q)[1] = p[1]
         /\ \A i \in 1..Len(p \o q) :
              (i = 1 /\ (p \o q)[i] = p[1]) \/ (i = 2 /\ (p \o q)[i] = q[1])
<1> DEFINE r == p \o q
<1>1. /\ Len(r) = Len(p) + Len(q)
      /\ \A i \in 1..Len(p) + Len(q) : r[i] = IF i <= Len(p) THEN p[i] ELSE q[i - Len(p)]
  BY ConcatProperties
<1> HIDE DEF r
<1>2. Len(r) = 1 + 1 /\ \A i \in 1..1 + 1 : r[i] = IF i <= 1 THEN p[i] ELSE q[i - 1]
  BY <1>1, Zenon
<1>3. 1 + 1 = 2 /\ 1 \in 1..2 /\ 2 \in 1..2 /\ 1 <= 1 /\ ~(2 <= 1) /\ 2 - 1 = 1
  BY Two
<1>4. \A i \in 1..2 : i = 1 \/ i = 2
  BY Two
<1>5. Len(r) = 2 /\ r[1] = p[1] /\ r[2] = q[1]
  <2>1. Len(r) = 2 /\ \A i \in 1..2 : r[i] = IF i <= 1 THEN p[i] ELSE q[i - 1]
    BY <1>2, <1>3, Zenon
  <2>2. r[1] = p[1]
    BY <2>1
  <2>3. r[2] = q[2 - 1]
    BY <2>1
  <2> QED BY <1>3, <2>1, <2>2, <2>3, Zenon
<1> QED BY <1>4, <1>5, Zenon DEF r

LEMMA LengthsDiffer == 1 # 2 /\ ~(1 > 1) /\ 1 \in 1..1 /\ \A i \in 1..1 : i = 1
<1>1. 1 # 2 /\ ~(1 > 1)
  OBVIOUS
<1>2. 1 \in 1..1
  OBVIOUS
<1>3. \A i \in 1..1 : i = 1
  OBVIOUS
<1> QED BY <1>1, <1>2, <1>3

\* The decision after a challenge joins it in the stream.
LEMMA SecondAnswer ==
  ASSUME NEW p \in Seq(Line), NEW q \in Seq(Line), NEW cmd, NEW second, NEW s, NEW t,
         Expected(p, cmd, second, s), s.due # "none", p # <<>>, Len(q) = 1,
         LineFits(q[1], 2, cmd, second, t), t.due = "none"
  PROVE  Expected(p \o q, cmd, second, t)
<1>1. Challenges(cmd, second) /\ Len(p) = 1 /\ p[1].code = "more"
  BY Zenon DEF Expected
<1> DEFINE r == p \o q
<1>2. /\ Len(r) = 2 /\ r[1] = p[1]
      /\ \A i \in 1..Len(r) : (i = 1 /\ r[i] = p[1]) \/ (i = 2 /\ r[i] = q[1])
  BY <1>1, JoinOne
<1> HIDE DEF r
<1>3. LineFits(p[1], 1, cmd, second, t)
  <2>1. LineFits(p[1], 1, cmd, second, s)
    BY <1>1, LengthsDiffer, Zenon DEF Expected
  <2>2. cmd # "BODY"
    BY <1>1 DEF Challenges
  <2> QED BY <2>1, <2>2, Zenon DEF LineFits
<1>4. \A i \in 1..Len(r) : LineFits(r[i], i, cmd, second, t)
  BY <1>2, <1>3, Zenon
<1>5. r[1].code = "more" /\ t.due # "AUTH XOAUTH2"
  BY <1>1, <1>2
<1>6. Expected(r, cmd, second, t)
  BY <1>1, <1>2, <1>4, <1>5, Zenon DEF Expected
<1> QED BY <1>6 DEF r

LEMMA Answer ==
  ASSUME NEW n \in Nat, n > 0, NEW cmd \in Commands, NEW code \in Codes,
         NEW q, q = [i \in 1..n |-> [of |-> cmd, last |-> i = n, code |-> code]]
  PROVE  /\ q \in Seq(Line) /\ Len(q) = n
         /\ \A i \in 1..Len(q) : q[i].of = cmd /\ q[i].code = code
         /\ n # 1 => ~q[1].last
<1>1. \A i \in 1..n : [of |-> cmd, last |-> i = n, code |-> code] \in Line
  BY DEF Line
<1>2. q \in Seq(Line) /\ Len(q) = n
  BY <1>1
<1>3. \A i \in 1..Len(q) : q[i] = [of |-> cmd, last |-> i = n, code |-> code]
  BY <1>2
<1>4. 1 \in 1..Len(q)
  BY <1>2
<1>5. \A i \in 1..Len(q) : q[i].of = cmd /\ q[i].code = code /\ q[i].last = (i = n)
  BY <1>3
<1>6. n # 1 => ~q[1].last
  <2>1. q[1].last = (1 = n)
    BY <1>4, <1>5
  <2> QED BY <2>1
<1> QED BY <1>2, <1>5, <1>6

LEMMA ServerRepliesKeeps == SessionInv /\ ServerReplies => SessionInv'
<1> SUFFICES ASSUME SessionInv, ServerReplies PROVE SessionInv'
  OBVIOUS
<1> DEFINE due == server.due
<1>1. PICK n \in ReplyLines(due), code \in ReplyCodes(due) :
        /\ server' = [server EXCEPT
             !.due = IF code = "more" /\ @ = "AUTH XOAUTH2" THEN @ ELSE "none",
             !.challenged = (code = "more"),
             !.accepted = IF code = "ok" /\ due = "BODY" THEN @ + 1 ELSE @]
        /\ wire' = IF socket # "open" THEN wire
                   ELSE wire \o [i \in 1..n |->
                           [of |-> due, last |-> i = n, code |-> code]]
  BY DEF ServerReplies
<1>2. UNCHANGED <<config, client, socket, attached, buffer, cached, issued, mixed>>
      /\ due # "none"
  BY DEF ServerReplies
<1>3. due \in Commands /\ code \in Codes /\ n \in Nat /\ n > 0
  <2>1. due \in Commands
    BY <1>2 DEF SessionInv, TypeOK
  <2>2. code \in Codes
    BY <1>1 DEF ReplyCodes, Codes
  <2>3. n \in Nat /\ n > 0
    <3>1. n \in 1..MaxLines + 1 \/ n = 1
      BY DEF ReplyLines
    <3> QED BY <3>1, SmtpAssumption, Positive
  <2> QED BY <2>1, <2>2, <2>3
<1>4. /\ code = "more" => due \in {"AUTH LOGIN", "USERNAME"}
                            \/ (due = "AUTH XOAUTH2" /\ ~server.challenged)
      /\ n # 1 => due \in {"EHLO", "EHLO AGAIN"}
  BY DEF ReplyCodes, ReplyLines
<1> DEFINE answer == [i \in 1..n |-> [of |-> due, last |-> i = n, code |-> code]]
           q == IF socket # "open" THEN <<>> ELSE answer
           p == buffer \o wire
<1>5. /\ answer \in Seq(Line) /\ Len(answer) = n
      /\ \A i \in 1..Len(answer) : answer[i].of = due /\ answer[i].code = code
      /\ n # 1 => ~answer[1].last
  BY <1>3, Answer
<1>6. buffer \in Seq(Line) /\ wire \in Seq(Line)
  BY DEF SessionInv, TypeOK
<1>7. wire' = wire \o q
  <2>1. wire' = IF socket # "open" THEN wire ELSE wire \o answer
    BY <1>1
  <2> HIDE DEF answer
  <2>2. wire \o <<>> = wire
    BY <1>6
  <2> QED BY <2>1, <2>2
<1> DEFINE a == server.accepted + 1
<1>8. server.accepted \in Nat /\ a \in Nat /\ (server.accepted = 0 => a = 1)
  BY DEF SessionInv, TypeOK
<1> HIDE DEF answer
<1>9. q \in Seq(Line) /\ wire' \in Seq(Line) /\ p \in Seq(Line) /\ buffer \o wire' = p \o q
  <2>1. q \in Seq(Line)
    BY <1>5
  <2> HIDE DEF q
  <2>2. wire \o q \in Seq(Line) /\ p \in Seq(Line)
    BY <1>6, <2>1
  <2>3. buffer \o (wire \o q) = p \o q
    BY <1>6, <2>1, ConcatLines
  <2> QED BY <1>7, <2>1, <2>2, <2>3
<1>10. /\ server'.due = IF code = "more" /\ due = "AUTH XOAUTH2" THEN due ELSE "none"
       /\ server'.challenged = (code = "more")
       /\ server'.accepted = IF code = "ok" /\ due = "BODY" THEN a ELSE server.accepted
       /\ server' \in [due : Commands \cup {"none"}, challenged : BOOLEAN, accepted : Nat]
  <2> HIDE DEF a
  <2>1. server' = [server EXCEPT
             !.due = IF code = "more" /\ due = "AUTH XOAUTH2" THEN due ELSE "none",
             !.challenged = (code = "more"),
             !.accepted = IF code = "ok" /\ due = "BODY" THEN a ELSE server.accepted]
    BY <1>1 DEF a
  <2> QED BY <1>3, <1>8, <2>1 DEF SessionInv, TypeOK
<1> HIDE DEF q, p, a
<1>11. TypeOK' /\ ~mixed'
  BY <1>2, <1>9, <1>10 DEF SessionInv, TypeOK
<1>12. StageInv'
  BY <1>2, <1>10 DEF SessionInv, StageInv
<1>13. ~Between /\ ~Between'
  BY <1>2 DEF SessionInv, StreamInv, Between
<1>14. MailInv'
  <2>1. CASE due = "BODY"
    <3>1. client.cmd = "BODY"
      BY <2>1 DEF SessionInv, StageInv
    <3>2. server.accepted = 0
      BY <2>1, <3>1 DEF SessionInv, MailInv
    <3>3. server'.accepted = 0 \/ server'.accepted = 1
      BY <1>8, <1>10, <3>2
    <3>4. server'.due # "BODY"
      BY <1>10
    <3> QED BY <1>2, <1>13, <3>1, <3>3, <3>4 DEF MailInv
  <2>2. CASE due # "BODY"
    BY <1>2, <1>10, <1>13, <2>2 DEF SessionInv, MailInv
  <2> QED BY <2>1, <2>2
<1>15. StreamInv'
  <2> SUFFICES ASSUME Asked' PROVE (Expected(buffer \o wire, client.cmd, client.second, server))'
    BY <1>13 DEF StreamInv
  <2>0. Asked /\ due = client.cmd /\ Expected(p, client.cmd, client.second, server)
    BY <1>2 DEF Asked, SessionInv, StageInv, StreamInv, p
  <2>1. client.second /\ due = "AUTH XOAUTH2" => server.challenged
    BY <2>0, Zenon DEF Expected
  <2>2. \A i \in 1..Len(answer) : code = "more" /\ due = "AUTH XOAUTH2" => i = 1
    BY <1>4, <1>5, LengthsDiffer
  <2>3. \A i \in 1..Len(answer) :
          p = <<>> \/ code # "more" => LineFits(answer[i], i, client.cmd, client.second, server')
    <3> SUFFICES ASSUME NEW i \in 1..Len(answer), p = <<>> \/ code # "more"
                 PROVE  LineFits(answer[i], i, client.cmd, client.second, server')
      OBVIOUS
    <3>1. answer[i].of = client.cmd /\ answer[i].code = code
      BY <1>5, <2>0
    <3>2. code = "more" => client.cmd \in {"AUTH LOGIN", "USERNAME"}
                             \/ (Challenges(client.cmd, client.second) /\ i = 1)
      BY <1>4, <2>0, <2>1, <2>2 DEF Challenges
    <3>3. client.cmd = "BODY" /\ code = "ok" => server'.accepted = 1
      <4>1. client.cmd = "BODY" => server.accepted = 0
        BY <2>0 DEF SessionInv, MailInv
      <4> QED BY <1>8, <1>10, <2>0, <4>1
    <3> QED BY <3>1, <3>2, <3>3, Zenon DEF LineFits
  <2>4. server'.due # "none" =>
          code = "more" /\ server'.challenged /\ due = "AUTH XOAUTH2" /\ ~server.challenged
          /\ n = 1 /\ ~client.second
    BY <1>4, <1>10, <2>1
  <2>5. CASE p = <<>>
    <3>1. buffer' \o wire' = q
      BY <1>2, <1>9, <2>5
    <3>2. CASE q = <<>>
      <4>1. Expected(<<>>, client.cmd, client.second, server')
        BY <2>4, NothingExpected
      <4> QED BY <1>2, <3>1, <3>2, <4>1
    <3>3. CASE q = answer
      <4>1. \A i \in 1..Len(answer) : LineFits(answer[i], i, client.cmd, client.second, server')
        BY <2>3, <2>5
      <4>2. Len(answer) > 1 => ~answer[1].last
        BY <1>5, LengthsDiffer
      <4>3. server'.due # "none" =>
              Challenges(client.cmd, client.second) /\ Len(answer) = 1 /\ answer[1].code = "more"
        BY <1>5, <2>0, <2>4, LengthsDiffer DEF Challenges
      <4>4. Expected(answer, client.cmd, client.second, server')
        BY <2>4, <4>1, <4>2, <4>3, Zenon DEF Expected
      <4> QED BY <1>2, <3>1, <3>3, <4>4
    <3> QED BY <3>2, <3>3 DEF q
  <2>6. CASE p # <<>>
    <3>1. due = "AUTH XOAUTH2" /\ server.challenged
      <4>1. Challenges(client.cmd, client.second)
        BY <1>2, <2>0, <2>6, Zenon DEF Expected
      <4>2. due = "AUTH XOAUTH2"
        BY <2>0, <4>1 DEF Challenges
      <4> QED BY <2>0, <2>6, <4>2, Zenon DEF Expected
    <3>2. code # "more" /\ server'.due = "none" /\ n = 1
      BY <1>4, <1>10, <3>1
    <3>3. CASE q = <<>>
      <4>1. buffer' \o wire' = p
        BY <1>2, <1>9, <3>3
      <4>2. \A i \in 1..Len(p) : LineFits(p[i], i, client.cmd, client.second, server')
        <5>1. client.cmd # "BODY"
          BY <2>0, <3>1
        <5> QED BY <2>0, <5>1, Zenon DEF Expected, LineFits
      <4>3. Expected(p, client.cmd, client.second, server')
        BY <2>0, <3>2, <4>2, Zenon DEF Expected
      <4> QED BY <1>2, <4>1, <4>3
    <3>4. CASE q = answer
      <4>1. Len(answer) = 1
        BY <1>5, <3>2
      <4>2. LineFits(answer[1], 1, client.cmd, client.second, server')
        BY <2>3, <3>2, <4>1, LengthsDiffer
      <4>3. LineFits(answer[1], 2, client.cmd, client.second, server')
        <5>1. answer[1].code = code
          BY <1>5, <4>1, LengthsDiffer
        <5> QED BY <3>2, <4>2, <5>1, Zenon DEF LineFits
      <4>4. Expected(p \o answer, client.cmd, client.second, server')
        BY <1>2, <1>5, <1>9, <2>0, <2>6, <3>2, <4>1, <4>3, SecondAnswer
      <4> QED BY <1>2, <1>9, <3>4, <4>4
    <3> QED BY <3>3, <3>4 DEF q
  <2> QED BY <2>5, <2>6
<1>16. TokenInv'
  BY <1>2 DEF SessionInv, TokenInv
<1>17. SessionReleased'
  BY <1>2 DEF SessionInv, SessionReleased
<1> QED BY <1>11, <1>12, <1>14, <1>15, <1>16, <1>17 DEF SessionInv

LEMMA ServerGivesUpKeeps == SessionInv /\ ServerGivesUp => SessionInv'
<1> SUFFICES ASSUME SessionInv, ServerGivesUp PROVE SessionInv'
  OBVIOUS
<1> DEFINE line == [of |-> "none", last |-> TRUE, code |-> "fail"]
           q == <<line>>
           p == buffer \o wire
<1>0. UNCHANGED <<config, client, socket, attached, buffer, cached, issued, mixed>>
      /\ server.due # "none" /\ wire' = Append(wire, line)
      /\ server' = [server EXCEPT !.due = "none"]
  BY DEF ServerGivesUp
<1>1. line \in Line /\ line.of = "none" /\ line.code = "fail"
  BY DEF Line, Codes
<1> HIDE DEF line
<1>2. buffer \in Seq(Line) /\ wire \in Seq(Line)
  BY DEF SessionInv, TypeOK
<1>3. q \in Seq(Line) /\ Len(q) = 1 /\ q[1] = line
  BY <1>1
<1>4. wire' = wire \o q /\ wire' \in Seq(Line)
  BY <1>0, <1>1, <1>2
<1> HIDE DEF q
<1>5. p \in Seq(Line) /\ buffer \o wire' = p \o q
  <2>1. buffer \o (wire \o q) = p \o q
    <3>1. q \in Seq(Line)
      BY <1>3
    <3> QED BY <1>2, <3>1, ConcatLines
  <2>2. p \in Seq(Line)
    BY <1>2
  <2> QED BY <1>4, <2>1, <2>2
<1>6. /\ server'.due = "none" /\ server'.accepted = server.accepted
      /\ server' \in [due : Commands \cup {"none"}, challenged : BOOLEAN, accepted : Nat]
  BY <1>0 DEF SessionInv, TypeOK
<1> HIDE DEF p
<1>7. TypeOK' /\ ~mixed'
  BY <1>0, <1>4, <1>6 DEF SessionInv, TypeOK
<1>8. StageInv'
  BY <1>0, <1>6 DEF SessionInv, StageInv
<1>9. ~Between /\ ~Between'
  BY <1>0 DEF SessionInv, StreamInv, Between
<1>10. StreamInv'
  <2> SUFFICES ASSUME Asked' PROVE (Expected(buffer \o wire, client.cmd, client.second, server))'
    BY <1>9 DEF StreamInv
  <2>1. Expected(p, client.cmd, client.second, server)
    BY <1>0 DEF Asked, SessionInv, StreamInv, p
  <2>2. \A i : LineFits(line, i, client.cmd, client.second, server')
    BY <1>1, Zenon DEF LineFits
  <2>3. CASE p = <<>>
    <3>1. buffer' \o wire' = q
      BY <1>0, <1>3, <1>5, <2>3
    <3>2. \A i \in 1..Len(q) : LineFits(q[i], i, client.cmd, client.second, server')
      BY <1>3, <2>2, LengthsDiffer
    <3>3. Expected(q, client.cmd, client.second, server')
      BY <1>3, <1>6, <3>2, LengthsDiffer, Zenon DEF Expected
    <3> QED BY <1>0, <3>1, <3>3
  <2>4. CASE p # <<>>
    <3>1. LineFits(q[1], 2, client.cmd, client.second, server')
      BY <1>3, <2>2
    <3>2. Expected(p \o q, client.cmd, client.second, server')
      BY <1>0, <1>3, <1>5, <1>6, <2>1, <2>4, <3>1, SecondAnswer
    <3> QED BY <1>0, <1>5, <3>2
  <2> QED BY <2>3, <2>4
<1>11. TokenInv'
  BY <1>0 DEF SessionInv, TokenInv
<1>12. MailInv'
  BY <1>0, <1>6, <1>9 DEF SessionInv, MailInv
<1>13. SessionReleased'
  BY <1>0 DEF SessionInv, SessionReleased
<1> QED BY <1>7, <1>8, <1>10, <1>11, <1>12, <1>13 DEF SessionInv

-----------------------------------------------------------------------------
(* Theorems *)

\* The invariant of a send or probe: the lines in the buffer and on their way never
\* belong to another command than the one that waits for them (nextReply and write in
\* smtp-client.ts), whatever the chunks, timers, closes and other sends.
THEOREM SessionInvariant == Spec => []SessionInv
<1>1. Init => SessionInv
  BY InitSession
<1>2. SessionInv /\ [Next]_vars => SessionInv'
  <2> SUFFICES ASSUME SessionInv, [Next]_vars PROVE SessionInv'
    OBVIOUS
  <2>1. CASE Connected
    BY <2>1, ConnectedKeeps
  <2>2. CASE ConnectFails
    BY <2>2, ConnectFailsKeeps
  <2>3. CASE Flush
    BY <2>3, FlushKeeps
  <2>4. CASE WriteDone
    BY <2>4, WriteDoneKeeps
  <2>5. CASE WriteFails
    BY <2>5, WriteFailsKeeps
  <2>6. CASE Timeout
    BY <2>6, TimeoutKeeps
  <2>7. CASE WrapDone
    BY <2>7, WrapDoneKeeps
  <2>8. CASE WrapFails
    BY <2>8, WrapFailsKeeps
  <2>9. CASE TokenFetched
    BY <2>9, TokenFetchedKeeps
  <2>10. CASE TokenRefused
    BY <2>10, TokenRefusedKeeps
  <2>11. CASE Data
    BY <2>11, DataKeeps
  <2>12. CASE OverlongLine
    BY <2>12, OverlongLineKeeps
  <2>13. CASE PeerCloses
    BY <2>13, PeerClosesKeeps
  <2>14. CASE ServerReplies
    BY <2>14, ServerRepliesKeeps
  <2>15. CASE ServerGivesUp
    BY <2>15, ServerGivesUpKeeps
  <2>16. CASE OtherSend
    BY <2>16, OtherSendKeeps
  <2>17. CASE TokenExpires
    BY <2>17, TokenExpiresKeeps
  <2>18. CASE UNCHANGED vars
    BY <2>18, StutterKeeps
  <2> QED
    BY <2>1, <2>2, <2>3, <2>4, <2>5, <2>6, <2>7, <2>8, <2>9, <2>10, <2>11, <2>12, <2>13,
       <2>14, <2>15, <2>16, <2>17, <2>18 DEF Next, Step, Environment
<1> QED BY <1>1, <1>2, PTL DEF Spec

\* A cached token is one that was issued, and no send makes a third attempt
\* (sendWithOAuth in stalwart.provider.ts).
THEOREM SessionTypes == Spec => []TypeOK
<1>1. SessionInv => TypeOK
  BY DEF SessionInv
<1> QED BY <1>1, SessionInvariant, PTL

\* A command only goes on with the reply to that command, for capabilities of any
\* length and any cut of the stream (settleIfComplete in smtp-client.ts).
THEOREM RepliesTheorem == Spec => []RepliesMatch
<1>1. SessionInv => RepliesMatch
  BY DEF SessionInv, RepliesMatch
<1> QED BY <1>1, SessionInvariant, PTL

\* A mail reported as sent was taken by the server once, also when it was sent a second
\* time with another token (send in smtp-client.ts, sendWithOAuth).
THEOREM AcceptedTheorem == Spec => []SentMeansAccepted
<1>1. SessionInv => SentMeansAccepted
  BY DEF SessionInv, StageInv, MailInv, SentMeansAccepted
<1> QED BY <1>1, SessionInvariant, PTL

\* The repetition authenticates with another token than the one the server rejected,
\* for any number of sends that share the cache (accessToken in stalwart.provider.ts).
THEOREM TokenTheorem == Spec => []RetryUsesAnotherToken
<1>1. SessionInv => RetryUsesAnotherToken
  <2> SUFFICES ASSUME SessionInv, client.attempt = 2, client.token # 0
               PROVE  client.token # client.rejected
    BY DEF RetryUsesAnotherToken
  <2>1. client.token \in Nat /\ client.rejected \in Nat
    BY DEF SessionInv, TypeOK, Client
  <2>2. client.token > client.rejected
    BY DEF SessionInv, TokenInv
  <2> QED BY <2>1, <2>2
<1> QED BY <1>1, SessionInvariant, PTL

\* A session that has ended holds neither its socket nor its listeners, whichever
\* promise failed (close in smtp-client.ts).
THEOREM ReleaseTheorem == Spec => []SessionReleased
<1>1. SessionInv => SessionReleased
  BY DEF SessionInv
<1> QED BY <1>1, SessionInvariant, PTL

=============================================================================
