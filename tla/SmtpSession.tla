----------------------------- MODULE SmtpSession -----------------------------
(***************************************************************************)
(* One mail sent, or one health probe made, over SMTP: the conversation of *)
(* SmtpClient and SmtpSession (smtp-client.ts) with the retry and the      *)
(* token cache of StalwartProvider (stalwart.provider.ts).                 *)
(*                                                                         *)
(* The client stands at one await.  Lines of the server arrive in chunks   *)
(* of any size at any moment, also while no promise waits for them; the    *)
(* peer may close, the timer of a reply may fire, and other sends use the  *)
(* token cache meanwhile.  The server follows the protocol: one reply per  *)
(* command, of one or more lines, or a last "fail" before it gives up.     *)
(***************************************************************************)
EXTENDS Naturals, Sequences

CONSTANTS
  MaxLines,  \* bound: lines of the capabilities before the last one
  MaxTokens  \* bound: tokens issued before other sends stop asking

ASSUME SmtpAssumption == MaxLines \in Nat /\ MaxTokens \in Nat

VARIABLES
  config,   \* what is asked and what the server offers; never changes
  client,   \* the await at which send or probe stands
  socket,   \* the connection as Node knows it
  attached, \* the listeners of the session are on the socket
  buffer,   \* lines received and not consumed
  wire,     \* lines on their way to the client
  server,   \* the command the server works on, and the mails it took
  cached,   \* the cached access token, 0 when there is none or it has expired
  issued,   \* number of tokens issued so far
  mixed     \* history: a command went on with the reply to another one

vars == <<config, client, socket, attached, buffer, wire, server, cached,
          issued, mixed>>

-----------------------------------------------------------------------------
(* Types *)

Commands == {"CONNECT", "EHLO", "STARTTLS", "EHLO AGAIN", "AUTH LOGIN",
             "USERNAME", "PASSWORD", "AUTH PLAIN", "AUTH XOAUTH2", "MAIL FROM",
             "RCPT TO", "DATA", "BODY", "QUIT"}

Codes == {"ok", "more", "fail"}   \* 2xx and 354, 334, and 4xx or 5xx

Line == [of : Commands \cup {"none"}, last : BOOLEAN, code : Codes]

Config == [probe  : BOOLEAN,      \* probe() instead of send()
           tls    : BOOLEAN,      \* TLS is enabled and not implicit
           oauth  : BOOLEAN,      \* authMode is oauthbearer
           offers : SUBSET {"STARTTLS", "AUTH", "LOGIN", "PLAIN"}]

Client == [pc       : {"connecting", "fetching", "writing", "waiting",
                       "wrapping", "over"},
           cmd      : Commands,
           flushed  : BOOLEAN,    \* the bytes being written have left
           second   : BOOLEAN,    \* waits for the outcome after a challenge
           attempt  : 1..2,
           token    : Nat,        \* used by this attempt
           rejected : Nat,        \* used by the attempt before
           outcome  : {"none", "sent", "failed"},
           error    : Commands \cup {"none", "WRITE", "READ", "SOCKET", "AUTH",
                                     "FETCH"}]

NewClient == [pc |-> "connecting", cmd |-> "CONNECT", flushed |-> FALSE,
              second |-> FALSE, attempt |-> 1, token |-> 0, rejected |-> 0,
              outcome |-> "none", error |-> "none"]

Init ==
  /\ config \in Config
  /\ client = NewClient
  /\ socket = "none"
  /\ attached = FALSE
  /\ buffer = <<>>
  /\ wire = <<>>
  /\ server = [due |-> "none", challenged |-> FALSE, accepted |-> 0]
  /\ cached = 0
  /\ issued = 0
  /\ mixed = FALSE

-----------------------------------------------------------------------------
(* Failures *)

\* Every error of the AUTH exchange is reported under its command.
Named(error) == IF client.cmd = "AUTH XOAUTH2" THEN "AUTH XOAUTH2" ELSE error

\* Mutations of the decision below: the attempt is repeated without end, or
\* whatever failed.
RetriesForever(error) == config.oauth /\ ~config.probe /\ error = "AUTH XOAUTH2"

RetriesAlways(error) == config.oauth /\ ~config.probe /\ client.attempt = 1

\* sendWithOAuth repeats an attempt once, and only when AUTH failed.
Retries(error) ==
  /\ config.oauth
  /\ ~config.probe
  /\ client.attempt = 1
  /\ error = "AUTH XOAUTH2"

\* Mutation of the reset below: the cached token is kept.
ThrowKeepingToken(error) ==
  /\ client' = IF Retries(error)
                 THEN [NewClient EXCEPT !.attempt = client.attempt + 1,
                                        !.rejected = client.token]
                 ELSE [client EXCEPT !.pc = "over", !.outcome = "failed",
                                     !.error = error]
  /\ cached' = cached

\* send rejects: the provider drops the token and tries again, or reports.
Throw(error) ==
  /\ client' = IF Retries(error)
                 THEN [NewClient EXCEPT !.attempt = client.attempt + 1,
                                        !.rejected = client.token]
                 ELSE [client EXCEPT !.pc = "over", !.outcome = "failed",
                                     !.error = error]
  /\ cached' = IF Retries(error) THEN 0 ELSE cached

\* close: destroy the socket, whatever it is doing.
CloseSocket ==
  /\ socket' = "destroyed"
  /\ attached' = FALSE

\* Mutation of the failure below: the session is not closed.
FailOpen(error, peer) ==
  /\ Throw(Named(error))
  /\ socket' = peer
  /\ attached' = attached

\* A pending promise rejects.  send and probe close the session; open has none
\* to close yet when the greeting fails to come.
Fail(error, peer) ==
  /\ Throw(Named(error))
  /\ IF client.cmd = "CONNECT" THEN socket' = peer /\ attached' = attached
                               ELSE CloseSocket

-----------------------------------------------------------------------------
(* Replies *)

\* What the client does after the reply to a command; the rest are commands.
Authenticate ==
  IF "AUTH" \notin config.offers THEN "no auth"
  ELSE IF config.oauth THEN "token"
  ELSE IF "LOGIN" \in config.offers THEN "AUTH LOGIN"
  ELSE IF "PLAIN" \in config.offers THEN "AUTH PLAIN"
  ELSE "no mechanism"

Sequel(cmd) ==
  CASE cmd = "CONNECT" -> "EHLO"
    [] cmd = "EHLO" /\ config.probe -> "close"
    [] cmd = "EHLO" /\ ~config.probe ->
         IF config.tls /\ "STARTTLS" \in config.offers THEN "STARTTLS"
                                                       ELSE Authenticate
    [] cmd = "STARTTLS" -> "wrap"
    [] cmd = "EHLO AGAIN" -> Authenticate
    [] cmd = "AUTH LOGIN" -> "USERNAME"
    [] cmd = "USERNAME" -> "PASSWORD"
    [] cmd \in {"PASSWORD", "AUTH PLAIN", "AUTH XOAUTH2"} -> "MAIL FROM"
    [] cmd = "MAIL FROM" -> "RCPT TO"
    [] cmd = "RCPT TO" -> "DATA"
    [] cmd = "DATA" -> "BODY"
    [] cmd = "BODY" -> "QUIT"
    [] cmd = "QUIT" -> "close"

Write(cmd) ==
  client' = [client EXCEPT !.pc = "writing", !.cmd = cmd, !.flushed = FALSE,
                           !.second = FALSE]

\* The command succeeded: to the next await.
Continue(next) ==
  \/ /\ next = "close"
     /\ client' = [client EXCEPT !.pc = "over", !.outcome = "sent"]
     /\ CloseSocket
     /\ cached' = cached
  \/ /\ next = "wrap"
     /\ client' = [client EXCEPT !.pc = "wrapping"]
     /\ attached' = FALSE
     /\ UNCHANGED <<socket, cached>>
  \/ /\ next = "token"
     /\ client' = IF cached # 0
                    THEN [client EXCEPT !.pc = "writing", !.cmd = "AUTH XOAUTH2",
                                        !.flushed = FALSE, !.token = cached]
                    ELSE [client EXCEPT !.pc = "fetching"]
     /\ UNCHANGED <<socket, attached, cached>>
  \/ /\ next \in {"no auth", "no mechanism"}
     /\ Throw(IF next = "no auth" THEN "EHLO" ELSE "AUTH")
     /\ CloseSocket
  \/ /\ next \in Commands
     /\ Write(next)
     /\ UNCHANGED <<socket, attached, cached>>

\* The promise of the current command resolves with the line.
Replied(line) ==
  IF \/ line.code = "fail"
     \/ client.cmd \in {"AUTH LOGIN", "USERNAME"} /\ line.code # "more"
    THEN Throw(client.cmd) /\ CloseSocket /\ mixed' = mixed
    ELSE /\ Continue(Sequel(client.cmd))
         /\ mixed' = (mixed \/ line.of # client.cmd)

\* Mutation of the consumption below: the line stays in the buffer.
RestKept(lines) == lines

\* What settling leaves in the buffer; the upgrade to TLS empties it.
Rest(lines) == IF client.cmd = "STARTTLS" THEN <<>> ELSE Tail(lines)

\* settleIfComplete settles a waiting promise if the first line is a last one.
Settles(lines) == lines # <<>> /\ Head(lines).last

Settle(lines, second) ==
  IF Settles(lines)
    THEN Replied(Head(lines)) /\ buffer' = Rest(lines)
    ELSE /\ client' = [client EXCEPT !.pc = "waiting", !.second = second]
         /\ buffer' = lines
         /\ UNCHANGED <<socket, attached, cached, mixed>>

\* A promise waits and the buffer holds these lines.  After a challenge of the
\* AUTH exchange the same command waits again.
NextReply(lines) ==
  IF /\ client.cmd = "AUTH XOAUTH2" /\ ~client.second
     /\ Settles(lines) /\ Head(lines).code = "more"
    THEN Settle(Tail(lines), TRUE)
    ELSE Settle(lines, client.second)

-----------------------------------------------------------------------------
(* The client *)

Connected ==
  /\ client.pc = "connecting"
  /\ client' = [client EXCEPT !.pc = "waiting"]
  /\ socket' = "open"
  /\ attached' = TRUE
  /\ buffer' = <<>>
  /\ wire' = <<>>
  /\ server' = [server EXCEPT !.due = "CONNECT"]
  /\ UNCHANGED <<config, cached, issued, mixed>>

ConnectFails ==
  /\ client.pc = "connecting"
  /\ Throw("CONNECT")
  /\ socket' = "destroyed"
  /\ UNCHANGED <<config, attached, buffer, wire, server, issued, mixed>>

\* The bytes of a command reach the server, maybe long before the callback.
Flush ==
  /\ client.pc = "writing"
  /\ ~client.flushed
  /\ socket = "open"
  /\ client' = [client EXCEPT !.flushed = TRUE]
  /\ server' = [server EXCEPT !.due = client.cmd, !.challenged = FALSE]
  /\ UNCHANGED <<config, socket, attached, buffer, wire, cached, issued, mixed>>

WriteDone ==
  /\ client.pc = "writing"
  /\ client.flushed
  /\ NextReply(buffer)
  /\ UNCHANGED <<config, wire, server, issued>>

\* The connection is gone; nobody waited when it closed.
WriteFails ==
  /\ client.pc = "writing"
  /\ socket = "closed"
  /\ Fail("WRITE", socket)
  /\ UNCHANGED <<config, buffer, wire, server, issued, mixed>>

\* Mutation of the timer below: only the greeting has one.
TimeoutOfGreeting ==
  /\ client.pc = "waiting"
  /\ client.cmd = "CONNECT"
  /\ Fail(client.cmd, socket)
  /\ UNCHANGED <<config, buffer, wire, server, issued, mixed>>

\* The timer of nextReply.
Timeout ==
  /\ client.pc = "waiting"
  /\ Fail(client.cmd, socket)
  /\ UNCHANGED <<config, buffer, wire, server, issued, mixed>>

WrapDone ==
  /\ client.pc = "wrapping"
  /\ socket = "open"
  /\ Write("EHLO AGAIN")
  /\ attached' = TRUE
  /\ UNCHANGED <<config, socket, buffer, wire, server, cached, issued, mixed>>

WrapFails ==
  /\ client.pc = "wrapping"
  /\ Throw("STARTTLS")
  /\ CloseSocket
  /\ UNCHANGED <<config, buffer, wire, server, issued, mixed>>

TokenFetched ==
  /\ client.pc = "fetching"
  /\ issued' = issued + 1
  /\ cached' = issued'
  /\ client' = [client EXCEPT !.pc = "writing", !.cmd = "AUTH XOAUTH2",
                              !.flushed = FALSE, !.token = issued']
  /\ UNCHANGED <<config, socket, attached, buffer, wire, server, mixed>>

\* The issuer refuses, which counts as a failed AUTH, or does not answer.
TokenRefused ==
  /\ client.pc = "fetching"
  /\ \E error \in {"AUTH XOAUTH2", "FETCH"} : Throw(error)
  /\ CloseSocket
  /\ UNCHANGED <<config, buffer, wire, server, issued, mixed>>

-----------------------------------------------------------------------------
(* The environment *)

\* A chunk of the stream arrives.
Data ==
  /\ attached
  /\ socket = "open"
  /\ \E n \in 1..Len(wire) :
       LET lines == buffer \o SubSeq(wire, 1, n) IN
       /\ wire' = SubSeq(wire, n + 1, Len(wire))
       /\ IF client.pc = "waiting"
            THEN NextReply(lines)
            ELSE /\ buffer' = lines
                 /\ UNCHANGED <<client, socket, attached, cached, mixed>>
  /\ UNCHANGED <<config, server, issued>>

\* A line that does not end fails the waiting promise at 8192 characters.
OverlongLine ==
  /\ client.pc = "waiting"
  /\ buffer = <<>>
  /\ socket = "open"
  /\ Fail("READ", socket)
  /\ UNCHANGED <<config, buffer, wire, server, issued, mixed>>

\* A close or an error of the socket: noticed at once if a promise waits.
PeerCloses ==
  /\ socket = "open"
  /\ wire' = <<>>
  /\ IF client.pc = "waiting"
       THEN Fail("SOCKET", "closed")
       ELSE socket' = "closed" /\ UNCHANGED <<client, attached, cached>>
  /\ UNCHANGED <<config, buffer, server, issued, mixed>>

\* The codes with which a server answers a command.
ReplyCodes(cmd) ==
  CASE cmd \in {"AUTH LOGIN", "USERNAME"} -> {"more", "fail"}
    [] cmd = "AUTH XOAUTH2" /\ ~server.challenged -> Codes
    [] OTHER -> {"ok", "fail"}

\* Only the capabilities take several lines.
ReplyLines(cmd) == IF cmd \in {"EHLO", "EHLO AGAIN"} THEN 1..MaxLines + 1 ELSE {1}

\* The server answers; a mail it answered with success is on its way.  After a
\* challenge it decides without another word of the client.
ServerReplies ==
  /\ server.due # "none"
  /\ \E n \in ReplyLines(server.due), code \in ReplyCodes(server.due) :
       /\ server' = [server EXCEPT
            !.due = IF code = "more" /\ @ = "AUTH XOAUTH2" THEN @ ELSE "none",
            !.challenged = (code = "more"),
            !.accepted = IF code = "ok" /\ server.due = "BODY" THEN @ + 1 ELSE @]
       /\ wire' = IF socket # "open" THEN wire
                  ELSE wire \o [i \in 1..n |->
                          [of |-> server.due, last |-> i = n, code |-> code]]
  /\ UNCHANGED <<config, client, socket, attached, buffer, cached, issued, mixed>>

\* The server announces that it gives up (421) instead of an answer.
ServerGivesUp ==
  /\ server.due # "none"
  /\ socket = "open"
  /\ server' = [server EXCEPT !.due = "none"]
  /\ wire' = Append(wire, [of |-> "none", last |-> TRUE, code |-> "fail"])
  /\ UNCHANGED <<config, client, socket, attached, buffer, cached, issued, mixed>>

\* Another send of the provider stores a new token, or the cached one expires.
OtherSend ==
  /\ config.oauth
  /\ issued < MaxTokens
  /\ issued' = issued + 1
  /\ cached' = issued'
  /\ UNCHANGED <<config, client, socket, attached, buffer, wire, server, mixed>>

TokenExpires ==
  /\ cached # 0
  /\ cached' = 0
  /\ UNCHANGED <<config, client, socket, attached, buffer, wire, server, issued,
                 mixed>>

-----------------------------------------------------------------------------

Step ==
  \/ Connected \/ ConnectFails
  \/ Flush \/ WriteDone \/ WriteFails
  \/ Timeout
  \/ WrapDone \/ WrapFails
  \/ TokenFetched \/ TokenRefused

Environment ==
  \/ Data \/ OverlongLine \/ PeerCloses
  \/ ServerReplies \/ ServerGivesUp
  \/ OtherSend \/ TokenExpires

Next == Step \/ Environment

Spec == Init /\ [][Next]_vars

\* What settles by itself: connecting ends when the system gives up, a reply has its
\* timer, the token request its signal.  Neither a write nor the TLS handshake of
\* STARTTLS has one, and the socket's own is off: a write calls back only when the
\* peer reads or the connection breaks.  Nothing is assumed of the server.
Fairness ==
  /\ WF_vars(Connected \/ ConnectFails)
  /\ WF_vars(Timeout)
  /\ WF_vars(TokenFetched \/ TokenRefused)

FairSpec == Spec /\ Fairness

-----------------------------------------------------------------------------
(* Properties *)

\* Types of the state of a send or probe, of its socket and of the token cache; a
\* send makes at most two attempts.
TypeOK ==
  /\ config \in Config
  /\ client \in Client
  /\ socket \in {"none", "open", "closed", "destroyed"}
  /\ attached \in BOOLEAN
  /\ buffer \in Seq(Line)
  /\ wire \in Seq(Line)
  /\ server \in [due : Commands \cup {"none"}, challenged : BOOLEAN, accepted : Nat]
  /\ cached \in 0..issued
  /\ issued \in Nat
  /\ mixed \in BOOLEAN

\* A command only goes on with the server's reply to that command, however the
\* stream was cut into chunks and whenever lines arrived.
RepliesMatch == ~mixed

\* The provider reports a mail as sent only if the server took it, and the
\* repetition with a new token never makes the server take it twice.  (The other
\* direction does not hold: an answer can be lost after the body.)
SentMeansAccepted ==
  /\ client.outcome = "sent" /\ ~config.probe => server.accepted = 1
  /\ server.accepted <= 1
  /\ client.outcome = "failed" /\ server.accepted = 1
       => client.cmd \in {"BODY", "QUIT"}

\* The second attempt authenticates with another token than the rejected one,
\* whatever other sends did to the cache.
RetryUsesAnotherToken ==
  client.attempt = 2 /\ client.token # 0 => client.token # client.rejected

\* A reply that has arrived completely settles the command that waits for it.
\* For replies of one line this holds; for those of several it does not, since
\* only the first line in the buffer is ever looked at.
CompleteReplySettles ==
  client.pc = "waiting" => \A i \in 1..Len(buffer) : ~buffer[i].last

\* An ended session has let go of its socket, unless it never had its greeting:
\* then open throws before there is a session to close.
SessionReleased ==
  client.pc = "over" /\ client.cmd # "CONNECT"
    => socket = "destroyed" /\ ~attached

\* A send or a probe ends, with a server that may stop answering anywhere, unless
\* one of its two waits without a timer goes on for ever: a write to a peer that has
\* stopped reading, or the TLS handshake.
SendEnds == <>(client.pc = "over") \/ <>[](client.pc \in {"writing", "wrapping"})

=============================================================================
