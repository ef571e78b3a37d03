--------------------------- MODULE ProviderAdapters ---------------------------
(***************************************************************************)
(* What the three adapters make of one attempt to send: the outcome of the *)
(* request at the provider becomes a ProviderResponse that never throws    *)
(* (evolution.provider.ts, evolution.mapper.ts, resend.provider.ts,        *)
(* stalwart.provider.ts).  How an SMTP session gets to its outcome is the  *)
(* matter of SmtpSession.                                                  *)
(*                                                                         *)
(* Of an error text only one thing counts later: whether it contains the   *)
(* word "timeout".  The transport's own text, "timed out after 1000ms",    *)
(* does not.                                                               *)
(***************************************************************************)
EXTENDS GatewayConfig

\* Outcomes of requestJson: an answer with its body (a JSON object with an id, an
\* empty id or none; no JSON object at all; a message about the API key; a text
\* with the word timeout), or, with status 0, no answer.  A 401 stands for a 403 too.
HttpOutcomes ==
  [status : {200}, body : {"id", "emptyId", "json", "none"}]
  \cup [status : {400, 401, 404, 429, 500}, body : {"json", "keyError", "saysTimeout"}]
  \cup [status : {0}, body : {"timedOut", "broken"}]

\* Ends of an SMTP session: the mail is accepted; or an SmtpError of the connection
\* or of a command, each with a text of its own or with that of the server, which may
\* have the word in it; or another error: a socket code, the request for a token cut
\* off or broken.
SmtpOutcomes ==
  {"sent", "connect", "greetingSaysTimeout", "command", "serverSaysTimeout",
   "socketCode", "tokenTimeout", "tokenBroken"}

Errors ==
  {"none", "NOT_CONFIGURED", "AUTH_FAILED", "RATE_LIMITED", "UNAVAILABLE",
   "REQUEST_REJECTED", "SMTP_CONNECTION_FAILED", "SMTP_ERROR",
   "EMAIL_SEND_FAILED", "providerText", "transportText", "Unknown error"}

\* id: a non-empty provider message id; timeout: the word is in the error text.
Response == [success : BOOLEAN, id : BOOLEAN, error : Errors, timeout : BOOLEAN,
             by : Providers]

Success(p, id) ==
  [success |-> TRUE, id |-> id, error |-> "none", timeout |-> FALSE, by |-> p]

Failure(p, error, timeout) ==
  [success |-> FALSE, id |-> FALSE, error |-> error, timeout |-> timeout, by |-> p]

\* EvolutionProvider.send with mapToProviderResponse.
EvolutionSend(o) ==
  CASE o.status = 200 /\ o.body # "none" -> Success("EVOLUTION", o.body = "id")
    [] o.status = 200 /\ o.body = "none" ->
         Failure("EVOLUTION", "Unknown error", FALSE)
    [] o.status = 0 -> Failure("EVOLUTION", "transportText", FALSE)
    [] OTHER -> Failure("EVOLUTION", "providerText", o.body = "saysTimeout")

\* ResendProvider.errorCode; also for a 200 without an id.
ResendError(o) ==
  CASE o.status = 401 \/ (o.status = 400 /\ o.body = "keyError") -> "AUTH_FAILED"
    [] o.status = 429 -> "RATE_LIMITED"
    [] o.status >= 500 -> "UNAVAILABLE"
    [] OTHER -> "REQUEST_REJECTED"

\* Its error codes are its own; it says timeout exactly when its timer fired.
ResendSend(o) ==
  CASE o.status = 200 /\ o.body \in {"id", "emptyId"} ->
         Success("RESEND", o.body = "id")
    [] o.status = 0 -> Failure("RESEND", "UNAVAILABLE", o.body = "timedOut")
    [] OTHER -> Failure("RESEND", ResendError(o), FALSE)

\* The id of a mail is the one the client chose for the message.
StalwartSend(o) ==
  CASE o = "sent" -> Success("STALWART", TRUE)
    [] o \in {"connect", "greetingSaysTimeout", "socketCode"} ->
         Failure("STALWART", "SMTP_CONNECTION_FAILED", o = "greetingSaysTimeout")
    [] o \in {"command", "serverSaysTimeout"} ->
         Failure("STALWART", "SMTP_ERROR", o = "serverSaysTimeout")
    [] o \in {"tokenTimeout", "tokenBroken"} ->
         Failure("STALWART", "EMAIL_SEND_FAILED", o = "tokenTimeout")

\* The adapter answers without a request.  text is what the client gave: a subject
\* or a sender address of spaces, a sender address, or neither; asText trims and
\* falls back to the configured address only if there is none.
NotConfigured(e, p, text) ==
  CASE p = "RESEND" ->
         \/ "RESEND_API_KEY" \in e.missing
         \/ text = "blank"
         \/ text = "plain" /\ "RESEND_FROM_ADDRESS" \in e.missing
    [] p = "STALWART" ->
         {"STALWART_HOST", "STALWART_FROM_ADDRESS"} \cap e.missing # {}
    [] p = "EVOLUTION" -> FALSE

\* A message that the provider has not taken is never answered with success ...
BeforeTaking(e, p) ==
  LET failed == {o \in HttpOutcomes : o.status # 200} IN
  CASE p = "EVOLUTION" -> {EvolutionSend(o) : o \in failed}
    [] p = "RESEND" -> {ResendSend(o) : o \in failed}
    [] p = "STALWART" ->
         {StalwartSend(o) : o \in {"connect", "greetingSaysTimeout", "command",
                                   "serverSaysTimeout", "socketCode"}
              \cup (IF e.oauth THEN {"tokenTimeout", "tokenBroken"} ELSE {})}

\* ... and one that it has taken by anything but a refusal.
AfterTaking(p) ==
  LET done == {o \in HttpOutcomes : o.status \in {0, 200, 500}} IN
  CASE p = "EVOLUTION" -> {EvolutionSend(o) : o \in done}
    [] p = "RESEND" -> {ResendSend(o) : o \in done}
    [] p = "STALWART" ->
         {StalwartSend(o) : o \in {"sent", "command", "serverSaysTimeout"}}

=============================================================================
