---------------------------- MODULE GatewayConfig ----------------------------
(***************************************************************************)
(* The environment the gateway starts with, as readEnv accepts it          *)
(* (config/env.ts), and what it makes of the providers: the channels the   *)
(* factory registers (provider-registry.factory.ts) and which provider can *)
(* work at all.                                                            *)
(*                                                                         *)
(* Of a setting only its presence matters here; numbers, URLs and JSON     *)
(* documents are either well formed or the process does not start.         *)
(***************************************************************************)
EXTENDS Naturals, Sequences, SequencesExt

CONSTANTS
  Omissible, \* bound: the settings an environment may leave out
  MaxMissing \* bound: how many of them at a time

EmailNames == {"resend", "stalwart", "none"}

Providers == {"EVOLUTION", "RESEND", "STALWART"}

Channels == {"WHATSAPP", "EMAIL"}

Settings ==
  {"CHAT_SERVICE_URL", "CHAT_SERVICE_API_KEY", "NOTIFICATION_SERVICE_URL",
   "NOTIFICATION_SERVICE_API_KEY", "INTERNAL_API_KEY", "EVOLUTION_BASE_URL",
   "EVOLUTION_API_KEY", "EVOLUTION_WEBHOOK_SECRET", "RESEND_API_KEY",
   "RESEND_FROM_ADDRESS", "STALWART_HOST", "STALWART_USERNAME",
   "STALWART_PASSWORD", "STALWART_OAUTH_TOKEN_URL", "STALWART_OAUTH_CLIENT_ID",
   "STALWART_OAUTH_CLIENT_SECRET", "STALWART_FROM_ADDRESS"}

ASSUME ConfigAssumption ==
  /\ Omissible \subseteq Settings
  /\ MaxMissing \in Nat

\* strict: NODE_ENV is production, development or staging; oauth: the mode of the
\* login at Stalwart; missing: the settings that are absent or blank.
Environment ==
  [strict : BOOLEAN, primary : EmailNames, fallback : EmailNames,
   stalwart : BOOLEAN, oauth : BOOLEAN, missing : SUBSET Omissible]

Selects(e, name) == name \in {e.primary, e.fallback}

\* Mutation of the requirements below: those of Stalwart are forgotten.
RequiredWithoutStalwart(e) ==
  {"CHAT_SERVICE_URL", "CHAT_SERVICE_API_KEY", "NOTIFICATION_SERVICE_URL",
   "NOTIFICATION_SERVICE_API_KEY", "INTERNAL_API_KEY", "EVOLUTION_BASE_URL",
   "EVOLUTION_API_KEY", "EVOLUTION_WEBHOOK_SECRET"}
  \cup (IF Selects(e, "resend") THEN {"RESEND_API_KEY", "RESEND_FROM_ADDRESS"}
                                ELSE {})

\* What a strict environment must not leave out.  The sender address of Stalwart
\* is not among it, and STALWART_ENABLED is not asked.
Required(e) ==
  {"CHAT_SERVICE_URL", "CHAT_SERVICE_API_KEY", "NOTIFICATION_SERVICE_URL",
   "NOTIFICATION_SERVICE_API_KEY", "INTERNAL_API_KEY", "EVOLUTION_BASE_URL",
   "EVOLUTION_API_KEY", "EVOLUTION_WEBHOOK_SECRET"}
  \cup (IF Selects(e, "resend") THEN {"RESEND_API_KEY", "RESEND_FROM_ADDRESS"}
                                ELSE {})
  \cup (IF Selects(e, "stalwart")
          THEN {"STALWART_HOST", "STALWART_USERNAME", "STALWART_PASSWORD"}
               \cup (IF e.oauth THEN {"STALWART_OAUTH_TOKEN_URL",
                                      "STALWART_OAUTH_CLIENT_ID",
                                      "STALWART_OAUTH_CLIENT_SECRET"}
                                ELSE {})
          ELSE {})

\* The process starts with these; otherwise a ConfigurationError ends it.
Accepted(e) == e.strict => Required(e) \cap e.missing = {}

\* The environments that matter: strict whenever that is accepted, for the process
\* behaves the same without; and no choice about a provider that is not selected.
Configurations ==
  {e \in Environment :
     /\ Accepted(e)
     /\ e.strict \/ ~Accepted([e EXCEPT !.strict = TRUE])
     /\ Cardinality(e.missing) <= MaxMissing
     /\ e.stalwart => Selects(e, "stalwart")
     /\ e.oauth => e.stalwart
     /\ ~e.stalwart => e.missing \cap {"STALWART_HOST", "STALWART_FROM_ADDRESS"} = {}
     /\ ~Selects(e, "resend") =>
          e.missing \cap {"RESEND_API_KEY", "RESEND_FROM_ADDRESS"} = {}}

-----------------------------------------------------------------------------
(* buildChannelRegistry *)

\* At most one provider; Stalwart only if it is enabled.
EmailProvider(e, name) ==
  CASE name = "resend" -> <<"RESEND">>
    [] name = "stalwart" /\ e.stalwart -> <<"STALWART">>
    [] OTHER -> <<>>

PrimariesOf(e, ch) ==
  IF ch = "WHATSAPP" THEN <<"EVOLUTION">> ELSE EmailProvider(e, e.primary)

\* A fallback equal to the primary is none.
FallbacksOf(e, ch) ==
  LET fallbacks == EmailProvider(e, e.fallback) IN
  IF ch = "WHATSAPP" \/ PrimariesOf(e, ch) \in {<<>>, fallbacks} THEN <<>>
  ELSE fallbacks

\* Where a provider is asked for its health.  Without it no probe succeeds.
Reachable(e, p) ==
  CASE p = "EVOLUTION" -> "EVOLUTION_BASE_URL" \notin e.missing
    [] p = "STALWART" -> "STALWART_HOST" \notin e.missing
    [] p = "RESEND" ->
         {"RESEND_API_KEY", "RESEND_FROM_ADDRESS"} \cap e.missing = {}

=============================================================================
