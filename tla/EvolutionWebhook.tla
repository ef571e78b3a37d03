--------------------------- MODULE EvolutionWebhook ---------------------------
(***************************************************************************)
(* How the Evolution adapter verifies and reads a webhook                  *)
(* (verifyWebhook and handleWebhook of evolution.provider.ts, the          *)
(* comparisons of evolution.webhook-verifier.ts and the mapping of         *)
(* evolution.mapper.ts).                                                   *)
(*                                                                         *)
(* A credential is right if it is the configured value, or, for the        *)
(* signature, was made with it.  The right value of a setting that is      *)
(* absent would be the empty one.                                          *)
(***************************************************************************)
EXTENDS Naturals, FiniteSets

CONSTANT MaxCredentials \* bound: how many credentials one webhook presents

ASSUME CredentialAssumption == MaxCredentials \in Nat

\* Two headers and a field of the body for the API key, three headers for the
\* webhook secret: the bearer and two that carry a signature.
Slots == {"apikey", "x-api-key", "body", "bearer", "x-signature",
          "x-evolution-signature"}

SecretOf(slot) ==
  IF slot \in {"apikey", "x-api-key", "body"} THEN "EVOLUTION_API_KEY"
                                              ELSE "EVOLUTION_WEBHOOK_SECRET"

Credentials ==
  {c \in [Slots -> {"absent", "right", "wrong", "empty"}] :
     Cardinality({slot \in Slots : c[slot] # "absent"}) <= MaxCredentials}

\* Mutation of the comparison below: lengths are compared first, and two empty
\* values are equal.
MatchesUnguarded(value, configured) ==
  value = "right" \/ (value = "empty" /\ ~configured)

\* verifyApiKey, verifyBearerSecret and verifyEvolutionSignature: neither an absent
\* candidate nor an absent secret matches.
Matches(value, configured) == value = "right" /\ configured

\* The first of two headers that is there counts, even if it is wrong or empty.
HeaderKey(c) == IF c["apikey"] # "absent" THEN c["apikey"] ELSE c["x-api-key"]

Signature(c) ==
  IF c["x-signature"] # "absent" THEN c["x-signature"] ELSE c["x-evolution-signature"]

\* Any one of the credentials is enough.
VerifyWebhook(configured, c) ==
  \/ Matches(HeaderKey(c), "EVOLUTION_API_KEY" \in configured)
  \/ Matches(c["body"], "EVOLUTION_API_KEY" \in configured)
  \/ Matches(c["bearer"], "EVOLUTION_WEBHOOK_SECRET" \in configured)
  \/ Matches(Signature(c), "EVOLUTION_WEBHOOK_SECRET" \in configured)

\* The configured settings whose value the sender knows.
Known(configured, c) ==
  {SecretOf(slot) : slot \in {s \in Slots : c[s] = "right"}} \cap configured

\* What can arrive, for each set of configured settings: whether it is verified, and
\* what its sender knows.
Arrivals ==
  UNION {{[configured |-> configured, verified |-> VerifyWebhook(configured, c),
           known |-> Known(configured, c)] : c \in Credentials} :
         configured \in SUBSET {"EVOLUTION_API_KEY", "EVOLUTION_WEBHOOK_SECRET"}}

\* name: the event of the envelope; keyed: its data has an object key; type: the
\* field messageType of that data.
Payload == [name : {"messages.upsert", "messages.update", "other"},
            keyed : BOOLEAN,
            type : {"read", "delivered", "failed", "sent", "other"}]

ReceiptStatus(type) ==
  CASE type = "read" -> "READ"
    [] type = "delivered" -> "DELIVERED"
    [] type = "failed" -> "FAILED"
    [] type = "sent" -> "SENT"
    [] OTHER -> "UNKNOWN"

\* handleWebhook: an envelope that is no JSON has no event name.
KindOf(payload) ==
  CASE payload.name = "messages.upsert" /\ payload.keyed -> "inbound"
    [] payload.name = "messages.update" /\ payload.keyed -> "receipt"
    [] OTHER -> "ignored"

=============================================================================
