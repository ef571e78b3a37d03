----------------------------- MODULE GatewayErrors -----------------------------
(***************************************************************************)
(* How an error becomes the answer of an HTTP request: the exceptions the  *)
(* services throw (gateway.errors.ts and the framework's) and the filter   *)
(* that describes them (gateway-exception.filter.ts).  An answer is its    *)
(* status and its code: the field message, or error where message is prose; *)
(* correlation id and logging are left out.                                *)
(***************************************************************************)
EXTENDS Naturals

Answered(status, message) == [status |-> status, message |-> message]

\* An exception of the framework carries its status and its message.
HttpException(status, message) == [kind |-> "http", status |-> status, message |-> message]

\* An error of the domain layer, or any other, carries neither.
DomainError(name) == [kind |-> "domain", name |-> name]

\* describeDomainError
DomainAnswer(name) ==
  CASE name = "NoProviderAvailableError" -> Answered(503, "NO_PROVIDER_AVAILABLE")
    [] name = "ProviderNotAvailableError" -> Answered(503, "PROVIDER_NOT_AVAILABLE")
    [] name = "ProviderNotFoundError" -> Answered(404, "PROVIDER_NOT_FOUND")
    [] name = "ChannelNotFoundError" -> Answered(404, "CHANNEL_NOT_FOUND")
    [] name = "AddressResolutionError" -> Answered(422, "ADDRESS_RESOLUTION_FAILED")
    [] name = "WebhookVerificationError" ->
         Answered(401, "WEBHOOK_VERIFICATION_FAILED")
    [] name = "DeliveryFailedError" -> Answered(502, "DELIVERY_FAILED")
    [] name = "InvalidStatusTransitionError" ->
         Answered(409, "INVALID_STATUS_TRANSITION")
    [] OTHER -> Answered(500, "InternalServerError")

\* Mutation of the description below: only exceptions of the framework are known.
DescribeFrameworkOnly(x) ==
  IF x.kind = "http" THEN Answered(x.status, x.message)
  ELSE Answered(500, "InternalServerError")

\* describe
Describe(x) ==
  IF x.kind = "http" THEN Answered(x.status, x.message) ELSE DomainAnswer(x.name)

=============================================================================
