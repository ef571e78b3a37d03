-------------------------- MODULE MCMessageGateway --------------------------
EXTENDS MessageGateway, TLC

Symmetry ==
  Permutations(MessageIds) \cup Permutations(ProviderIds)
    \cup Permutations(Requests) \cup Permutations(Deliveries)

=============================================================================
