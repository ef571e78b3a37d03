--------------------------- MODULE MCOutboxWorker ---------------------------
EXTENDS OutboxWorker, TLC

Symmetry == Permutations(Workers)

=============================================================================
