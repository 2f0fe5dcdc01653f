------------------------ MODULE MCTransactionTracking ------------------------
EXTENDS TransactionTracking, TLC

Symmetry == Permutations(Slots)
=============================================================================
