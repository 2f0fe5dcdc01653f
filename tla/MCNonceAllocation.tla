------------------------- MODULE MCNonceAllocation -------------------------
EXTENDS NonceAllocation, TLC

Symmetry == Permutations(Txs)
=============================================================================
