-------------------------- MODULE MCSigningRequests --------------------------
EXTENDS SigningRequests, TLC

Symmetry == Permutations(Requests)
=============================================================================
