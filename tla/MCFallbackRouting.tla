-------------------------- MODULE MCFallbackRouting --------------------------
EXTENDS FallbackRouting, TLC

Symmetry == Permutations(Messages)
=============================================================================
