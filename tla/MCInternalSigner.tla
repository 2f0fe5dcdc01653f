--------------------------- MODULE MCInternalSigner ---------------------------
(* InternalSigner with interchangeable keyrings and calls.                     *)
EXTENDS InternalSigner, TLC

Symmetry == Permutations(Rings) \cup Permutations(Calls)
===============================================================================
