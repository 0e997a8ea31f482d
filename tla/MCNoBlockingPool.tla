-------------------------- MODULE MCNoBlockingPool --------------------------
(* NoBlockingPool for TLC: threads and objects may be permuted.            *)
EXTENDS NoBlockingPool, TLC

Symmetry == Permutations(Callers) \cup Permutations(Items)
=============================================================================
