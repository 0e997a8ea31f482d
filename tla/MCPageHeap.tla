----------------------------- MODULE MCPageHeap -----------------------------
(* The instances of PageHeap that TLC checks.                              *)
EXTENDS PageHeap, TLC

Symmetry == Permutations(Threads)
=============================================================================
