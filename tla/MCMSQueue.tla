----------------------------- MODULE MCMSQueue -----------------------------
(* MSQueue for TLC: threads and nodes may be permuted.                     *)
EXTENDS MSQueue, TLC

Symmetry == Permutations(Threads) \cup Permutations(Nodes)
=============================================================================
