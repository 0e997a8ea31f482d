-------------------------- MODULE MCIntervalTable --------------------------
(* IntervalTable for TLC: threads and keys may be permuted.                *)
EXTENDS IntervalTable, TLC

Symmetry == Permutations(Threads) \cup Permutations(Keys)
=============================================================================
