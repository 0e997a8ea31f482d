--------------------------- MODULE MCHazardSystem ---------------------------
(* HazardSystem for TLC: threads, nodes and recover lists may be permuted. *)
EXTENDS HazardSystem, TLC

Symmetry == Permutations(Users) \cup Permutations(Objects) \cup Permutations(Lists)
=============================================================================
