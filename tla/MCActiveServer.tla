--------------------------- MODULE MCActiveServer ---------------------------
(* ActiveServer for TLC: the sets that may be permuted.                    *)
EXTENDS ActiveServer, TLC

Symmetry ==
  Permutations(Actives) \cup Permutations(Handles) \cup Permutations(Posters)
    \cup Permutations(Workers)
=============================================================================
