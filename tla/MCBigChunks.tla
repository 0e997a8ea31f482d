----------------------------- MODULE MCBigChunks -----------------------------
(***************************************************************************)
(* BigChunks for TLC, and the search by halves on all lists up to a length.*)
(***************************************************************************)
EXTENDS BigChunks, TLC

Symmetry == Permutations(Heaps) \cup Permutations(Freers)

\* The lists of n chunks that are in order of size, of three sizes (2, 4, 6)
Lists(n) == {l \in [1 .. n -> {2, 4, 6}] : \A i \in 1 .. n - 1 : l[i] <= l[i + 1]}
Same == [s \in {2, 4, 6} |-> s]

\* Up to five chunks the search ends, and finds a chunk that is large enough
\* and has no smaller one before it that is, or equal, if there is one.
ASSUME SearchUpToFive ==
  \A n \in 0 .. 5 : \A l \in Lists(n) : \A x \in 1 .. 7 :
    LET i == Bisearch(l, Same, x) IN
    /\ Ends(l, Same, x)
    /\ i = -1 <=> \A j \in 1 .. n : l[j] < x
    /\ i >= 0 => l[i + 1] >= x /\ \A j \in 1 .. n : l[j] > x => l[j] >= l[i + 1]

\* With six it need not end: from index 1 to 3, back to 1, and so on, with
\* _bigfree_flag set.
ASSUME SearchOfSix == ~Ends(<<2, 2, 4, 4, 4, 4>>, Same, 3)
=============================================================================
