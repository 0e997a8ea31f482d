---------------------------- MODULE MCWriteBuff ----------------------------
(***************************************************************************)
(* Messages of one, two and three parts of a page of two, so that some     *)
(* share a page, some do not fit any more, and one is larger than a page.  *)
(***************************************************************************)
EXTENDS WriteBuff, TLC

Sizes == <<1, 2, 3, 1>>

Symmetry == Permutations(Threads)
=============================================================================
