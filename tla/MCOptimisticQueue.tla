------------------------- MODULE MCOptimisticQueue -------------------------
EXTENDS OptimisticQueue, TLC

Symmetry == Permutations(Threads)
=============================================================================
