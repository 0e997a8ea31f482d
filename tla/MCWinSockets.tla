---------------------------- MODULE MCWinSockets ----------------------------
EXTENDS WinSockets, TLC

Symmetry == Permutations(Sockets) \cup Permutations(Threads)
=============================================================================
