--------------------------- MODULE MCDispatchLock ---------------------------
EXTENDS DispatchLock, TLC
Symmetry == Permutations(Procs) \cup Permutations(Inodes)
=============================================================================
