------------------------------ MODULE MCFdTable ------------------------------
EXTENDS FdTable, TLC
MCSymmetry == Permutations(Threads) \cup Permutations(Files)
=============================================================================
