----------------------------- MODULE MCFileRef ------------------------------
EXTENDS FileRef, TLC
MCSymmetry == Permutations(Threads)
=============================================================================
