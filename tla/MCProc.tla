------------------------------ MODULE MCProc ------------------------------
EXTENDS MtProc, TLC

Symm == Permutations(Pd \ {Root})
=============================================================================
