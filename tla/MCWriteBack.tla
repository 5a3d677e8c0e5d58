---------------------------- MODULE MCWriteBack ----------------------------
EXTENDS WriteBack, TLC
CONSTANTS w1, w2

Symmetry == Permutations({w1, w2})
=============================================================================
