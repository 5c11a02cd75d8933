--------------------------- MODULE MCOwnedHandles ----------------------------
EXTENDS OwnedHandles, TLC

Symmetry == Permutations(Handles)
=============================================================================
