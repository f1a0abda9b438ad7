--------------------------- MODULE MCBrainOwnership --------------------------
EXTENDS BrainOwnership, TLC

Symmetry == Permutations(Brains)
=============================================================================
