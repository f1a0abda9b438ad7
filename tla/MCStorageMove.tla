---------------------------- MODULE MCStorageMove ----------------------------
EXTENDS StorageMove, TLC

Symmetry == Permutations(Recs)
=============================================================================
