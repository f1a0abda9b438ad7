--------------------------- MODULE MCDownloadQueue ---------------------------
EXTENDS DownloadQueue, TLC

Symmetry == Permutations(Files)
=============================================================================
