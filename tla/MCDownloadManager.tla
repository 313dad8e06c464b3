-------------------------- MODULE MCDownloadManager --------------------------
EXTENDS DownloadManager, TLC

CONSTANTS r1, r2

Symmetry == Permutations(Recordings)
=============================================================================
