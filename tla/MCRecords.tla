----------------------------- MODULE MCRecords -----------------------------
EXTENDS Records, TLC

CONSTANTS r1, r2, u1, u2

MCOld == <<r1, r2>>

Symmetry == Permutations(Uploads)
=============================================================================
