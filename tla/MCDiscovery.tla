---------------------------- MODULE MCDiscovery ----------------------------
EXTENDS Discovery, TLC

CONSTANTS w1, w2

Symmetry == Permutations(Workers)
=============================================================================
