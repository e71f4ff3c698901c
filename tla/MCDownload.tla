---------------------------- MODULE MCDownload ----------------------------
EXTENDS Download, TLC

CONSTANTS f1, f2, n1, n2, j1, j2

\* Two files of one name, as in two directories of the sharer.
OneName == f1 :> n1 @@ f2 :> n1

\* Two files of different names.
TwoNames == f1 :> n1 @@ f2 :> n2

\* Two files, one of them twice, or one under the id of the other.
BothTwiceOrOther == {0 :> f1 @@ 1 :> f2, 0 :> f1 @@ 1 :> f1, 0 :> f2}

\* One id, two files.
OneOrOther == {0 :> f1, 0 :> f2}

MCUserFiles == {<<n1, 0>>}

Symmetry == Permutations(Jobs)
=============================================================================
