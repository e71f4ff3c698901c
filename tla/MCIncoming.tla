----------------------------- MODULE MCIncoming -----------------------------
(***************************************************************************)
(* A small instance of Incoming for TLC.                                   *)
(***************************************************************************)
EXTENDS Incoming, TLC

CONSTANTS f1, f2, n1, w1, w2, p1

\* Two files of the same name, one of them empty, one of them with a digest,
\* whose ids are not their keys; and two files with content under one id.
TwoFiles == { f1 :> [id |-> f2, name |-> n1, size |-> 1, hashed |-> digest]
                @@ f2 :> [id |-> f1, name |-> n1, size |-> 0, hashed |-> ~digest] : digest \in BOOLEAN }
OneId == f1 :> [id |-> f1, name |-> n1, size |-> 1, hashed |-> FALSE]
           @@ f2 :> [id |-> f1, name |-> n1, size |-> 1, hashed |-> TRUE]
AllOffers == TwoFiles \cup {OneId}

\* One file, with a digest.
OneFile == { f1 :> [id |-> f1, name |-> n1, size |-> 1, hashed |-> TRUE] }

\* Two files of the same name, both with content.
SameName == { f1 :> [id |-> f1, name |-> n1, size |-> 1, hashed |-> FALSE]
                @@ f2 :> [id |-> f2, name |-> n1, size |-> 1, hashed |-> FALSE] }

NoUserFiles == {}
OneUserFile == {<<n1, 0>>}

WorkerSymmetry == Permutations(Workers)
=============================================================================
