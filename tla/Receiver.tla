------------------------------ MODULE Receiver ------------------------------
(***************************************************************************)
(* What the receiving side (ServerHandler, src/protocol/upload.cpp)        *)
(* promises to senders, whatever its threads, its user and other senders   *)
(* do: it stores only files it has given a token for, it answers 200 to an *)
(* upload only when the file is stored, and a session whose files have all *)
(* been counted does not keep it busy.  Incoming implements this; the      *)
(* receiver of Sending takes these steps.                                  *)
(*                                                                         *)
(* What it does not promise: a session may lose the slot at any time, to   *)
(* an idle timeout, a cancel or another session, and the count of its      *)
(* files may be muddled, by the uploads of a session it replaced or by a   *)
(* file that is not as long as it was announced.                           *)
(***************************************************************************)
CONSTANTS
  Sessions,  \* one for each prepare-upload request
  Files,
  None       \* no session

VARIABLES
  slot,     \* the session that is open
  granted,  \* the files of each session that got a token
  stored,   \* the files of each session received completely
  missing,  \* the files that keep the session open; none when muddled
  muddled   \* what is counted is not what the session has received

vars == <<slot, granted, stored, missing, muddled>>
open == <<slot, missing, muddled>>

Init ==
  /\ slot = None /\ missing = {} /\ muddled = FALSE
  /\ granted = [s \in Sessions |-> {}]
  /\ stored = [s \in Sessions |-> {}]

Closed == slot' = None /\ missing' = {} /\ muddled' = FALSE

\* A prepare-upload is answered with a token for each file accepted.  Empty
\* files are not waited for.  Another session may have taken the slot already.
Grant(s, files) ==
  /\ granted[s] = {} /\ files # {}
  /\ granted' = [granted EXCEPT ![s] = files]
  /\ \/ UNCHANGED open
     \/ slot = None /\ slot' = s /\ missing' \in SUBSET files /\ muddled' = FALSE
     \/ slot = None /\ slot' = s /\ missing' = {} /\ muddled' = TRUE
  /\ UNCHANGED stored

\* An upload has been received and has passed its checks; a wrong length is
\* none of them.
Store(s, f) ==
  /\ f \in granted[s]
  /\ stored' = [stored EXCEPT ![s] = @ \cup {f}]
  /\ \/ UNCHANGED <<missing, muddled>>
     \/ slot = s /\ missing' = {} /\ muddled' = TRUE
  /\ UNCHANGED <<slot, granted>>

\* It is counted, and answered with 200: the last one closes the session.
Finish(s, f) ==
  /\ f \in stored[s]
  /\ IF slot = s /\ ~muddled
     THEN /\ missing' = missing \ {f}
          /\ slot' = IF missing' = {} THEN None ELSE slot
          /\ UNCHANGED muddled
     ELSE UNCHANGED open \/ Closed
  /\ UNCHANGED <<granted, stored>>

\* The session loses the slot.
Release ==
  /\ slot # None
  /\ Closed
  /\ UNCHANGED <<granted, stored>>

Next ==
  \/ \E s \in Sessions : \E files \in SUBSET Files : Grant(s, files)
  \/ \E s \in Sessions, f \in Files : Store(s, f) \/ Finish(s, f)
  \/ Release

Spec == Init /\ [][Next]_vars
=============================================================================
