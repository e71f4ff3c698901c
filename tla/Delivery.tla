------------------------------ MODULE Delivery ------------------------------
(***************************************************************************)
(* What an outgoing transfer promises to the user who looks at it,         *)
(* whatever threads, messages and retries bring it about: a transfer shown *)
(* as DONE has reached the receiver, with every file it wanted, and is not *)
(* taken back to a transfer in progress.  Sending implements this.         *)
(***************************************************************************)
CONSTANTS Jobs, Files

VARIABLES
  want,    \* the files the receiver has agreed to take
  have,    \* the files that have arrived
  outcome  \* what the user is shown: "open", "done", or "off": given up

vars == <<want, have, outcome>>

Init ==
  /\ want = [j \in Jobs |-> {}]
  /\ have = [j \in Jobs |-> {}]
  /\ outcome = [j \in Jobs |-> "open"]

\* The receiver agrees once, also to a transfer that has been given up.
Agree(j) ==
  /\ outcome[j] # "done" /\ want[j] = {}
  /\ \E fs \in SUBSET Files : want' = [want EXCEPT ![j] = fs]
  /\ UNCHANGED <<have, outcome>>

Arrive(j) ==
  /\ \E f \in want[j] : have' = [have EXCEPT ![j] = @ \cup {f}]
  /\ UNCHANGED <<want, outcome>>

Report(j) ==
  /\ want[j] \subseteq have[j]
  /\ outcome' = [outcome EXCEPT ![j] = "done"]
  /\ UNCHANGED <<want, have>>

\* A cancel, a failure, or several removed from the list at once.
Drop(js) ==
  /\ outcome' = [j \in Jobs |-> IF j \in js THEN "off" ELSE outcome[j]]
  /\ UNCHANGED <<want, have>>

\* The worker goes on with what was canceled before it began.
Resume(j) ==
  /\ outcome[j] = "off"
  /\ outcome' = [outcome EXCEPT ![j] = "open"]
  /\ UNCHANGED <<want, have>>

Next ==
  \/ \E js \in SUBSET Jobs : Drop(js)
  \/ \E j \in Jobs : Agree(j) \/ Arrive(j) \/ Report(j) \/ Resume(j)

Spec == Init /\ [][Next]_vars
=============================================================================
