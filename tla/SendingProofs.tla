---------------------------- MODULE SendingProofs ----------------------------
(***************************************************************************)
(* Theorems about Sending, for any number of transfers, files and prompts: *)
(* its types, that a worker never loses its transfer, that DONE means      *)
(* received, that the receiver is not left busy, and that Sending          *)
(* implements Delivery.                                                    *)
(*                                                                         *)
(* The argument: what a worker has taken off its list is stored (Progress),*)
(* since only the answer to the upload of cur, which the receiver gives    *)
(* when it stores cur, makes the worker go on; and the worker reports DONE *)
(* as its last access to the table, when the list is empty.  A job that    *)
(* lost no message has one request on its way, the one it waits for        *)
(* (OneCall), so that the receiver's session follows its steps             *)
(* (OneSession).                                                           *)
(***************************************************************************)
EXTENDS Sending, SequenceTheorems, TLAPS

\* The steps before the receiver's answer has been taken.
Early == {"none", "start", "prepare", "asking", "refuse", "pinState", "pinPost", "pinWait", "pinQuit"}

\* The session that the last prepare-upload of a job asked for.
Own(j) == <<j, asks[j]>>

\* What a transfer wants, what is left of it and what has arrived.
Progress(j) ==
  /\ pc[j] \in Early => accepted[j] = {}
  /\ left[j] \subseteq accepted[j]
  /\ pc[j] # "ended" => accepted[j] \ left[j] \subseteq stored[Own(j)]
  /\ pc[j] = "sending" /\ resp[j] \in {"200", "204"} => cur[j] \in stored[Own(j)]
  /\ pc[j] = "finish" => accepted[j] \subseteq stored[Own(j)]
  /\ xfer[j] = "done" => pc[j] = "ended" /\ accepted[j] \subseteq stored[Own(j)]

ProgressInv == \A j \in Jobs : Progress(j)

\* Only files that were agreed to are on their way.
NetInv == \A m \in net : m.kind = "upload" => m.file \in accepted[m.job]

\* Until the UI thread has entered the worker's thread into the table, it is
\* inside SendFiles, and clears nothing.
Held(j) ==
  /\ creating = j => xfer[j] \notin {"none", "removed"}
  /\ pc[j] \notin {"none", "ended"} =>
       xfer[j] \notin {"none", "removed"} /\ (creating = j \/ thread[j])

HeldInv == \A j \in Jobs : Held(j)

-----------------------------------------------------------------------------
(* Types                                                                    *)

LEMMA InitType == Init => TypeOK
<1> HAVE Init
<1>1. /\ slot \in Sessions \cup {None} /\ missing \in SUBSET Files /\ muddled \in BOOLEAN
      /\ granted \in [Sessions -> SUBSET Files] /\ stored \in [Sessions -> SUBSET Files]
  BY DEF Init, Server!Init
<1> QED
  BY <1>1, AsksAssumption DEF Init, TypeOK, States, Final, Steps, Asks

\* Every message of a call is one of Messages.
LEMMA MessageType ==
  ASSUME TypeOK, NEW kind \in Kinds, NEW j \in Jobs, NEW f \in Files \cup {None}
  PROVE  Message(kind, j, f) \in Messages
  BY DEF TypeOK, Message, Messages

LEMMA StateType ==
  ASSUME xfer \in [Jobs -> States], NEW j \in Jobs, NEW state \in States, SetState(j, state)
  PROVE  xfer' \in [Jobs -> States]
  BY DEF SetState

LEMMA StepType ==
  ASSUME pc \in [Jobs -> Steps], NEW j \in Jobs, NEW step \in Steps, Goto(j, step)
  PROVE  pc' \in [Jobs -> Steps]
  BY DEF Goto

LEMMA EndType ==
  ASSUME TypeOK, NEW j \in Jobs, NEW state \in States, End(j, state)
  PROVE  TypeOK'
  BY DEF TypeOK, End, SetState, Goto, Steps, ui, worker, remote

LEMMA UiType ==
  ASSUME TypeOK, NEW j \in Jobs,
         UiSend(j) \/ UiCreateThread(j) \/ UiSetThread(j) \/ UiCancel(j) \/ UiClear
  PROVE  TypeOK'
<1>1. CASE UiSend(j)
  BY <1>1 DEF TypeOK, UiSend, ui, worker, remote, States
<1>2. CASE UiCreateThread(j)
  <2>1. xfer \in [Jobs -> States] /\ pc \in [Jobs -> Steps] /\ creating \in Jobs \cup {None}
    BY DEF TypeOK
  <2>2. "start" \in Steps /\ "ended" \in Steps /\ "failed" \in States
    BY DEF Steps, States, Final
  <2>3. creating' \in Jobs \cup {None}
    BY <1>2, <2>1 DEF UiCreateThread
  <2>4. CASE Goto(j, "start") /\ xfer' = xfer
    BY <1>2, <2>1, <2>2, <2>3, <2>4, StepType DEF TypeOK, UiCreateThread, ui, worker, remote
  <2>5. CASE SetState(j, "failed") /\ Goto(j, "ended")
    <3>1. xfer' \in [Jobs -> States] /\ pc' \in [Jobs -> Steps]
      BY <2>1, <2>2, <2>5, StateType, StepType
    <3> QED
      BY <1>2, <2>3, <3>1 DEF TypeOK, UiCreateThread, ui, worker, remote
  <2> QED
    BY <1>2, <2>4, <2>5 DEF UiCreateThread
<1>3. CASE UiSetThread(j)
  BY <1>3 DEF TypeOK, UiSetThread, ui, worker, remote
<1>4. CASE UiCancel(j)
  BY <1>4 DEF TypeOK, UiCancel, SetState, ui, worker, remote, States, Final
<1>5. CASE UiClear
  BY <1>5 DEF TypeOK, UiClear, ui, worker, remote, States
<1> QED
  BY <1>1, <1>2, <1>3, <1>4, <1>5

LEMMA DrainType == ASSUME TypeOK, UiDrain PROVE TypeOK'
<1>1. stack' \in Seq(Seq(Prompts) \ {<<>>}) /\ queue' \in Seq(Prompts)
  BY DEF TypeOK, UiDrain
<1> QED
  BY <1>1 DEF TypeOK, UiDrain, table, worker, remote

LEMMA AnswerType == ASSUME TypeOK, UiAnswer PROVE TypeOK'
<1> DEFINE Batches == Seq(Prompts) \ {<<>>}
           top == stack[Len(stack)]
           below == SubSeq(stack, 1, Len(stack) - 1)
<1>1. stack \in Seq(Batches) /\ Len(stack) \in Nat /\ Len(stack) >= 1
  BY EmptySeq, LenProperties DEF TypeOK, UiAnswer
<1>2. top \in Batches
  BY <1>1, ElementOfSeq
<1>3. Tail(top) \in Seq(Prompts) /\ Head(top) \in Prompts
  BY <1>2, HeadTailProperties
<1>4. below \in Seq(Batches)
  BY <1>1, SubSeqProperties
<1>5. stack' \in Seq(Batches)
  <2>1. CASE Tail(top) = <<>>
    BY <2>1, <1>4 DEF UiAnswer, Closed
  <2>2. CASE Tail(top) # <<>>
    BY <2>2, <1>3, <1>4, AppendProperties DEF UiAnswer, Closed
  <2> QED
    BY <2>1, <2>2
<1>6. Shown[1] \in Jobs
  BY <1>3 DEF Shown, Prompts
<1>7. reply' \in [Jobs -> {"none", "ok", "no"}]
  BY <1>6 DEF UiAnswer, TypeOK
<1> QED
  BY <1>5, <1>7 DEF TypeOK, UiAnswer, table, remote

LEMMA WorkerType ==
  ASSUME TypeOK, NEW j \in Jobs, Job(j)
  PROVE  TypeOK'
<1> USE DEF Goto, ui, worker, remote, table
<1>1. \A state \in States : SetState(j, state) => xfer' \in [Jobs -> States]
  BY DEF SetState, TypeOK
<1>2. \A m \in Messages : Call(m) => net' \subseteq Messages /\ resp' \in [Jobs -> Answers \cup {"none"}]
  BY DEF Call, TypeOK
<1> USE DEF Taken
<1>3. GiveUp(j) => /\ net' \in SUBSET Messages /\ cut' \in SUBSET Jobs
                   /\ resp' \in [Jobs -> Answers \cup {"none"}]
  BY DEF GiveUp, TypeOK
<1>4. \A step \in Steps : [pc EXCEPT ![j] = step] \in [Jobs -> Steps]
  BY DEF TypeOK
<1>5. CASE JobStart(j)
  BY <1>5 DEF JobStart, TypeOK, Steps
<1>6. CASE JobPrepare(j)
  <2>1. Message("prepare", j, None) \in Messages
    BY MessageType DEF Kinds
  <2> QED BY <2>1, <1>2, <1>6 DEF JobPrepare, TypeOK, Steps
<1>7. CASE JobAnswered(j)
  <2>1. status' \in [Jobs -> Answers \cup {"none"}] /\ pc' \in [Jobs -> Steps]
    BY <1>7 DEF JobAnswered, Refused, TypeOK, Steps
  <2>2. accepted' \in [Jobs -> SUBSET Files] /\ left' \in [Jobs -> SUBSET Files]
    <3>1. granted[<<j, asks[j]>>] \in SUBSET Files
      BY DEF TypeOK, Sessions
    <3>2. \/ /\ accepted' = [accepted EXCEPT ![j] = granted[<<j, asks[j]>>]]
             /\ left' = [left EXCEPT ![j] = granted[<<j, asks[j]>>]]
          \/ UNCHANGED <<accepted, left>>
      BY <1>7 DEF JobAnswered
    <3> QED
      BY <3>1, <3>2 DEF TypeOK
  <2> QED BY <2>1, <2>2, <1>7 DEF JobAnswered, TypeOK
<1>8. CASE JobUnanswered(j)
  BY <1>8, <1>3 DEF JobUnanswered, Refused, TypeOK, Steps
<1>9. CASE JobRefused(j) \/ JobPinQuit(j) \/ JobGaveUp(j) \/ JobDone(j)
  <2>1. CASE JobRefused(j) \/ JobPinQuit(j) \/ JobDone(j)
    BY <2>1, EndType DEF JobRefused, JobPinQuit, JobDone, States, Final
  <2>2. CASE JobGaveUp(j)
    <3>1. End(j, "canceled") \/ End(j, "failed")
      BY <2>2 DEF JobGaveUp
    <3> QED BY <3>1, EndType DEF States, Final
  <2> QED BY <1>9, <2>1, <2>2
<1>10. CASE JobPinState(j) \/ JobBegin(j)
  BY <1>10, <1>1 DEF JobPinState, JobBegin, TypeOK, States, Steps
<1>11. CASE JobPinPost(j)
  <2>1. /\ asks' \in [Jobs -> Asks] /\ reply' \in [Jobs -> {"none", "ok", "no"}]
        /\ queue' \in Seq(Prompts) /\ pc' \in [Jobs -> Steps]
    <3>1. CASE asks[j] < MaxAsks /\ asks' = [asks EXCEPT ![j] = @ + 1]
               /\ reply' = [reply EXCEPT ![j] = "none"] /\ queue' = Append(queue, <<j, asks[j] + 1>>)
               /\ Goto(j, "pinWait")
      <4>1. asks[j] + 1 \in 1..MaxAsks
        BY <3>1, AsksAssumption DEF TypeOK, Asks
      <4>2. queue' \in Seq(Prompts)
        BY <4>1, <3>1, AppendProperties DEF TypeOK, Prompts
      <4>3. asks' \in [Jobs -> Asks]
        BY <4>1, <3>1, AsksAssumption DEF TypeOK, Asks
      <4> QED BY <3>1, <4>2, <4>3 DEF TypeOK, Steps
    <3>2. CASE Goto(j, "pinQuit") /\ UNCHANGED <<asks, reply, queue>>
      BY <3>2 DEF TypeOK, Steps
    <3> QED BY <1>11, <3>1, <3>2 DEF JobPinPost
  <2> QED BY <2>1, <1>11 DEF JobPinPost, TypeOK
<1>12. CASE JobPinAnswered(j) \/ JobPinTimeout(j)
  BY <1>12 DEF JobPinAnswered, JobPinTimeout, TypeOK, Steps
<1>13. CASE JobNext(j)
  <2>1. pc' \in [Jobs -> Steps]
    BY <1>13 DEF JobNext, TypeOK, Steps
  <2>2. CASE UNCHANGED <<cur, resp, net>>
    BY <2>1, <2>2, <1>13 DEF JobNext, TypeOK
  <2>3. ASSUME NEW f \in left[j], cur' = [cur EXCEPT ![j] = f], Call(Message("upload", j, f))
        PROVE  TypeOK'
    <3>1. f \in Files
      BY DEF TypeOK
    <3>2. Message("upload", j, f) \in Messages
      BY <3>1, MessageType DEF Kinds
    <3>3. cur' \in [Jobs -> Files \cup {None}]
      BY <3>1, <2>3 DEF TypeOK
    <3> QED BY <2>1, <2>3, <3>2, <3>3, <1>2, <1>13 DEF JobNext, TypeOK
  <2> QED BY <1>13, <2>2, <2>3 DEF JobNext
<1>14. CASE JobSent(j)
  <2>1. pc' \in [Jobs -> Steps]
    BY <1>14 DEF JobSent, Explained, TypeOK, Steps
  <2>2. left' \in [Jobs -> SUBSET Files]
    BY <1>14 DEF JobSent, TypeOK
  <2> QED BY <2>1, <2>2, <1>14 DEF JobSent, TypeOK
<1>15. CASE JobUnsent(j)
  BY <1>15, <1>3 DEF JobUnsent, Explained, TypeOK, Steps
<1>16. CASE JobCancelUpload(j)
  <2>1. Message("cancel", j, None) \in Messages
    BY MessageType DEF Kinds
  <2> QED BY <2>1, <1>2, <1>16 DEF JobCancelUpload, TypeOK, Steps
<1>17. CASE JobCanceled(j)
  BY <1>17, <1>3 DEF JobCanceled, TypeOK, Steps
<1> QED
  BY <1>5, <1>6, <1>7, <1>8, <1>9, <1>10, <1>11, <1>12, <1>13, <1>14, <1>15, <1>16, <1>17 DEF Job

\* The receiver's part of TypeOK.
RemoteOK ==
  /\ slot \in Sessions \cup {None}
  /\ granted \in [Sessions -> SUBSET Files]
  /\ missing \in SUBSET Files
  /\ muddled \in BOOLEAN
  /\ stored \in [Sessions -> SUBSET Files]

LEMMA GrantType ==
  ASSUME RemoteOK, NEW s \in Sessions, NEW files \in SUBSET Files, Server!Grant(s, files)
  PROVE  RemoteOK'
  BY DEF RemoteOK, Server!Grant, Server!open

LEMMA StoreType ==
  ASSUME RemoteOK, NEW s \in Sessions, NEW f \in Files, Server!Store(s, f) \/ Server!Finish(s, f)
  PROVE  RemoteOK'
  BY DEF RemoteOK, Server!Store, Server!Finish, Server!Closed, Server!open

LEMMA ReleaseType == ASSUME RemoteOK, Server!Release PROVE RemoteOK'
  BY DEF RemoteOK, Server!Release, Server!Closed

LEMMA PeerType ==
  ASSUME TypeOK, NEW m \in net, Peer(m)
  PROVE  TypeOK'
<1> USE DEF table, ui, worker, remote
<1>1. m \in Messages /\ m.job \in Jobs /\ m.try \in Asks /\ m.file \in Files \cup {None}
  BY DEF TypeOK, Messages
<1>2. \A code \in Answers : Answer(m, code) =>
        net' \in SUBSET Messages /\ resp' \in [Jobs -> Answers \cup {"none"}]
  BY <1>1 DEF Answer, TypeOK
<1>3. Session(m) \in Sessions
  BY <1>1 DEF Session, Sessions
<1>4. CASE PeerGrants(m)
  <2>1. PICK files \in SUBSET Files : Server!Grant(Session(m), files)
    BY <1>4 DEF PeerGrants
  <2> QED BY <2>1, <1>2, <1>3, <1>4, GrantType DEF PeerGrants, TypeOK, RemoteOK, Answers
<1>5. CASE PeerRefuses(m)
  <2>1. PICK code \in Answers : Answer(m, code)
    BY <1>5 DEF PeerRefuses, Answers
  <2> QED BY <2>1, <1>2, <1>5 DEF PeerRefuses, TypeOK
<1>6. CASE PeerStores(m) \/ PeerFinishes(m)
  <2>1. m.file \in granted[Session(m)] \/ m.file \in stored[Session(m)]
    BY <1>6 DEF PeerStores, PeerFinishes, Server!Store, Server!Finish
  <2>2. m.file \in Files
    BY <2>1, <1>3 DEF TypeOK
  <2>3. CASE PeerStores(m)
    BY <2>2, <2>3, <1>3, StoreType DEF PeerStores, TypeOK, RemoteOK
  <2>4. CASE PeerFinishes(m)
    BY <2>2, <2>4, <1>2, <1>3, StoreType DEF PeerFinishes, TypeOK, RemoteOK, Answers
  <2> QED BY <1>6, <2>3, <2>4
<1>7. CASE PeerFails(m)
  BY <1>2, <1>7 DEF PeerFails, TypeOK, Answers
<1>8. CASE PeerCancels(m)
  BY <1>2, <1>8, ReleaseType DEF PeerCancels, TypeOK, RemoteOK, Answers
<1> QED
  BY <1>4, <1>5, <1>6, <1>7, <1>8 DEF Peer

LEMMA TypeStep == ASSUME TypeOK, [Next]_vars PROVE TypeOK'
<1>1. CASE UNCHANGED vars
  BY <1>1 DEF vars, TypeOK
<1>2. CASE PeerReleases
  BY <1>2, ReleaseType DEF PeerReleases, TypeOK, RemoteOK, table, ui, worker
<1>3. CASE UiClear
  <2>1. PICK j \in Jobs : Removable(j)
    BY <1>3 DEF UiClear
  <2> QED BY <1>3, UiType
<1>4. CASE \E j \in Jobs : UiSend(j) \/ UiCreateThread(j) \/ UiSetThread(j) \/ UiCancel(j)
  BY <1>4, UiType
<1>5. CASE UiDrain \/ UiAnswer
  BY <1>5, DrainType, AnswerType
<1>6. CASE \E j \in Jobs : Job(j)
  BY <1>6, WorkerType
<1>7. CASE \E m \in net : Peer(m)
  BY <1>7, PeerType
<1>8. ASSUME NEW j \in Jobs, PeerStopsReading(j)
      PROVE  TypeOK'
  <2>1. pc' \in [Jobs -> Steps]
    BY <1>8, StepType DEF PeerStopsReading, TypeOK, Steps
  <2> QED
    BY <1>8, <2>1 DEF PeerStopsReading, TypeOK, table, ui, worker, remote
<1> QED
  BY <1>1, <1>2, <1>3, <1>4, <1>5, <1>6, <1>7, <1>8 DEF Next, Ui

\* Every variable of the sending side keeps its type, and no call of
\* HandleUiEvents is left without work, for any number of prompts.
THEOREM TypeTheorem == Spec => []TypeOK
  BY InitType, TypeStep, PTL DEF Spec

-----------------------------------------------------------------------------
(* The transfer that a worker works for                                     *)

\* A step of a worker that does not end it, nor the transfer.
LEMMA HeldLater ==
  ASSUME TypeOK, HeldInv, NEW j \in Jobs, NEW step \in Steps \ {"none"}, Goto(j, step),
         pc[j] \notin {"none", "ended"}, UNCHANGED <<thread, creating>>,
         UNCHANGED xfer \/ \E state \in States \ {"none", "removed"} : SetState(j, state)
  PROVE  HeldInv'
  BY NoneAssumption DEF TypeOK, HeldInv, Held, SetState, Goto

LEMMA HeldWorker ==
  ASSUME TypeOK, HeldInv, NEW j \in Jobs, Job(j)
  PROVE  HeldInv'
<1> USE DEF table
<1>1. pc[j] \notin {"none", "ended"} /\ UNCHANGED <<thread, creating>>
  BY DEF Job, JobStart, JobPrepare, JobAnswered, JobUnanswered, JobRefused, JobPinState,
    JobPinPost, JobPinAnswered, JobPinTimeout, JobPinQuit, JobBegin, JobNext, JobSent, JobUnsent,
    JobCancelUpload, JobCanceled, JobGaveUp, JobDone, End
<1>2. \E step \in Steps \ {"none"} : Goto(j, step)
  <2>1. CASE JobRefused(j)
    BY <2>1 DEF JobRefused, End, Steps
  <2>2. CASE JobStart(j) \/ JobPrepare(j) \/ JobPinState(j) \/ JobPinPost(j) \/ JobPinAnswered(j)
             \/ JobPinTimeout(j) \/ JobPinQuit(j) \/ JobBegin(j) \/ JobNext(j)
    BY <2>2 DEF JobStart, JobPrepare, JobPinState, JobPinPost, JobPinAnswered, JobPinTimeout,
      JobPinQuit, JobBegin, JobNext, End, Steps
  <2>3. CASE JobAnswered(j) \/ JobUnanswered(j) \/ JobSent(j) \/ JobUnsent(j)
    BY <2>3 DEF JobAnswered, JobUnanswered, JobSent, JobUnsent, Refused, Explained, Steps
  <2>4. CASE JobCancelUpload(j) \/ JobCanceled(j) \/ JobGaveUp(j) \/ JobDone(j)
    BY <2>4 DEF JobCancelUpload, JobCanceled, JobGaveUp, JobDone, End, Steps
  <2> QED
    BY <2>1, <2>2, <2>3, <2>4 DEF Job
<1>3. UNCHANGED xfer \/ \E state \in States \ {"none", "removed"} : SetState(j, state)
  <2>1. CASE JobRefused(j)
    BY <2>1 DEF JobRefused, End, States, Final
  <2>2. CASE JobGaveUp(j)
    BY <2>2 DEF JobGaveUp, End, States, Final
  <2> QED
    BY <2>1, <2>2 DEF Job, JobStart, JobPrepare, JobAnswered, JobUnanswered, JobPinState,
      JobPinPost, JobPinAnswered, JobPinTimeout, JobPinQuit, JobBegin, JobNext, JobSent, JobUnsent,
      JobCancelUpload, JobCanceled, JobDone, End, States, Final
<1> QED
  BY <1>1, <1>2, <1>3, HeldLater

LEMMA HeldStep == ASSUME TypeOK, HeldInv, [Next]_vars PROVE HeldInv'
<1>1. CASE UNCHANGED <<xfer, thread, creating, pc>>
  BY <1>1 DEF HeldInv, Held
<1>2. ASSUME NEW j \in Jobs, UiSend(j) PROVE HeldInv'
  BY <1>2, NoneAssumption DEF TypeOK, HeldInv, Held, UiSend, MainWindowEnabled, UiFree, ui, worker, remote
<1>3. ASSUME NEW j \in Jobs, UiCreateThread(j) PROVE HeldInv'
  BY <1>3, NoneAssumption DEF TypeOK, HeldInv, Held, UiCreateThread, SetState, Goto
<1>4. ASSUME NEW j \in Jobs, UiSetThread(j) PROVE HeldInv'
  BY <1>4, NoneAssumption DEF TypeOK, HeldInv, Held, UiSetThread
<1>5. ASSUME NEW j \in Jobs, UiCancel(j) PROVE HeldInv'
  BY <1>5 DEF TypeOK, HeldInv, Held, UiCancel, SetState
<1>6. CASE UiClear
  BY <1>6, NoneAssumption DEF TypeOK, HeldInv, Held, UiClear, MainWindowEnabled, UiFree, Removable
<1>7. ASSUME NEW j \in Jobs, Job(j) PROVE HeldInv'
  BY <1>7, HeldWorker
<1>8. CASE UiDrain \/ UiAnswer \/ PeerReleases \/ UNCHANGED vars
  BY <1>1, <1>8 DEF UiDrain, UiAnswer, PeerReleases, vars, table
<1>9. ASSUME NEW m \in net, Peer(m) PROVE HeldInv'
  BY <1>1, <1>9 DEF Peer, PeerGrants, PeerRefuses, PeerStores, PeerFinishes, PeerFails, PeerCancels, table
<1>10. ASSUME NEW j \in Jobs, PeerStopsReading(j) PROVE HeldInv'
  BY <1>10, HeldLater DEF PeerStopsReading, Waiting, Steps, table
<1> QED
  BY <1>2, <1>3, <1>4, <1>5, <1>6, <1>7, <1>8, <1>9, <1>10 DEF Next, Ui

\* A worker never loses its transfer: RemoveFinished frees none whose worker
\* still runs, though it takes a transfer without a thread for one that has
\* ended.
THEOREM AliveTheorem == Spec => []TransferAlive
<1>1. Init => HeldInv
  BY NoneAssumption DEF Init, HeldInv, Held
<1>2. TypeOK /\ HeldInv /\ [Next]_vars => HeldInv'
  BY HeldStep
<1>3. HeldInv => TransferAlive
  BY DEF HeldInv, Held, TransferAlive
<1> QED
  BY <1>1, <1>2, <1>3, TypeTheorem, PTL DEF Spec

-----------------------------------------------------------------------------
(* Progress                                                                 *)

\* A worker touches its own transfer only.
LEMMA Frame ==
  ASSUME TypeOK, NEW j \in Jobs, NEW k \in Jobs \ {j}, Job(j)
  PROVE  /\ xfer'[k] = xfer[k] /\ pc'[k] = pc[k] /\ resp'[k] = resp[k]
         /\ accepted'[k] = accepted[k] /\ left'[k] = left[k] /\ cur'[k] = cur[k]
         /\ asks'[k] = asks[k]
         /\ stored' = stored
<1> USE DEF TypeOK, Goto, SetState, End, Call, Message, GiveUp, Taken, table, worker, remote
<1>1. CASE JobRefused(j)
  BY <1>1 DEF JobRefused
<1>2. CASE JobStart(j) \/ JobPrepare(j) \/ JobUnanswered(j) \/ JobPinState(j) \/ JobPinPost(j)
           \/ JobPinAnswered(j) \/ JobPinTimeout(j) \/ JobPinQuit(j) \/ JobBegin(j)
  BY <1>2 DEF JobStart, JobPrepare, JobUnanswered, JobPinState, JobPinPost, JobPinAnswered,
    JobPinTimeout, JobPinQuit, JobBegin
<1>3. CASE JobAnswered(j)
  BY <1>3 DEF JobAnswered
<1>4. CASE JobNext(j)
  BY <1>4 DEF JobNext
<1>5. CASE JobSent(j) \/ JobUnsent(j)
  BY <1>5 DEF JobSent, JobUnsent
<1>6. CASE JobCancelUpload(j) \/ JobCanceled(j) \/ JobGaveUp(j) \/ JobDone(j)
  BY <1>6 DEF JobCancelUpload, JobCanceled, JobGaveUp, JobDone
<1> QED
  BY <1>1, <1>2, <1>3, <1>4, <1>5, <1>6 DEF Job

\* The steps that leave the lists of files and the session alone.
LEMMA Idle ==
  ASSUME TypeOK, ProgressInv, NEW j \in Jobs,
         UNCHANGED <<accepted, left, stored>>, asks'[j] = asks[j],
         pc[j] # "ended", pc'[j] \notin {"sending", "finish"},
         pc[j] \in Early \/ pc'[j] \notin Early,
         xfer'[j] = xfer[j] \/ xfer'[j] # "done"
  PROVE  Progress(j)'
  BY DEF ProgressInv, Progress, Own

\* A worker that ends, and reports no success.
LEMMA Quits ==
  ASSUME TypeOK, ProgressInv, NEW j \in Jobs, pc[j] # "ended",
         NEW state \in Final \ {"done"}, End(j, state)
  PROVE  Progress(j)'
<1>1. /\ accepted' = accepted /\ left'[j] = {} /\ pc'[j] = "ended"
      /\ xfer[j] # "done"
  BY DEF End, Goto, TypeOK, ProgressInv, Progress
<1>2. xfer'[j] # "done"
  BY <1>1 DEF End, SetState, TypeOK, Final
<1> QED
  BY <1>1, <1>2 DEF Progress, Early

\* A worker takes a file off its list only when it has been stored.
LEMMA ProgressWorker ==
  ASSUME TypeOK, ProgressInv, NEW j \in Jobs, Job(j)
  PROVE  ProgressInv'
<1> USE DEF Goto, table, worker, remote
<1>1. Progress(j)'
  <2>1. CASE JobRefused(j) \/ JobPinQuit(j) \/ JobGaveUp(j)
    BY <2>1, Quits DEF JobRefused, JobPinQuit, JobGaveUp, Final
  <2>2. CASE JobStart(j) \/ JobPrepare(j) \/ JobPinState(j) \/ JobPinAnswered(j) \/ JobPinTimeout(j)
             \/ JobBegin(j)
    <3>1. /\ UNCHANGED <<accepted, left, stored>> /\ asks'[j] = asks[j]
          /\ pc'[j] \notin {"sending", "finish"}
      BY <2>2 DEF JobStart, JobPrepare, JobPinState, JobPinAnswered, JobPinTimeout, JobBegin, TypeOK
    <3>2. xfer'[j] = xfer[j] \/ xfer'[j] # "done"
      BY <2>2 DEF JobStart, JobPrepare, JobPinState, JobPinAnswered, JobPinTimeout, JobBegin,
        SetState, TypeOK
    <3>3. pc[j] # "ended" /\ (pc[j] \in Early \/ pc'[j] \notin Early)
      BY <2>2 DEF JobStart, JobPrepare, JobPinState, JobPinAnswered, JobPinTimeout, JobBegin, TypeOK, Early
    <3> QED BY <3>1, <3>2, <3>3, Idle
  <2>3. CASE JobUnanswered(j)
    BY <2>3, Idle DEF JobUnanswered, Refused, TypeOK, Early
  <2>4. CASE JobUnsent(j)
    BY <2>4, Idle DEF JobUnsent, Explained, TypeOK, Early
  <2>5. CASE JobCancelUpload(j) \/ JobCanceled(j)
    BY <2>5, Idle DEF JobCancelUpload, JobCanceled, TypeOK, Early
  <2>6. CASE JobAnswered(j)
    <3>1. pc[j] = "asking" /\ UNCHANGED <<xfer, asks, stored>> /\ accepted[j] = {} /\ left[j] = {}
      BY <2>6 DEF JobAnswered, ProgressInv, Progress, Early
    <3>2. CASE resp[j] = "200"
      <4>1. accepted'[j] = left'[j] /\ pc'[j] = "begin"
        BY <2>6, <3>2 DEF JobAnswered, TypeOK
      <4> QED BY <3>1, <4>1 DEF ProgressInv, Progress, Early
    <3>3. CASE resp[j] # "200"
      <4>1. accepted'[j] = {} /\ left'[j] = {} /\ pc'[j] # "sending"
        BY <2>6, <3>1, <3>3 DEF JobAnswered, Refused, TypeOK
      <4> QED BY <3>1, <4>1 DEF ProgressInv, Progress
    <3> QED BY <3>2, <3>3
  <2>7. CASE JobNext(j)
    <3>1. pc'[j] = "sending" => resp'[j] = "none"
      BY <2>7 DEF JobNext, Call, Message, TypeOK
    <3>2. /\ pc[j] = "check" /\ UNCHANGED <<xfer, accepted, left, asks, stored>>
          /\ pc'[j] \in {"finish", "cancel", "fail", "sending"}
          /\ (pc'[j] = "finish" => left[j] = {})
      BY <2>7 DEF JobNext, TypeOK
    <3>3. Own(j)' = Own(j) /\ stored' = stored
      BY <3>2 DEF Own
    <3>4. Progress(j)
      BY DEF ProgressInv
    <3> QED BY <3>1, <3>2, <3>3, <3>4 DEF Progress, Early
  <2>8. CASE JobSent(j)
    <3>1. pc[j] = "sending" /\ UNCHANGED <<xfer, accepted, asks, stored>> /\ Progress(j)
      BY <2>8 DEF JobSent, ProgressInv
    <3>2. CASE resp[j] \in {"200", "204"}
      <4>1. pc'[j] = "check" /\ left'[j] = left[j] \ {cur[j]}
        BY <2>8, <3>2 DEF JobSent, TypeOK
      <4> QED BY <3>1, <3>2, <4>1 DEF Progress, Early, Own
    <3>3. CASE resp[j] \notin {"200", "204"}
      <4>1. pc'[j] \in {"cancel", "fail"} /\ left'[j] = left[j]
        BY <2>8, <3>3 DEF JobSent, Explained, TypeOK
      <4> QED BY <3>1, <4>1 DEF Progress, Early, Own
    <3> QED BY <3>2, <3>3
  <2>9. CASE JobDone(j)
    BY <2>9 DEF JobDone, End, SetState, TypeOK, ProgressInv, Progress, Early, Own
  <2>10. CASE JobPinPost(j)
    <3>1. /\ accepted[j] = {} /\ UNCHANGED <<accepted, left, xfer>>
          /\ pc[j] = "pinPost" /\ pc'[j] \in {"pinWait", "pinQuit"}
      BY <2>10 DEF JobPinPost, TypeOK, ProgressInv, Progress, Early
    <3> QED BY <3>1 DEF ProgressInv, Progress, Early
  <2> QED
    BY <2>1, <2>2, <2>3, <2>4, <2>5, <2>6, <2>7, <2>8, <2>9, <2>10 DEF Job
<1>2. ASSUME NEW k \in Jobs \ {j} PROVE Progress(k)'
  BY <1>2, Frame DEF ProgressInv, Progress, Own
<1> QED
  BY <1>1, <1>2 DEF ProgressInv

\* What an upload waits for.
LEMMA UploadOutstanding ==
  ASSUME NEW j \in Jobs, pc[j] = "sending"
  PROVE  /\ Outstanding(j).kind = "upload" /\ Outstanding(j).file = cur[j]
         /\ Outstanding(j).job = j /\ Outstanding(j).try = asks[j]
  BY DEF Outstanding, Message

\* The receiver says that it has a file only when it has stored it.
LEMMA ProgressPeer ==
  ASSUME TypeOK, ProgressInv, NEW m \in net, Peer(m)
  PROVE  ProgressInv'
<1> USE DEF remote
<1>1. m.job \in Jobs /\ m.try \in Asks /\ Session(m) \in Sessions
  BY DEF TypeOK, Messages, Session, Sessions
<1>2. UNCHANGED <<xfer, pc, accepted, left, cur, asks>>
  BY DEF Peer, PeerGrants, PeerRefuses, PeerStores, PeerFinishes, PeerFails, PeerCancels, table, worker
<1>3. \A s \in Sessions : stored[s] \subseteq stored'[s]
  BY DEF Peer, PeerGrants, PeerRefuses, PeerStores, PeerFinishes, PeerFails, PeerCancels, TypeOK,
    Server!Grant, Server!Store, Server!Finish, Server!Release
<1>4. \A k \in Jobs : Own(k) \in Sessions /\ Own(k)' = Own(k)
  BY <1>2 DEF Own, Sessions, TypeOK
<1>5. ASSUME NEW k \in Jobs, pc[k] = "sending", resp'[k] \in {"200", "204"}
      PROVE  cur[k] \in stored'[Own(k)]
  <2>1. CASE resp'[k] = resp[k]
    BY <2>1, <1>3, <1>4, <1>5 DEF ProgressInv, Progress
  <2>2. CASE resp'[k] # resp[k]
    <3>1. PICK code \in Answers : Answer(m, code)
      BY <2>2 DEF Peer, PeerGrants, PeerRefuses, PeerStores, PeerFinishes, PeerFails, PeerCancels, Answers
    <3>2. k = m.job /\ m = Outstanding(k) /\ resp'[k] = code
      BY <3>1, <2>2, <1>1 DEF Answer, TypeOK
    <3>3. m.kind = "upload" /\ m.file = cur[k] /\ Session(m) = Own(k)
      BY <3>2, <1>5, UploadOutstanding DEF Session, Own
    <3>4. ~PeerStores(m)
      BY <2>2 DEF PeerStores
    <3>5. ~PeerFails(m)
      BY <1>1, <2>2, <3>2, <1>5 DEF PeerFails, Answer, TypeOK
    <3>6. Server!Finish(Own(k), cur[k])
      BY <3>3, <3>4, <3>5 DEF Peer, PeerGrants, PeerRefuses, PeerCancels, PeerFinishes
    <3> QED BY <3>6 DEF Server!Finish
  <2> QED BY <2>1, <2>2
<1> QED
  BY <1>2, <1>3, <1>4, <1>5 DEF ProgressInv, Progress

LEMMA ProgressStep == ASSUME TypeOK, ProgressInv, [Next]_vars PROVE ProgressInv'
<1> USE DEF TypeOK, ProgressInv, Progress, Own, ui, worker, remote
<1>1. ASSUME NEW j \in Jobs, UiSend(j) PROVE ProgressInv'
  BY <1>1 DEF UiSend
<1>2. ASSUME NEW j \in Jobs, UiCreateThread(j) PROVE ProgressInv'
  <2>1. /\ pc[j] = "none" /\ UNCHANGED <<accepted, left, cur, asks, resp, stored>>
        /\ pc'[j] \in {"start", "ended"} /\ \A k \in Jobs \ {j} : pc'[k] = pc[k]
        /\ \A k \in Jobs : xfer'[k] = xfer[k] \/ xfer'[k] = "failed"
    BY <1>2 DEF UiCreateThread, SetState, Goto
  <2> QED BY <2>1 DEF Early
<1>3. ASSUME NEW j \in Jobs, UiSetThread(j) PROVE ProgressInv'
  BY <1>3 DEF UiSetThread
<1>4. ASSUME NEW j \in Jobs, UiCancel(j) PROVE ProgressInv'
  BY <1>4 DEF UiCancel, SetState
<1>5. CASE UiClear
  BY <1>5 DEF UiClear
<1>6. CASE UiDrain \/ UiAnswer \/ PeerReleases \/ UNCHANGED vars
  BY <1>6 DEF UiDrain, UiAnswer, PeerReleases, Server!Release, vars, table
<1>7. ASSUME NEW j \in Jobs, PeerStopsReading(j) PROVE ProgressInv'
  <2>1. /\ pc[j] \in Waiting /\ pc'[j] = "blocked" /\ \A k \in Jobs \ {j} : pc'[k] = pc[k]
        /\ UNCHANGED <<xfer, accepted, left, cur, asks, resp, stored>>
    BY <1>7 DEF PeerStopsReading, Goto, table
  <2> QED BY <2>1 DEF Early, Waiting
<1> QED
  BY <1>1, <1>2, <1>3, <1>4, <1>5, <1>6, <1>7, ProgressWorker, ProgressPeer DEF Next, Ui

\* Every upload on its way is of a file that the receiver agreed to.
LEMMA NetStep == ASSUME TypeOK, ProgressInv, NetInv, [Next]_vars PROVE NetInv'
<1>1. CASE net' \subseteq net /\ UNCHANGED accepted
  BY <1>1 DEF NetInv
<1>2. ASSUME NEW j \in Jobs, JobPrepare(j) \/ JobCancelUpload(j) PROVE NetInv'
  BY <1>2 DEF JobPrepare, JobCancelUpload, Call, Message, NetInv, worker
<1>3. ASSUME NEW j \in Jobs, JobAnswered(j) PROVE NetInv'
  <2>1. accepted[j] = {} /\ net' = net
    BY <1>3 DEF JobAnswered, ProgressInv, Progress, Early
  <2>2. \A k \in Jobs \ {j} : accepted'[k] = accepted[k]
    BY <1>3 DEF JobAnswered, TypeOK
  <2> QED BY <2>1, <2>2 DEF NetInv, TypeOK, Messages
<1>4. ASSUME NEW j \in Jobs, JobNext(j) PROVE NetInv'
  <2>1. CASE net' = net
    BY <2>1, <1>4, <1>1 DEF JobNext
  <2>2. ASSUME NEW f \in left[j], Call(Message("upload", j, f)) PROVE NetInv'
    BY <2>2, <1>4 DEF JobNext, Call, Message, NetInv, ProgressInv, Progress
  <2> QED BY <1>4, <2>1, <2>2 DEF JobNext
<1>5. ASSUME NEW j \in Jobs, JobUnanswered(j) \/ JobUnsent(j) \/ JobCanceled(j) PROVE NetInv'
  BY <1>1, <1>5 DEF JobUnanswered, JobUnsent, JobCanceled, GiveUp, worker
<1>6. ASSUME NEW j \in Jobs, JobRefused(j) PROVE NetInv'
  BY <1>1, <1>6 DEF JobRefused, End
<1>7. ASSUME NEW j \in Jobs, Job(j) PROVE NetInv'
  <2>1. CASE JobStart(j) \/ JobPinState(j) \/ JobPinPost(j) \/ JobPinAnswered(j) \/ JobPinTimeout(j)
             \/ JobPinQuit(j) \/ JobBegin(j) \/ JobSent(j) \/ JobGaveUp(j) \/ JobDone(j)
    BY <2>1, <1>1 DEF JobStart, JobPinState, JobPinPost, JobPinAnswered, JobPinTimeout, JobPinQuit,
      JobBegin, JobSent, JobGaveUp, JobDone, End, worker
  <2> QED
    BY <2>1, <1>2, <1>3, <1>4, <1>5, <1>6, <1>7 DEF Job
<1>8. CASE UiDrain \/ UiAnswer \/ UiClear \/ PeerReleases \/ UNCHANGED vars
  BY <1>1, <1>8 DEF UiDrain, UiAnswer, UiClear, PeerReleases, vars, worker
<1>9. ASSUME NEW j \in Jobs, UiSend(j) \/ UiCreateThread(j) \/ UiSetThread(j) \/ UiCancel(j)
                             \/ PeerStopsReading(j)
      PROVE  NetInv'
  BY <1>1, <1>9 DEF UiSend, UiCreateThread, UiSetThread, UiCancel, PeerStopsReading, worker
<1>10. ASSUME NEW m \in net, Peer(m) PROVE NetInv'
  BY <1>1, <1>10 DEF Peer, PeerGrants, PeerRefuses, PeerStores, PeerFinishes, PeerFails, PeerCancels, Answer, worker
<1> QED
  BY <1>7, <1>8, <1>9, <1>10 DEF Next, Ui

LEMMA ProgressTheorem == Spec => [](TypeOK /\ ProgressInv /\ NetInv)
<1>1. Init => ProgressInv /\ NetInv
  BY DEF Init, ProgressInv, Progress, NetInv
<1>2. TypeOK /\ ProgressInv /\ NetInv /\ [Next]_vars => (ProgressInv /\ NetInv)'
  BY ProgressStep, NetStep
<1> QED
  BY <1>1, <1>2, TypeTheorem, PTL DEF Spec

\* A transfer shown as DONE was received: every file that the receiver
\* accepted is stored there, in the session that accepted it, whatever was
\* canceled, replaced, lost or late.
THEOREM ReceivedTheorem == Spec => []SentMeansReceived
<1>1. ProgressInv => SentMeansReceived
  BY DEF ProgressInv, Progress, SentMeansReceived, Own
<1> QED
  BY <1>1, ProgressTheorem, PTL

-----------------------------------------------------------------------------
(* Sending implements Delivery                                              *)

Kind(state) ==
  IF state = "done" THEN "done"
  ELSE IF state \in {"none", "waiting", "pin_required", "transferring"} THEN "open" ELSE "off"

Quiet == UNCHANGED <<accepted, stored>>

\* A file stored in a session of a job has arrived.
LEMMA ArrivesIn ==
  ASSUME TypeOK, NEW j \in Jobs, NEW n \in Asks
  PROVE  stored[<<j, n>>] \subseteq Arrived(j)
  BY DEF Arrived

LEMMA ArrivedSame ==
  ASSUME stored' = stored
  PROVE  [j \in Jobs |-> Arrived(j)]' = [j \in Jobs |-> Arrived(j)]
  BY DEF Arrived

\* A store adds to what has arrived of its job, and of no other.
LEMMA ArrivedOne ==
  ASSUME TypeOK, NEW j \in Jobs, NEW n \in Asks, NEW f \in Files,
         stored' = [stored EXCEPT ![<<j, n>>] = @ \cup {f}]
  PROVE  [k \in Jobs |-> Arrived(k)]' = [[k \in Jobs |-> Arrived(k)] EXCEPT ![j] = @ \cup {f}]
<1>1. \A k \in Jobs, i \in Asks : <<k, i>> \in Sessions
  BY DEF Sessions
<1>2. \A k \in Jobs, i \in Asks :
        stored'[<<k, i>>] = IF k = j /\ i = n THEN stored[<<k, i>>] \cup {f} ELSE stored[<<k, i>>]
  BY <1>1 DEF TypeOK
<1>3. ASSUME NEW k \in Jobs \ {j} PROVE Arrived(k)' = Arrived(k)
  <2>1. \A i \in Asks : stored'[<<k, i>>] = stored[<<k, i>>]
    BY <1>2, <1>3
  <2> QED BY <2>1 DEF Arrived
<1>4. Arrived(j)' = Arrived(j) \cup {f}
  <2>1. \A i \in Asks : stored'[<<j, i>>] = IF i = n THEN stored[<<j, n>>] \cup {f} ELSE stored[<<j, i>>]
    BY <1>2
  <2>2. ASSUME NEW g PROVE g \in Arrived(j)' <=> \E i \in Asks : g \in stored'[<<j, i>>]
    BY DEF Arrived
  <2>3. ASSUME NEW g PROVE g \in Arrived(j) <=> \E i \in Asks : g \in stored[<<j, i>>]
    BY DEF Arrived
  <2>4. \A g : g \in Arrived(j)' <=> g \in Arrived(j) \cup {f}
    BY <2>1, <2>2, <2>3
  <2> QED BY <2>4
<1> QED
  BY <1>3, <1>4

\* What the user is shown stays, for all transfers.
LEMMA SameShown ==
  ASSUME Quiet, \A k \in Jobs : Outcome(k)' = Outcome(k)
  PROVE  UNCHANGED Promise!vars
BY ArrivedSame DEF Quiet, Promise!vars

\* What the user is shown of one transfer changes.
LEMMA OneShown ==
  ASSUME TypeOK, NEW j \in Jobs, NEW state \in States \ {"none", "removed"}, SetState(j, state)
  PROVE  /\ \A k \in Jobs \ {j} : Outcome(k)' = Outcome(k)
         /\ Outcome(j)' = Outcome(j) \/ Outcome(j)' = Kind(state)
BY DEF TypeOK, SetState, Outcome, Kind

\* Some transfers are given up.
LEMMA DropShown ==
  ASSUME Quiet, NEW js \in SUBSET Jobs,
         \A k \in Jobs : Outcome(k)' = IF k \in js THEN "off" ELSE Outcome(k)
  PROVE  Promise!Next
<1>1. Promise!Drop(js)
  BY ArrivedSame DEF Promise!Drop, Quiet
<1> QED
  BY <1>1 DEF Promise!Next

\* A transfer is given up, by whoever writes its state.
LEMMA DropOne ==
  ASSUME TypeOK, Quiet, NEW j \in Jobs,
         NEW state \in Final \ {"done"}, SetState(j, state)
  PROVE  [Promise!Next]_(Promise!vars)
<1>1. state \in States \ {"none", "removed"} /\ Kind(state) = "off"
  BY DEF States, Final, Kind
<1>2. CASE Outcome(j)' = Outcome(j)
  BY <1>1, <1>2, OneShown, SameShown
<1>3. CASE Outcome(j)' = "off"
  <2>1. \A k \in Jobs : Outcome(k)' = IF k \in {j} THEN "off" ELSE Outcome(k)
    BY <1>1, <1>3, OneShown
  <2> QED BY <2>1, DropShown
<1> QED
  BY <1>1, <1>2, <1>3, OneShown

\* A worker that goes on writes a state of a transfer in progress.
LEMMA ResumeOne ==
  ASSUME TypeOK, ProgressInv, Quiet, NEW j \in Jobs, pc[j] # "ended",
         NEW state \in {"pin_required", "transferring"}, SetState(j, state)
  PROVE  [Promise!Next]_(Promise!vars)
<1>1. state \in States \ {"none", "removed"} /\ Kind(state) = "open"
  BY DEF States, Kind
<1>2. Outcome(j) \in {"open", "off"}
  BY DEF ProgressInv, Progress, Outcome
<1>3. CASE Outcome(j)' = Outcome(j)
  BY <1>1, <1>3, OneShown, SameShown
<1>4. CASE Outcome(j)' = "open" /\ Outcome(j) = "off"
  <2>1. [k \in Jobs |-> Outcome(k)]' = [[k \in Jobs |-> Outcome(k)] EXCEPT ![j] = "open"]
    BY <1>1, <1>4, OneShown
  <2>2. Promise!Resume(j)
    BY <1>4, <2>1, ArrivedSame DEF Promise!Resume, Quiet
  <2> QED BY <2>2 DEF Promise!Next
<1> QED
  BY <1>1, <1>2, <1>3, <1>4, OneShown

\* Steps that write no state, and no list of files.
LEMMA SilentStep ==
  ASSUME Quiet, UNCHANGED xfer
  PROVE  [Promise!Next]_(Promise!vars)
<1>1. \A k \in Jobs : Outcome(k)' = Outcome(k)
  BY DEF Outcome
<1> QED
  BY <1>1, SameShown

LEMMA RefineAnswered ==
  ASSUME TypeOK, ProgressInv, NEW j \in Jobs, JobAnswered(j)
  PROVE  [Promise!Next]_(Promise!vars)
<1>1. UNCHANGED <<xfer, stored>> /\ pc[j] = "asking"
  BY DEF JobAnswered, table, remote
<1>2. CASE UNCHANGED accepted
  BY <1>1, <1>2, SilentStep DEF Quiet
<1>3. CASE accepted' = [accepted EXCEPT ![j] = granted[<<j, asks[j]>>]]
  <2>1. Outcome(j) # "done" /\ accepted[j] = {}
    BY <1>1 DEF ProgressInv, Progress, Early, Outcome
  <2>2. granted[<<j, asks[j]>>] \in SUBSET Files
    BY DEF TypeOK, Sessions
  <2>3. [k \in Jobs |-> Outcome(k)]' = [k \in Jobs |-> Outcome(k)]
    BY <1>1 DEF Outcome
  <2>4. Promise!Agree(j)
    BY <1>1, <1>3, <2>1, <2>2, <2>3, ArrivedSame DEF Promise!Agree
  <2> QED BY <2>4 DEF Promise!Next
<1> QED
  BY <1>2, <1>3 DEF JobAnswered

LEMMA RefineDone ==
  ASSUME TypeOK, ProgressInv, NEW j \in Jobs, JobDone(j)
  PROVE  [Promise!Next]_(Promise!vars)
<1>1. Quiet /\ accepted[j] \subseteq Arrived(j) /\ SetState(j, "done")
  <2>1. accepted[j] \subseteq stored[<<j, asks[j]>>] /\ asks[j] \in Asks
    BY DEF JobDone, ProgressInv, Progress, Own, TypeOK
  <2> QED BY <2>1, ArrivesIn DEF JobDone, End, Quiet, remote
<1>2. \A k \in Jobs \ {j} : Outcome(k)' = Outcome(k)
  BY <1>1, OneShown DEF States, Final
<1>3. CASE Outcome(j)' = Outcome(j)
  BY <1>1, <1>2, <1>3, SameShown
<1>4. CASE Outcome(j)' = "done"
  <2>1. [k \in Jobs |-> Outcome(k)]' = [[k \in Jobs |-> Outcome(k)] EXCEPT ![j] = "done"]
    BY <1>2, <1>4
  <2>2. Promise!Report(j)
    BY <1>1, <2>1, ArrivedSame DEF Promise!Report, Quiet
  <2> QED BY <2>2 DEF Promise!Next
<1> QED
  BY <1>1, <1>3, <1>4, OneShown DEF States, Final, Kind

LEMMA RefineWorker ==
  ASSUME TypeOK, ProgressInv, NEW j \in Jobs, Job(j)
  PROVE  [Promise!Next]_(Promise!vars)
<1> USE DEF Quiet, table, worker, remote
<1>1. CASE JobAnswered(j)
  BY <1>1, RefineAnswered
<1>2. CASE JobDone(j)
  BY <1>2, RefineDone
<1>4. CASE JobRefused(j) \/ JobPinQuit(j) \/ JobGaveUp(j)
  <2>1. PICK state \in {"canceled", "failed"} : End(j, state)
    BY <1>4 DEF JobRefused, JobPinQuit, JobGaveUp
  <2> QED BY <2>1, DropOne DEF End, Final
<1>5. CASE JobPinState(j) \/ JobBegin(j)
  <2>1. PICK state \in {"pin_required", "transferring"} : SetState(j, state)
    BY <1>5 DEF JobPinState, JobBegin
  <2>2. Quiet /\ pc[j] # "ended"
    BY <1>5 DEF JobPinState, JobBegin
  <2> QED BY <2>1, <2>2, ResumeOne
<1>6. CASE JobStart(j) \/ JobPrepare(j) \/ JobUnanswered(j) \/ JobPinPost(j) \/ JobPinAnswered(j)
           \/ JobPinTimeout(j)
  BY <1>6, SilentStep DEF JobStart, JobPrepare, JobUnanswered, JobPinPost, JobPinAnswered, JobPinTimeout
<1>7. CASE JobNext(j) \/ JobSent(j) \/ JobUnsent(j) \/ JobCancelUpload(j) \/ JobCanceled(j)
  BY <1>7, SilentStep DEF JobNext, JobSent, JobUnsent, JobCancelUpload, JobCanceled
<1> QED
  BY <1>1, <1>2, <1>4, <1>5, <1>6, <1>7 DEF Job

LEMMA RefinePeer ==
  ASSUME TypeOK, NetInv, NEW m \in net, Peer(m)
  PROVE  [Promise!Next]_(Promise!vars)
<1>1. UNCHANGED <<xfer, accepted>>
  BY DEF Peer, PeerGrants, PeerRefuses, PeerStores, PeerFinishes, PeerFails, PeerCancels, table, worker
<1>2. CASE PeerStores(m)
  <2>1. m.job \in Jobs /\ m.try \in Asks /\ m.file \in accepted[m.job] /\ m.file \in Files
    BY <1>2 DEF TypeOK, Messages, NetInv, PeerStores
  <2>2. [k \in Jobs |-> Outcome(k)]' = [k \in Jobs |-> Outcome(k)]
    BY <1>1 DEF Outcome
  <2>3. stored' = [stored EXCEPT ![<<m.job, m.try>>] = @ \cup {m.file}]
    BY <1>2 DEF PeerStores, Session, Server!Store
  <2>4. Promise!Arrive(m.job)
    BY <1>1, <2>1, <2>2, <2>3, ArrivedOne DEF Promise!Arrive
  <2> QED BY <2>1, <2>4 DEF Promise!Next
<1>3. CASE UNCHANGED stored
  BY <1>1, <1>3, SilentStep DEF Quiet
<1> QED
  BY <1>2, <1>3 DEF Peer, PeerGrants, PeerRefuses, PeerFinishes, PeerFails, PeerCancels, remote,
    Server!Grant, Server!Finish, Server!Release

LEMMA RefineStep ==
  ASSUME TypeOK, ProgressInv, NetInv, [Next]_vars
  PROVE  [Promise!Next]_(Promise!vars)
<1> USE DEF Quiet, table, worker, remote
<1>1. ASSUME NEW j \in Jobs, UiSend(j) PROVE [Promise!Next]_(Promise!vars)
  <2>1. \A k \in Jobs : Outcome(k)' = Outcome(k)
    BY <1>1 DEF UiSend, Outcome, TypeOK
  <2> QED BY <1>1, <2>1, SameShown DEF UiSend
<1>2. ASSUME NEW j \in Jobs, UiCreateThread(j) PROVE [Promise!Next]_(Promise!vars)
  BY <1>2, DropOne, SilentStep DEF UiCreateThread, Final
<1>3. ASSUME NEW j \in Jobs, UiCancel(j) PROVE [Promise!Next]_(Promise!vars)
  BY <1>3, DropOne DEF UiCancel, Final
<1>4. CASE UiClear
  <2>1. \A k \in Jobs : Outcome(k)' = IF k \in {i \in Jobs : Removable(i)} THEN "off" ELSE Outcome(k)
    BY <1>4 DEF UiClear, Outcome
  <2>2. Quiet
    BY <1>4 DEF UiClear
  <2> QED BY <2>1, <2>2, DropShown
<1>5. ASSUME NEW j \in Jobs, UiSetThread(j) \/ PeerStopsReading(j)
      PROVE  [Promise!Next]_(Promise!vars)
  BY <1>5, SilentStep DEF UiSetThread, PeerStopsReading
<1>6. CASE UiDrain \/ UiAnswer \/ PeerReleases \/ UNCHANGED vars
  BY <1>6, SilentStep DEF UiDrain, UiAnswer, PeerReleases, Server!Release, vars
<1> QED
  BY <1>1, <1>2, <1>3, <1>4, <1>5, <1>6, RefineWorker, RefinePeer DEF Next, Ui

\* The workers, the UI thread, the network and the receiver together do what
\* Delivery promises to the user: DONE is reported only when every file that
\* was agreed to has arrived, and files that were not agreed to do not arrive.
THEOREM DeliveredTheorem == Spec => Delivered
<1>1. Init => Promise!Init
  <2> HAVE Init
  <2>1. ASSUME NEW j \in Jobs PROVE Arrived(j) = {}
    <3>1. \A n \in Asks : stored[<<j, n>>] = {}
      BY DEF Init, Server!Init, Sessions
    <3> QED BY <3>1 DEF Arrived
  <2> QED BY <2>1 DEF Init, Promise!Init, Outcome
<1>2. TypeOK /\ ProgressInv /\ NetInv /\ [Next]_vars => [Promise!Next]_(Promise!vars)
  BY RefineStep
<1> QED
  BY <1>1, <1>2, ProgressTheorem, PTL DEF Spec, Delivered, Promise!Spec

-----------------------------------------------------------------------------
(* The receiver's session                                                   *)

\* A job that lost nothing has one request on its way at most: the one whose
\* answer it waits for.
OneCall(j) == \A m \in net : m.job = j => pc[j] \in Waiting /\ m = Outstanding(j) /\ resp[j] = "none"

\* What a job is at while the receiver has a session of it, and knows what is
\* missing: the answer that opened the session is on its way, files are left,
\* or the session is being canceled.
AtWork(j) ==
  \/ /\ pc[j] = "asking" /\ resp[j] = "200"
     /\ missing \subseteq granted[Own(j)] /\ granted[Own(j)] # {}
  \/ pc[j] \in {"begin", "check"} /\ missing \subseteq left[j] /\ left[j] # {}
  \/ /\ pc[j] = "sending" /\ missing \subseteq left[j]
     /\ resp[j] \in {"200", "204"} => cur[j] \notin missing /\ missing # {}
  \/ pc[j] \in {"cancel", "fail"}
  \/ pc[j] \in {"canceling", "failing"} /\ resp[j] = "none"

OneSession(j) == \A n \in Asks : slot = <<j, n>> /\ ~muddled => n = asks[j] /\ AtWork(j)

SlotOK(j) == j \notin cut => OneCall(j) /\ OneSession(j)

SlotInv == \A j \in Jobs : SlotOK(j)

\* What a worker waits for.
LEMMA OutstandingIs ==
  ASSUME NEW j \in Jobs
  PROVE  /\ pc[j] = "asking" => Outstanding(j) = Message("prepare", j, None)
         /\ pc[j] = "sending" => Outstanding(j) = Message("upload", j, cur[j])
         /\ pc[j] \in {"canceling", "failing"} => Outstanding(j) = Message("cancel", j, None)
         /\ Outstanding(j).job = j /\ Outstanding(j).try = asks[j]
  BY DEF Outstanding, Message

\* A worker puts its own requests into the network only, and leaves the
\* receiver alone.
LEMMA FrameNet ==
  ASSUME TypeOK, NEW j \in Jobs, Job(j)
  PROVE  /\ remote' = remote /\ cut \subseteq cut'
         /\ \A k \in Jobs \ {j} : /\ asks'[k] = asks[k]
                                  /\ \A m \in net' : m.job = k => m \in net
<1> USE DEF TypeOK, Goto, End, Call, Message, GiveUp, Taken, worker
<1>1. CASE JobRefused(j)
  BY <1>1 DEF JobRefused
<1>2. CASE JobStart(j) \/ JobPrepare(j) \/ JobAnswered(j) \/ JobUnanswered(j) \/ JobPinState(j)
           \/ JobPinPost(j) \/ JobPinAnswered(j) \/ JobPinTimeout(j) \/ JobPinQuit(j) \/ JobBegin(j)
  BY <1>2 DEF JobStart, JobPrepare, JobAnswered, JobUnanswered, JobPinState, JobPinPost,
    JobPinAnswered, JobPinTimeout, JobPinQuit, JobBegin
<1>3. CASE JobNext(j)
  BY <1>3 DEF JobNext
<1>4. CASE JobSent(j) \/ JobUnsent(j)
  BY <1>4 DEF JobSent, JobUnsent
<1>5. CASE JobCancelUpload(j) \/ JobCanceled(j) \/ JobGaveUp(j) \/ JobDone(j)
  BY <1>5 DEF JobCancelUpload, JobCanceled, JobGaveUp, JobDone
<1> QED
  BY <1>1, <1>2, <1>3, <1>4, <1>5 DEF Job

\* A job that nothing is done to, and whose session is left as it is.
LEMMA SlotStays ==
  ASSUME SlotInv, NEW k \in Jobs,
         UNCHANGED <<pc[k], resp[k], cur[k], asks[k], left[k], granted[Own(k)]>>,
         cut \subseteq cut', \A m \in net' : m.job = k => m \in net,
         \/ UNCHANGED <<slot, missing, muddled>>
         \/ muddled'
         \/ \A n \in Asks : slot' # <<k, n>>
  PROVE  SlotOK(k)'
<1>1. SlotOK(k)
  BY DEF SlotInv
<1>2. Outstanding(k)' = Outstanding(k)
  BY DEF Outstanding, Message
<1>3. OneCall(k) => OneCall(k)'
  BY <1>2 DEF OneCall
<1>4. OneSession(k) => OneSession(k)'
  BY DEF OneSession, AtWork, Own
<1> QED
  BY <1>1, <1>3, <1>4 DEF SlotOK

\* A call that a worker makes when none of its own is on its way.
LEMMA CallIsOne ==
  ASSUME TypeOK, NEW j \in Jobs, OneCall(j), pc[j] \notin Waiting,
         NEW m, Call(m), m.job = j, pc'[j] \in Waiting, m = Outstanding(j)'
  PROVE  OneCall(j)' /\ resp'[j] = "none"
<1>1. \A n \in net : n.job # j
  BY DEF OneCall
<1>2. net' = net \cup {m} /\ resp'[j] = "none"
  BY DEF Call, TypeOK
<1>3. \A n \in net' : n.job = j => n = Outstanding(j)'
  BY <1>1, <1>2
<1> QED
  BY <1>2, <1>3 DEF OneCall

\* A worker that does not wait and makes no call.
LEMMA NoCall ==
  ASSUME TypeOK, NEW j \in Jobs, OneCall(j), net' = net,
         pc[j] \notin Waiting \/ resp[j] # "none"
  PROVE  OneCall(j)'
<1>1. \A n \in net : n.job # j
  BY DEF OneCall
<1> QED
  BY <1>1 DEF OneCall

\* A job that is at none of this has no session, and gets none by waiting.
LEMMA NoSession ==
  ASSUME NEW j \in Jobs, OneSession(j), ~AtWork(j), slot' = slot, muddled' = muddled
  PROVE  OneSession(j)'
  BY DEF OneSession

LEMMA SlotWorker ==
  ASSUME TypeOK, SlotInv, NEW j \in Jobs, Job(j)
  PROVE  SlotOK(j)'
<1> SUFFICES ASSUME j \notin cut'
             PROVE  OneCall(j)' /\ OneSession(j)'
  BY DEF SlotOK
<1>1. j \notin cut /\ slot' = slot /\ missing' = missing /\ muddled' = muddled /\ granted' = granted
  BY FrameNet DEF remote
<1>2. OneCall(j) /\ OneSession(j)
  BY <1>1 DEF SlotInv, SlotOK
<1>3. ~GiveUp(j)
  BY DEF GiveUp
<1>4. /\ pc \in [Jobs -> Steps] /\ resp \in [Jobs -> Answers \cup {"none"}] /\ cur \in [Jobs -> Files \cup {None}]
      /\ asks \in [Jobs -> Asks] /\ left \in [Jobs -> SUBSET Files]
  BY DEF TypeOK
<1> USE DEF Goto, Taken, worker, table, ui
<1>5. CASE JobStart(j) \/ JobPinState(j) \/ JobPinPost(j) \/ JobPinAnswered(j) \/ JobPinTimeout(j)
           \/ JobPinQuit(j) \/ JobGaveUp(j) \/ JobDone(j) \/ JobRefused(j)
  <2>1. pc[j] \notin Waiting /\ ~AtWork(j) /\ net' = net
    BY <1>5 DEF JobRefused, JobStart, JobPinState, JobPinPost, JobPinAnswered, JobPinTimeout,
       JobPinQuit, JobGaveUp, JobDone, End, Waiting, AtWork
  <2> QED
    BY <1>1, <1>2, <2>1, NoCall, NoSession
<1>6. CASE JobPrepare(j)
  <2>1. /\ pc[j] = "prepare" /\ pc'[j] = "asking" /\ asks'[j] = asks[j]
        /\ Call(Message("prepare", j, None))
    BY <1>4, <1>6 DEF JobPrepare
  <2>2. Message("prepare", j, None) = Outstanding(j)' /\ Message("prepare", j, None).job = j
    BY <2>1 DEF Outstanding, Message
  <2>3. OneCall(j)'
    BY <1>2, <2>1, <2>2, CallIsOne DEF Waiting
  <2>4. ~AtWork(j)
    BY <2>1 DEF AtWork
  <2> QED
    BY <1>1, <1>2, <2>3, <2>4, NoSession
<1>7. CASE JobAnswered(j)
  <2>1. pc[j] = "asking" /\ resp[j] # "none" /\ net' = net /\ asks' = asks
    BY <1>7 DEF JobAnswered
  <2>2. OneCall(j)'
    BY <1>2, <2>1, NoCall
  <2>3. CASE resp[j] = "200"
    <3>1. pc'[j] = "begin" /\ left'[j] = granted[Own(j)]
      BY <1>4, <1>7, <2>3 DEF JobAnswered, Own
    <3>2. OneSession(j)'
      BY <1>1, <1>2, <2>1, <2>3, <3>1 DEF OneSession, AtWork
    <3> QED
      BY <2>2, <3>2
  <2>4. CASE resp[j] # "200"
    BY <1>1, <1>2, <2>1, <2>2, <2>4, NoSession DEF AtWork
  <2> QED
    BY <2>3, <2>4
<1>8. CASE JobUnanswered(j) \/ JobUnsent(j)
  BY <1>3, <1>8 DEF JobUnanswered, JobUnsent
<1>9. CASE JobBegin(j)
  <2>1. /\ pc[j] = "begin" /\ pc'[j] = "check" /\ net' = net /\ asks' = asks /\ left' = left
    BY <1>4, <1>9 DEF JobBegin
  <2>2. OneCall(j)'
    BY <1>2, <2>1, NoCall DEF Waiting
  <2> QED
    BY <1>1, <1>2, <2>1, <2>2 DEF OneSession, AtWork
<1>10. CASE JobNext(j)
  <2>1. /\ pc[j] = "check" /\ asks' = asks /\ left' = left
    BY <1>10 DEF JobNext
  <2>2. CASE net' = net /\ pc'[j] = "finish" /\ left[j] = {}
    <3>1. OneCall(j)'
      BY <1>2, <2>1, <2>2, NoCall DEF Waiting
    <3>2. OneSession(j)'
      BY <1>1, <1>2, <2>1, <2>2 DEF OneSession, AtWork
    <3> QED
      BY <3>1, <3>2
  <2>3. CASE net' = net /\ pc'[j] \in {"cancel", "fail"}
    <3>1. OneCall(j)'
      BY <1>2, <2>1, <2>3, NoCall DEF Waiting
    <3>2. OneSession(j)'
      BY <1>1, <1>2, <2>1, <2>3 DEF OneSession, AtWork
    <3> QED
      BY <3>1, <3>2
  <2>4. ASSUME NEW f \in left[j], cur'[j] = f, Call(Message("upload", j, f)), pc'[j] = "sending"
        PROVE  OneCall(j)' /\ OneSession(j)'
    <3>1. Message("upload", j, f) = Outstanding(j)' /\ Message("upload", j, f).job = j
      BY <2>1, <2>4 DEF Outstanding, Message
    <3>2. OneCall(j)' /\ resp'[j] = "none"
      BY <1>2, <2>1, <2>4, <3>1, CallIsOne DEF Waiting
    <3>3. OneSession(j)'
      BY <1>1, <1>2, <2>1, <2>4, <3>2 DEF OneSession, AtWork
    <3> QED
      BY <3>2, <3>3
  <2> QED
    BY <1>4, <1>10, <2>2, <2>3, <2>4 DEF JobNext
<1>11. CASE JobSent(j)
  <2>1. pc[j] = "sending" /\ resp[j] # "none" /\ net' = net /\ asks' = asks
    BY <1>11 DEF JobSent
  <2>2. OneCall(j)'
    BY <1>2, <2>1, NoCall
  <2>3. CASE resp[j] \in {"200", "204"}
    <3>1. pc'[j] = "check" /\ left'[j] = left[j] \ {cur[j]}
      BY <1>4, <1>11, <2>3 DEF JobSent
    <3>2. OneSession(j)'
      BY <1>1, <1>2, <2>1, <2>3, <3>1 DEF OneSession, AtWork
    <3> QED
      BY <2>2, <3>2
  <2>4. CASE resp[j] \notin {"200", "204"}
    <3>1. pc'[j] \in {"cancel", "fail"}
      BY <1>4, <1>11, <2>4 DEF JobSent, Explained
    <3>2. OneSession(j)'
      BY <1>1, <1>2, <2>1, <3>1 DEF OneSession, AtWork
    <3> QED
      BY <2>2, <3>2
  <2> QED
    BY <2>3, <2>4
<1>12. CASE JobCancelUpload(j)
  <2>1. /\ pc[j] \in {"cancel", "fail"} /\ pc'[j] \in {"canceling", "failing"} /\ asks'[j] = asks[j]
        /\ Call(Message("cancel", j, None))
    BY <1>4, <1>12 DEF JobCancelUpload
  <2>2. Message("cancel", j, None) = Outstanding(j)' /\ Message("cancel", j, None).job = j
    BY <2>1 DEF Outstanding, Message
  <2>3. OneCall(j)' /\ resp'[j] = "none"
    BY <1>2, <2>1, <2>2, CallIsOne DEF Waiting
  <2>4. OneSession(j)'
    BY <1>1, <1>2, <2>1, <2>3 DEF OneSession, AtWork
  <2> QED
    BY <2>3, <2>4
<1>13. CASE JobCanceled(j)
  <2>1. pc[j] \in {"canceling", "failing"} /\ resp[j] # "none" /\ net' = net
    BY <1>3, <1>13 DEF JobCanceled
  <2>2. ~AtWork(j)
    BY <2>1 DEF AtWork
  <2> QED
    BY <1>1, <1>2, <2>1, <2>2, NoCall, NoSession
<1> QED
  BY <1>5, <1>6, <1>7, <1>8, <1>9, <1>10, <1>11, <1>12, <1>13 DEF Job

\* No session is somebody's.
LEMMA NoneIsNoSession ==
  \A k \in Jobs, n \in Asks : None # <<k, n>>
  BY NoneAssumption, AsksAssumption DEF Asks

\* What the receiver does to the slot for a request: nothing, or it opens or
\* closes the request's session, or it closes a session, or it loses count.
LEMMA SlotMoves ==
  ASSUME TypeOK, NEW m \in net, Peer(m)
  PROVE  \/ UNCHANGED <<slot, missing, muddled>>
         \/ muddled'
         \/ slot' \in {None, Session(m)}
<1>1. CASE PeerGrants(m)
  BY <1>1 DEF PeerGrants, Server!Grant, Server!open
<1>2. CASE PeerRefuses(m) \/ PeerFails(m)
  BY <1>2 DEF PeerRefuses, PeerFails, remote
<1>3. CASE PeerStores(m)
  BY <1>3 DEF PeerStores, Server!Store
<1>4. CASE PeerFinishes(m)
  BY <1>4 DEF PeerFinishes, Server!Finish, Server!Closed, Server!open
<1>5. CASE PeerCancels(m)
  BY <1>5 DEF PeerCancels, Server!Release, Server!Closed, remote
<1> QED
  BY <1>1, <1>2, <1>3, <1>4, <1>5 DEF Peer

\* The receiver's part: it opens and closes sessions, and answers.
LEMMA SlotPeer ==
  ASSUME TypeOK, SlotInv, NEW m \in net, Peer(m)
  PROVE  SlotInv'
<1> DEFINE j == m.job
<1> USE DEF table, worker, remote
<1>1. m \in Messages /\ j \in Jobs /\ m.try \in Asks /\ Session(m) \in Sessions
  BY DEF TypeOK, Messages, Session, Sessions
<1>2. UNCHANGED <<pc, cur, asks, left, cut>>
  BY DEF Peer, PeerGrants, PeerRefuses, PeerStores, PeerFinishes, PeerFails, PeerCancels
<1>3. net' \subseteq net /\ \A k \in Jobs \ {j} : resp'[k] = resp[k]
  BY <1>1 DEF Peer, PeerGrants, PeerRefuses, PeerStores, PeerFinishes, PeerFails, PeerCancels, Answer, TypeOK
<1>4. \A k \in Jobs \ {j} : granted'[Own(k)] = granted[Own(k)]
  BY <1>1 DEF Peer, PeerGrants, PeerRefuses, PeerStores, PeerFinishes, PeerFails, PeerCancels, TypeOK,
    Server!Grant, Server!Store, Server!Finish, Server!Release, Session, Own, Sessions
<1>5. ASSUME NEW k \in Jobs \ {j}
      PROVE  SlotOK(k)'
  <2>1. \/ UNCHANGED <<slot, missing, muddled>> \/ muddled'
        \/ \A n \in Asks : slot' # <<k, n>>
    BY SlotMoves, NoneIsNoSession DEF Session
  <2>2. Own(k)' = Own(k)
    BY <1>2 DEF Own
  <2> QED
    BY <1>2, <1>3, <1>4, <2>1, <2>2, SlotStays
<1>6. ASSUME j \notin cut
      PROVE  OneCall(j)' /\ OneSession(j)'
  <2>1. OneCall(j) /\ OneSession(j)
    BY <1>1, <1>6 DEF SlotInv, SlotOK
  <2>2. pc[j] \in Waiting /\ m = Outstanding(j) /\ resp[j] = "none"
    BY <2>1 DEF OneCall
  <2>3. Session(m) = Own(j)
    BY <1>1, <2>2, OutstandingIs DEF Session, Own
  <2>4. Own(j)' = Own(j) /\ Own(j) \in Sessions
    BY <1>1, <1>2, <2>3 DEF Own
  <2>5. ASSUME NEW code \in Answers, Answer(m, code)
        PROVE  OneCall(j)' /\ resp'[j] = code
    <3>1. resp'[j] = code /\ net' = net \ {m}
      BY <1>1, <2>2, <2>5 DEF Answer, TypeOK
    <3> QED
      BY <2>1, <2>2, <3>1 DEF OneCall
  <2>6. \A n \in Asks : <<j, n>> = Own(j) => n = asks[j]
    BY DEF Own
  <2>7. CASE PeerGrants(m)
    <3>1. pc[j] = "asking"
      BY <1>1, <2>2, <2>7, OutstandingIs DEF PeerGrants, Waiting, Message
    <3>2. OneCall(j)' /\ resp'[j] = "200"
      BY <2>5, <2>7 DEF PeerGrants, Answers
    <3>3. PICK files \in SUBSET Files : Server!Grant(Own(j), files)
      BY <2>3, <2>7 DEF PeerGrants
    <3>4. granted'[Own(j)] = files /\ files # {}
      BY <2>4, <3>3 DEF Server!Grant, TypeOK
    <3>5. CASE UNCHANGED <<slot, missing, muddled>>
      <4>1. ~AtWork(j)
        BY <2>2, <3>1 DEF AtWork
      <4> QED
        BY <1>1, <2>1, <3>2, <3>5, <4>1, NoSession
    <3>6. CASE slot' = Own(j) /\ missing' \subseteq files
      BY <1>2, <2>4, <2>6, <3>1, <3>2, <3>4, <3>6 DEF OneSession, AtWork, Own
    <3> QED
      BY <3>2, <3>3, <3>5, <3>6 DEF Server!Grant, Server!open
  <2>8. CASE PeerRefuses(m)
    <3>1. pc[j] = "asking"
      BY <1>1, <2>2, <2>8, OutstandingIs DEF PeerRefuses, Waiting, Message
    <3>2. ~AtWork(j) /\ slot' = slot /\ muddled' = muddled
      BY <2>2, <2>8, <3>1 DEF PeerRefuses, AtWork
    <3>3. OneCall(j)'
      BY <2>5, <2>8 DEF PeerRefuses
    <3> QED
      BY <1>1, <2>1, <3>2, <3>3, NoSession
  <2>9. CASE PeerStores(m)
    <3>1. net' = net /\ resp' = resp /\ slot' = slot /\ (muddled' \/ UNCHANGED <<missing, muddled>>)
          /\ granted' = granted
      BY <2>9 DEF PeerStores, Server!Store
    <3>2. OneCall(j)'
      BY <1>2, <2>1, <3>1 DEF OneCall, Outstanding, Message
    <3> QED
      BY <1>2, <2>1, <2>4, <3>1, <3>2 DEF OneSession, AtWork
  <2>10. CASE PeerFinishes(m)
    <3>1. pc[j] = "sending" /\ m.file = cur[j]
      BY <1>1, <2>2, <2>10, OutstandingIs DEF PeerFinishes, Waiting, Message
    <3>2. OneCall(j)' /\ resp'[j] = "200"
      BY <2>5, <2>10 DEF PeerFinishes, Answers
    <3>3. Server!Finish(Own(j), cur[j])
      BY <2>3, <2>10, <3>1 DEF PeerFinishes
    <3>4. CASE slot = Own(j) /\ ~muddled
      <4>1. missing' = missing \ {cur[j]} /\ slot' = IF missing' = {} THEN None ELSE slot
        BY <3>3, <3>4 DEF Server!Finish
      <4>2. missing \subseteq left[j]
        BY <1>1, <2>1, <3>1, <3>4 DEF OneSession, AtWork, Own, TypeOK
      <4> QED
        BY <1>1, <1>2, <2>6, <3>1, <3>2, <3>4, <4>1, <4>2, NoneIsNoSession DEF OneSession, AtWork
    <3>5. CASE ~(slot = Own(j) /\ ~muddled)
      <4>1. UNCHANGED <<slot, missing, muddled>> \/ slot' = None
        BY <3>3, <3>5 DEF Server!Finish, Server!Closed, Server!open
      <4>2. \A n \in Asks : slot' = <<j, n>> => muddled'
        BY <1>1, <2>1, <3>5, <4>1, NoneIsNoSession DEF OneSession, Own
      <4> QED
        BY <3>2, <4>2 DEF OneSession
    <3> QED
      BY <3>4, <3>5
  <2>11. CASE PeerFails(m)
    <3>1. pc[j] = "sending"
      BY <1>1, <2>2, <2>11, OutstandingIs DEF PeerFails, Waiting, Message
    <3>2. OneCall(j)' /\ resp'[j] = "error" /\ UNCHANGED <<slot, missing, muddled>>
      BY <2>5, <2>11 DEF PeerFails, Answers
    <3> QED
      BY <1>2, <2>1, <3>1, <3>2 DEF OneSession, AtWork
  <2>12. CASE PeerCancels(m)
    <3>1. OneCall(j)'
      BY <2>5, <2>12 DEF PeerCancels, Answers
    <3>2. \A n \in Asks : slot' = <<j, n>> => muddled'
      <4>1. CASE slot = Own(j)
        BY <1>1, <2>3, <2>12, <4>1, NoneIsNoSession DEF PeerCancels, Server!Release, Server!Closed
      <4>2. CASE slot # Own(j)
        BY <2>1, <2>3, <2>12, <4>2 DEF PeerCancels, OneSession, Own
      <4> QED
        BY <4>1, <4>2
    <3> QED
      BY <3>1, <3>2 DEF OneSession
  <2> QED
    BY <2>7, <2>8, <2>9, <2>10, <2>11, <2>12 DEF Peer
<1> QED
  BY <1>2, <1>5, <1>6 DEF SlotInv, SlotOK

LEMMA SlotStep == ASSUME TypeOK, SlotInv, [Next]_vars PROVE SlotInv'
<1> USE DEF table, ui, worker, remote
<1>1. ASSUME NEW j \in Jobs, Job(j)
      PROVE  SlotInv'
  <2>1. ASSUME NEW k \in Jobs \ {j}
        PROVE  SlotOK(k)'
    <3>1. Own(k)' = Own(k)
      BY <1>1, <2>1, Frame DEF Own
    <3> QED
      BY <1>1, <2>1, <3>1, Frame, FrameNet, SlotStays
  <2> QED
    BY <1>1, <2>1, SlotWorker DEF SlotInv
<1>2. ASSUME NEW j \in Jobs, UiCreateThread(j)
      PROVE  SlotInv'
  <2>1. \A k \in Jobs \ {j} : pc'[k] = pc[k]
    BY <1>2 DEF UiCreateThread, Goto, TypeOK
  <2>2. ASSUME NEW k \in Jobs \ {j}
        PROVE  SlotOK(k)'
    BY <1>2, <2>1, SlotStays DEF UiCreateThread, Own
  <2>3. ASSUME j \notin cut
        PROVE  OneCall(j)' /\ OneSession(j)'
    <3>1. /\ OneCall(j) /\ OneSession(j) /\ pc[j] = "none" /\ net' = net
          /\ slot' = slot /\ muddled' = muddled
      BY <1>2, <2>3 DEF UiCreateThread, SlotInv, SlotOK
    <3>2. pc[j] \notin Waiting /\ ~AtWork(j)
      BY <3>1 DEF Waiting, AtWork
    <3> QED
      BY <3>1, <3>2, NoCall, NoSession
  <2> QED
    BY <1>2, <2>2, <2>3 DEF UiCreateThread, SlotInv, SlotOK
<1>3. ASSUME NEW j \in Jobs, UiSend(j) \/ UiSetThread(j) \/ UiCancel(j)
      PROVE  SlotInv'
  BY <1>3, SlotStays DEF UiSend, UiSetThread, UiCancel, SlotInv, Own
<1>4. CASE UiClear \/ UiDrain \/ UiAnswer \/ UNCHANGED vars
  BY <1>4, SlotStays DEF UiClear, UiDrain, UiAnswer, vars, SlotInv, Own
<1>5. CASE PeerReleases
  <2>1. \A k \in Jobs, n \in Asks : slot' # <<k, n>>
    BY <1>5, NoneIsNoSession DEF PeerReleases, Server!Release, Server!Closed
  <2> QED
    BY <1>5, <2>1, SlotStays DEF PeerReleases, Server!Release, SlotInv, Own
<1>6. ASSUME NEW j \in Jobs, PeerStopsReading(j)
      PROVE  SlotInv'
  <2>1. j \in cut' /\ \A k \in Jobs \ {j} : pc'[k] = pc[k]
    BY <1>6 DEF PeerStopsReading, Goto
  <2>2. ASSUME NEW k \in Jobs \ {j}
        PROVE  SlotOK(k)'
    BY <1>6, <2>1, SlotStays DEF PeerStopsReading, Own
  <2> QED
    BY <2>1, <2>2 DEF SlotInv, SlotOK
<1> QED
  BY <1>1, <1>2, <1>3, <1>4, <1>5, <1>6, SlotPeer DEF Next, Ui

\* Unless a request or an answer was lost, or the receiver has lost count, a job
\* that has ended leaves the receiver without a session of it: every failure and every cancel is told to
\* the receiver, and answered, before the worker ends (RunSendJob, CancelUpload).
THEOREM FreedTheorem == Spec => []PeerFreed
<1>1. Init => SlotInv
  BY NoneIsNoSession DEF Init, Server!Init, SlotInv, SlotOK, OneCall, OneSession
<1>2. TypeOK /\ SlotInv /\ [Next]_vars => SlotInv'
  BY SlotStep
<1>3. SlotInv => PeerFreed
  BY DEF SlotInv, SlotOK, OneSession, AtWork, PeerFreed
<1> QED
  BY <1>1, <1>2, <1>3, TypeTheorem, PTL DEF Spec
=============================================================================
