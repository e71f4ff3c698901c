------------------------------ MODULE Sending ------------------------------
(***************************************************************************)
(* The sending side of LocalSendXP: App::SendFiles and the worker thread   *)
(* App::RunSendJob of each outgoing transfer (src/core/app.cpp), with the  *)
(* client calls of src/protocol/upload.cpp, the PIN prompt shown by the    *)
(* UI thread, the transfer table, and one receiver, which does what module *)
(* Receiver allows, behind a network that loses and delays requests and    *)
(* answers.                                                                *)
(*                                                                         *)
(* A call is a message in net; the receiver handles it when it likes, also *)
(* after the sender has given up waiting.  A step is one table access, one *)
(* call or its outcome.  File order is left open: the loop takes the files *)
(* in some order.                                                          *)
(***************************************************************************)
EXTENDS Naturals, Sequences, FiniteSets

CONSTANTS
  Jobs,     \* outgoing transfers, one worker thread each
  Files,    \* files of a transfer
  MaxAsks,  \* bound on the PIN prompts of one transfer
  MaxLate,  \* bound on the requests under way that nobody waits for
  None      \* no job, no file

ASSUME FilesAssumption == IsFiniteSet(Files) /\ Files # {}
ASSUME AsksAssumption  == MaxAsks \in Nat
ASSUME LateAssumption  == MaxLate \in Nat
ASSUME NoneAssumption  == None \notin Jobs \cup Files \cup (Jobs \X Nat)

\* An error is any other status; which one decides only what the user reads.
Answers == {"200", "204", "401", "error"}
Asks    == 0..MaxAsks
Prompts == Jobs \X (1..MaxAsks)
Kinds   == {"prepare", "upload", "cancel"}

\* try tells the prepare-uploads of one job, and their sessions, apart.
Messages == [kind: Kinds, job: Jobs, file: Files \cup {None}, try: Asks]

VARIABLES
  \* TransferManager and the UI thread
  xfer,       \* Transfer::state ("none" before Add, "removed" after)
  thread,     \* Transfer::thread is set
  cancelReq,  \* transfers with cancelRequested set
  creating,   \* the UI thread is inside SendFiles for this transfer
  queue,      \* PIN events not drained yet
  stack,      \* batches of PIN events in nested calls of HandleUiEvents; the
              \* first prompt of a batch is on the screen
  \* the worker threads
  pc,         \* the next step
  status,     \* httpStatus
  accepted,   \* the files that got a token
  left,       \* accepted files not sent yet
  cur,        \* the file being uploaded
  asks,       \* PIN prompts so far; the prompt <<j, asks[j]>> is the live one
  reply,      \* what its event brought
  resp,       \* the answer to the outstanding call ("none": not yet)
  \* the network and the receiver
  net,        \* requests the receiver has not handled yet
  slot,       \* the session the receiver has: <<job, try>>
  granted,    \* the files it accepted, per session
  missing,    \* the files that keep the session open
  muddled,    \* its count of them is not what it has received
  stored,     \* the files it has received completely, per session
  cut         \* history variable: jobs with a request or an answer lost

table  == <<xfer, thread, cancelReq, creating>>
ui     == <<queue, stack>>
worker == <<status, accepted, left, cur, asks, reply>>
remote == <<slot, granted, missing, muddled, stored>>
vars == <<xfer, thread, cancelReq, creating, queue, stack, pc, status, accepted, left, cur,
          asks, reply, resp, net, slot, granted, missing, muddled, stored, cut>>

\* The sessions of a job: one for each prepare-upload.
Sessions == Jobs \X Asks

Server == INSTANCE Receiver

\* "failed" is TS_FAILED, TS_DENIED or TS_BLOCKED.
Final == {"done", "failed", "canceled"}
States == Final \cup {"none", "waiting", "transferring", "pin_required", "removed"}
Steps == {"none", "start", "prepare", "asking", "refuse", "pinState", "pinPost", "pinWait",
          "pinQuit", "begin", "check", "sending", "cancel", "canceling", "canceled",
          "fail", "failing", "failed", "finish", "blocked", "ended"}

Init ==
  /\ xfer = [j \in Jobs |-> "none"]
  /\ thread = [j \in Jobs |-> FALSE]
  /\ cancelReq = {} /\ creating = None
  /\ queue = <<>> /\ stack = <<>>
  /\ pc = [j \in Jobs |-> "none"]
  /\ status = [j \in Jobs |-> "none"]
  /\ accepted = [j \in Jobs |-> {}]
  /\ left = [j \in Jobs |-> {}]
  /\ cur = [j \in Jobs |-> None]
  /\ asks = [j \in Jobs |-> 0]
  /\ reply = [j \in Jobs |-> "none"]
  /\ resp = [j \in Jobs |-> "none"]
  /\ net = {} /\ cut = {}
  /\ Server!Init

Goto(j, step) == pc' = [pc EXCEPT ![j] = step]

\* TransferManager::SetState: a transfer that is not in the table keeps none.
SetState(j, state) ==
  xfer' = IF xfer[j] \in {"none", "removed"} THEN xfer ELSE [xfer EXCEPT ![j] = state]

\* The last access to the table of a worker thread, which then ends: nobody
\* reads its cancel request any more, and of its locals the accepted files are
\* remembered.
End(j, state) ==
  /\ SetState(j, state)
  /\ Goto(j, "ended")
  /\ status' = [status EXCEPT ![j] = "none"]
  /\ reply' = [reply EXCEPT ![j] = "none"]
  /\ left' = [left EXCEPT ![j] = {}]
  /\ cancelReq' = cancelReq \ {j}
  /\ UNCHANGED <<thread, creating, ui, accepted, cur, asks, resp, net, remote, cut>>

-----------------------------------------------------------------------------
(* The UI thread                                                            *)

\* A dialog disables the main window; SendFiles runs to its end.
UiFree == creating = None
MainWindowEnabled == UiFree /\ stack = <<>>

\* SendFiles: the transfer enters the table before it has a thread.
UiSend(j) ==
  /\ MainWindowEnabled
  /\ xfer[j] = "none"
  /\ xfer' = [xfer EXCEPT ![j] = "waiting"]
  /\ creating' = j
  /\ UNCHANGED <<thread, cancelReq, ui, pc, worker, resp, net, remote, cut>>

UiCreateThread(j) ==
  /\ creating = j
  /\ pc[j] = "none"
  /\ \/ /\ Goto(j, "start")
        /\ UNCHANGED <<xfer, creating>>
     \/ /\ SetState(j, "failed")
        /\ creating' = None
        /\ Goto(j, "ended")
  /\ UNCHANGED <<thread, cancelReq, ui, worker, resp, net, remote, cut>>

\* The worker runs already, and may have ended.
UiSetThread(j) ==
  /\ creating = j
  /\ pc[j] # "none"
  /\ thread' = [thread EXCEPT ![j] = TRUE]
  /\ creating' = None
  /\ UNCHANGED <<xfer, cancelReq, ui, pc, worker, resp, net, remote, cut>>

\* App::CancelTransfer, for an outgoing transfer in any state.
UiCancel(j) ==
  /\ MainWindowEnabled
  /\ xfer[j] \notin {"none", "removed"}
  /\ cancelReq' = IF pc[j] = "ended" THEN cancelReq ELSE cancelReq \cup {j}
  /\ SetState(j, "canceled")
  /\ UNCHANGED <<thread, creating, ui, pc, worker, resp, net, remote, cut>>

\* Mutant: a finished state is enough, whatever the thread does.
RemovableByState(j) == xfer[j] \in Final

\* TransferManager::RemoveFinished: the state is final, and the thread, if
\* there is one, has ended.
Removable(j) == xfer[j] \in Final /\ (thread[j] => pc[j] = "ended")

UiClear ==
  /\ MainWindowEnabled
  /\ \E j \in Jobs : Removable(j)
  /\ xfer' = [j \in Jobs |-> IF Removable(j) THEN "removed" ELSE xfer[j]]
  /\ thread' = [j \in Jobs |-> thread[j] /\ ~Removable(j)]
  /\ UNCHANGED <<cancelReq, creating, ui, pc, worker, resp, net, remote, cut>>

\* HandleUiEvents takes all queued events; a dialog's own message loop does
\* the same in a nested call.
UiDrain ==
  /\ UiFree
  /\ queue # <<>>
  /\ stack' = Append(stack, queue)
  /\ queue' = <<>>
  /\ UNCHANGED <<table, pc, worker, resp, net, remote, cut>>

\* The prompt whose dialog is on top: nested loops end inside out.
Shown == Head(stack[Len(stack)])
Closed == LET batch == Tail(stack[Len(stack)])
              below == SubSeq(stack, 1, Len(stack) - 1)
          IN IF batch = <<>> THEN below ELSE Append(below, batch)

\* The worker that posted p still waits for it.
Alive(p) == pc[p[1]] = "pinWait" /\ asks[p[1]] = p[2] /\ reply[p[1]] = "none"

\* PinProc ends, HandleUiEvents writes the result into the prompt and sets its
\* event; "no" is also what a PIN event gets while a receive dialog is open.
\* A prompt that its worker has deleted is written all the same: nothing
\* happens, or another prompt took its memory and gets the answer.
UiAnswer ==
  /\ UiFree
  /\ stack # <<>>
  /\ stack' = Closed
  /\ \E answer \in {"ok", "no"} :
       LET victims == {j \in Jobs : Alive(<<j, asks[j]>>)} IN
       IF Alive(Shown)
       THEN reply' = [reply EXCEPT ![Shown[1]] = answer]
       ELSE \/ UNCHANGED reply
            \/ \E j \in victims : reply' = [reply EXCEPT ![j] = answer]
  /\ UNCHANGED <<table, queue, pc, status, accepted, left, cur, asks, resp, net, remote, cut>>

-----------------------------------------------------------------------------
(* HttpClient::Execute and ExecuteStreaming                                 *)

Message(kind, j, f) == [kind |-> kind, job |-> j, file |-> f, try |-> asks[j]]

Outstanding(j) ==
  CASE pc[j] = "asking"  -> Message("prepare", j, None)
    [] pc[j] = "sending" -> Message("upload", j, cur[j])
    [] OTHER             -> Message("cancel", j, None)

Call(m) ==
  /\ net' = net \cup {m}
  /\ resp' = [resp EXCEPT ![m.job] = "none"]

\* Requests whose senders have given up.
Waiting == {"asking", "sending", "canceling", "failing"}
Late == {m \in net : pc[m.job] \notin Waiting \/ m # Outstanding(m.job)}

\* No connection, or no answer in time: the request is gone, or still on its
\* way.  An answer that arrives now is lost.
GiveUp(j) ==
  /\ \/ net' = net /\ Cardinality(Late) < MaxLate
     \/ net' = net \ {Outstanding(j)}
  /\ resp' = [resp EXCEPT ![j] = "none"]
  /\ cut' = cut \cup {j}

\* The receiver stays connected and reads no more: SendAll, on a blocking
\* socket without a send timeout, never returns.  One that reads on after a
\* while is only slow.
PeerStopsReading(j) ==
  /\ pc[j] \in Waiting /\ resp[j] = "none"
  /\ Outstanding(j) \in net
  /\ net' = net \ {Outstanding(j)}
  /\ cut' = cut \cup {j}
  /\ Goto(j, "blocked")
  /\ UNCHANGED <<table, ui, worker, resp, remote>>

-----------------------------------------------------------------------------
(* RunSendJob                                                               *)

\* Find, the copy of the file list, and the digests of the smaller files.
JobStart(j) ==
  /\ pc[j] = "start"
  /\ Goto(j, IF xfer[j] = "removed" THEN "ended" ELSE "prepare")
  /\ UNCHANGED <<table, ui, worker, resp, net, remote, cut>>

\* The answer is read.
Taken(j) == resp' = [resp EXCEPT ![j] = "none"]

JobPrepare(j) ==
  /\ pc[j] = "prepare"
  /\ Call(Message("prepare", j, None))
  /\ Goto(j, "asking")
  /\ UNCHANGED <<table, ui, worker, remote, cut>>

\* Where the loop goes with a status that is no success.
Refused(code) == IF code = "401" THEN "pinState" ELSE "refuse"

JobAnswered(j) ==
  /\ pc[j] = "asking"
  /\ resp[j] # "none"
  /\ status' = [status EXCEPT ![j] = resp[j]]
  /\ IF resp[j] = "200"
     THEN /\ accepted' = [accepted EXCEPT ![j] = granted[<<j, asks[j]>>]]
          /\ left' = [left EXCEPT ![j] = granted[<<j, asks[j]>>]]
          /\ Goto(j, "begin")
     ELSE /\ Goto(j, IF resp[j] = "204" THEN "finish" ELSE Refused(resp[j]))
          /\ UNCHANGED <<accepted, left>>
  /\ Taken(j)
  /\ UNCHANGED <<table, ui, cur, asks, reply, net, remote, cut>>

\* PrepareUpload leaves httpStatus as the last answer set it.
JobUnanswered(j) ==
  /\ pc[j] = "asking"
  /\ GiveUp(j)
  /\ Goto(j, Refused(status[j]))
  /\ UNCHANGED <<table, ui, worker, remote>>

JobRefused(j) == pc[j] = "refuse" /\ End(j, "failed")

JobPinState(j) ==
  /\ pc[j] = "pinState"
  /\ SetState(j, "pin_required")
  /\ Goto(j, "pinPost")
  /\ UNCHANGED <<thread, cancelReq, creating, ui, worker, resp, net, remote, cut>>

\* PromptForPin; it gives up at once when no event can be created, which also
\* ends the model's bound on prompts.
JobPinPost(j) ==
  /\ pc[j] = "pinPost"
  /\ \/ /\ asks[j] < MaxAsks
        /\ asks' = [asks EXCEPT ![j] = @ + 1]
        /\ reply' = [reply EXCEPT ![j] = "none"]
        /\ queue' = Append(queue, <<j, asks[j] + 1>>)
        /\ Goto(j, "pinWait")
     \/ /\ Goto(j, "pinQuit")
        /\ UNCHANGED <<asks, reply, queue>>
  /\ UNCHANGED <<table, stack, status, accepted, left, cur, resp, net, remote, cut>>

JobPinAnswered(j) ==
  /\ pc[j] = "pinWait"
  /\ reply[j] # "none"
  /\ Goto(j, IF reply[j] = "ok" THEN "prepare" ELSE "pinQuit")
  /\ UNCHANGED <<table, ui, worker, resp, net, remote, cut>>

\* Two minutes without an answer: the prompt is deleted under the dialog.
JobPinTimeout(j) ==
  /\ pc[j] = "pinWait"
  /\ reply[j] = "none"
  /\ Goto(j, "pinQuit")
  /\ UNCHANGED <<table, ui, worker, resp, net, remote, cut>>

\* Mutant: the thread returns without a word.
JobPinQuitSilent(j) == pc[j] = "pinQuit" /\ End(j, xfer[j])

JobPinQuit(j) == pc[j] = "pinQuit" /\ End(j, "canceled")

JobBegin(j) ==
  /\ pc[j] = "begin"
  /\ SetState(j, "transferring")
  /\ Goto(j, "check")
  /\ UNCHANGED <<thread, cancelReq, creating, ui, worker, resp, net, remote, cut>>

\* JobProgress::IsCancelRequested
CancelRequested(j) == j \in cancelReq \/ xfer[j] = "removed"

\* The head of the loop: the end, a cancel, a file that does not open, or the
\* next upload.
JobNext(j) ==
  /\ pc[j] = "check"
  /\ \/ /\ left[j] = {}
        /\ Goto(j, "finish")
        /\ UNCHANGED <<cur, resp, net>>
     \/ /\ left[j] # {} /\ CancelRequested(j)
        /\ Goto(j, "cancel")
        /\ UNCHANGED <<cur, resp, net>>
     \/ /\ left[j] # {} /\ ~CancelRequested(j)
        /\ Goto(j, "fail")
        /\ UNCHANGED <<cur, resp, net>>
     \/ /\ ~CancelRequested(j)
        /\ \E f \in left[j] : /\ cur' = [cur EXCEPT ![j] = f]
                              /\ Call(Message("upload", j, f))
        /\ Goto(j, "sending")
  /\ UNCHANGED <<table, ui, status, accepted, left, asks, reply, remote, cut>>

\* After an upload that failed, a cancel explains the failure.
Explained(j) == IF CancelRequested(j) THEN "cancel" ELSE "fail"

\* Mutant: the loop goes on with the next file.
JobSentAnyhow(j) ==
  /\ pc[j] = "sending"
  /\ resp[j] # "none"
  /\ left' = [left EXCEPT ![j] = @ \ {cur[j]}]
  /\ Goto(j, "check")
  /\ Taken(j)
  /\ cur' = [cur EXCEPT ![j] = None]
  /\ UNCHANGED <<table, ui, status, accepted, asks, reply, net, remote, cut>>

JobSent(j) ==
  /\ pc[j] = "sending"
  /\ resp[j] # "none"
  /\ IF resp[j] \in {"200", "204"}
     THEN left' = [left EXCEPT ![j] = @ \ {cur[j]}] /\ Goto(j, "check")
     ELSE UNCHANGED left /\ Goto(j, Explained(j))
  /\ Taken(j)
  /\ cur' = [cur EXCEPT ![j] = None]
  /\ UNCHANGED <<table, ui, status, accepted, asks, reply, net, remote, cut>>

\* The connection breaks or times out; or the progress callback finds the
\* transfer canceled and the rest of the body is not sent.
JobUnsent(j) ==
  /\ pc[j] = "sending"
  /\ GiveUp(j)
  /\ Goto(j, Explained(j))
  /\ cur' = [cur EXCEPT ![j] = None]
  /\ UNCHANGED <<table, ui, status, accepted, left, asks, reply, remote>>

\* Mutant: a failure is not reported to the receiver.
JobCancelUploadOnly(j) ==
  /\ pc[j] \in {"cancel", "fail"}
  /\ IF pc[j] = "cancel" THEN Call(Message("cancel", j, None)) ELSE UNCHANGED <<net, resp>>
  /\ Goto(j, IF pc[j] = "cancel" THEN "canceling" ELSE "failed")
  /\ UNCHANGED <<table, ui, worker, remote, cut>>

\* CancelUpload, after a cancel and after a failure.
JobCancelUpload(j) ==
  /\ pc[j] \in {"cancel", "fail"}
  /\ Call(Message("cancel", j, None))
  /\ Goto(j, IF pc[j] = "cancel" THEN "canceling" ELSE "failing")
  /\ UNCHANGED <<table, ui, worker, remote, cut>>

\* Whatever becomes of it.
JobCanceled(j) ==
  /\ pc[j] \in {"canceling", "failing"}
  /\ \/ resp[j] # "none" /\ Taken(j) /\ UNCHANGED <<net, cut>>
     \/ GiveUp(j)
  /\ Goto(j, IF pc[j] = "canceling" THEN "canceled" ELSE "failed")
  /\ UNCHANGED <<table, ui, worker, remote>>

JobGaveUp(j) == pc[j] \in {"canceled", "failed"} /\ End(j, pc[j])

JobDone(j) == pc[j] = "finish" /\ End(j, "done")

-----------------------------------------------------------------------------
(* The receiver (ServerHandler): the steps of Receiver, and its answers     *)

\* The answer reaches the sender if it still waits for this very request.
Answer(m, code) ==
  /\ net' = net \ {m}
  /\ resp' = IF /\ pc[m.job] \in Waiting
                /\ m = Outstanding(m.job)
             THEN [resp EXCEPT ![m.job] = code]
             ELSE resp

Session(m) == <<m.job, m.try>>

PeerGrants(m) ==
  /\ m.kind = "prepare"
  /\ \E files \in SUBSET Files : Server!Grant(Session(m), files)
  /\ Answer(m, "200")
  /\ UNCHANGED <<table, ui, pc, worker, cut>>

\* A PIN wanted, busy with any sender's session, nothing to send, refused by
\* the user, or an error.
PeerRefuses(m) ==
  /\ m.kind = "prepare"
  /\ \E code \in Answers \ {"200"} : Answer(m, code)
  /\ UNCHANGED <<table, ui, pc, worker, remote, cut>>

PeerStores(m) ==
  /\ m.kind = "upload"
  /\ m.file \notin stored[Session(m)]
  /\ Server!Store(Session(m), m.file)
  /\ UNCHANGED <<table, ui, pc, worker, resp, net, cut>>

PeerFinishes(m) ==
  /\ m.kind = "upload"
  /\ Server!Finish(Session(m), m.file)
  /\ Answer(m, "200")
  /\ UNCHANGED <<table, ui, pc, worker, cut>>

\* No session, a bad token, a digest that differs, a full disk.
PeerFails(m) ==
  /\ m.kind = "upload"
  /\ m.file \notin stored[Session(m)]
  /\ Answer(m, "error")
  /\ UNCHANGED <<table, ui, pc, worker, remote, cut>>

PeerCancels(m) ==
  /\ m.kind = "cancel"
  /\ IF slot = Session(m) THEN Server!Release ELSE UNCHANGED remote
  /\ Answer(m, "200")
  /\ UNCHANGED <<table, ui, pc, worker, cut>>

\* A session may be replaced while it is still used: five minutes without a
\* new upload, which one long upload takes, or another sender's request that
\* was let in before.
PeerReleases ==
  /\ Server!Release
  /\ UNCHANGED <<table, ui, pc, worker, resp, net, cut>>

-----------------------------------------------------------------------------
Peer(m) ==
  \/ PeerGrants(m) \/ PeerRefuses(m)
  \/ PeerStores(m) \/ PeerFinishes(m) \/ PeerFails(m)
  \/ PeerCancels(m)

Job(j) ==
  \/ JobStart(j) \/ JobPrepare(j) \/ JobAnswered(j) \/ JobUnanswered(j) \/ JobRefused(j)
  \/ JobPinState(j) \/ JobPinPost(j) \/ JobPinAnswered(j) \/ JobPinTimeout(j) \/ JobPinQuit(j)
  \/ JobBegin(j) \/ JobNext(j) \/ JobSent(j) \/ JobUnsent(j)
  \/ JobCancelUpload(j) \/ JobCanceled(j) \/ JobGaveUp(j) \/ JobDone(j)

Ui == UiDrain \/ \E j \in Jobs : UiCreateThread(j) \/ UiSetThread(j)

Next ==
  \/ \E j \in Jobs : Job(j)
  \/ \E j \in Jobs : UiSend(j) \/ UiCancel(j) \/ PeerStopsReading(j)
  \/ Ui \/ UiClear \/ UiAnswer
  \/ \E m \in net : Peer(m)
  \/ PeerReleases

Spec == Init /\ [][Next]_vars

\* While a worker or the UI thread can go on, one of them does: less than what
\* scheduling every thread gives.  A worker's waits have a timeout, for which
\* JobUnanswered, JobUnsent, JobCanceled and JobPinTimeout stand; but SendAll
\* has none, and a job that is "blocked" has no step.  Neither the receiver nor
\* the user has to do anything.
Fairness == WF_vars(Ui \/ \E j \in Jobs : Job(j))

FairSpec == Spec /\ Fairness

-----------------------------------------------------------------------------
(* Properties                                                               *)

\* Every variable has its type; no call of HandleUiEvents is left without work.
TypeOK ==
  /\ xfer \in [Jobs -> States]
  /\ thread \in [Jobs -> BOOLEAN]
  /\ cancelReq \in SUBSET Jobs
  /\ creating \in Jobs \cup {None}
  /\ queue \in Seq(Prompts)
  /\ stack \in Seq(Seq(Prompts) \ {<<>>})
  /\ pc \in [Jobs -> Steps]
  /\ status \in [Jobs -> Answers \cup {"none"}]
  /\ accepted \in [Jobs -> SUBSET Files]
  /\ left \in [Jobs -> SUBSET Files]
  /\ cur \in [Jobs -> Files \cup {None}]
  /\ asks \in [Jobs -> Asks]
  /\ reply \in [Jobs -> {"none", "ok", "no"}]
  /\ resp \in [Jobs -> Answers \cup {"none"}]
  /\ net \in SUBSET Messages
  /\ slot \in Sessions \cup {None}
  /\ granted \in [Sessions -> SUBSET Files]
  /\ missing \in SUBSET Files
  /\ muddled \in BOOLEAN
  /\ stored \in [Sessions -> SUBSET Files]
  /\ cut \in SUBSET Jobs

\* What the user is shown of a transfer.
Outcome(j) ==
  IF xfer[j] = "done" THEN "done"
  ELSE IF xfer[j] \in {"none", "waiting", "pin_required", "transferring"} THEN "open" ELSE "off"

\* The files of a transfer that have arrived, in whichever session.
Arrived(j) == UNION {stored[<<j, n>>] : n \in Asks}

Promise == INSTANCE Delivery WITH
  want <- accepted,
  have <- [j \in Jobs |-> Arrived(j)],
  outcome <- [j \in Jobs |-> Outcome(j)]

\* A transfer shown as DONE was received: every file that the receiver
\* accepted has arrived completely, in the session that accepted it, whatever
\* was canceled, replaced, lost or late.
SentMeansReceived ==
  \A j \in Jobs : xfer[j] = "done" => accepted[j] \subseteq stored[<<j, asks[j]>>]

\* The workers, the UI thread, the network and the receiver together do what
\* Delivery promises: files arrive only after the receiver has agreed to them,
\* DONE is reported only when all of them have, and it stays until the user
\* cancels or clears (RunSendJob, CancelTransfer, HandleUpload).
Delivered == Promise!Spec

\* A worker never follows a pointer to a freed transfer: while it runs, the
\* transfer is in the table (RunSendJob and IsCancelRequested use the pointer
\* that Find returns after its lock is released; RemoveFinished frees).
TransferAlive ==
  \A j \in Jobs : pc[j] \notin {"none", "ended"} => xfer[j] \notin {"none", "removed"}

\* A sender that ends does not leave the receiver busy: the receiver has no
\* session of a job that has ended, unless a request or an answer was lost, or
\* the receiver's count is muddled (HandleUpload leaves a session open when the
\* lengths do not add up; CancelUpload is not called after a success).
PeerFreed ==
  \A j \in Jobs : pc[j] = "ended" /\ j \notin cut /\ ~muddled =>
    \A n \in Asks : slot # <<j, n>>

\* Every job ends for good, whatever the network loses and the user leaves
\* unanswered, and leaves its transfer in a final state, which the user and the
\* worker both write (RunSendJob, CancelTransfer); but for a job whose receiver
\* stays connected and stops reading (TcpSocket::SendAll), which holds up no
\* other.
JobsEnd ==
  <>[](\A j \in Jobs :
         \/ pc[j] = "none" /\ xfer[j] = "none"
         \/ pc[j] = "blocked"
         \/ pc[j] = "ended" /\ xfer[j] \in Final \cup {"removed"})
=============================================================================
