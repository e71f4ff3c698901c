------------------------------ MODULE Incoming ------------------------------
(***************************************************************************)
(* The receiving side of LocalSendXP: the HTTP handlers prepare-upload,    *)
(* upload and cancel of ServerHandler (src/protocol/upload.cpp), run by    *)
(* concurrent connection threads against one session slot, the prompt that *)
(* the UI thread shows to the user, the files on disk, the transfer table  *)
(* and the history.                                                        *)
(*                                                                         *)
(* A thread step is one critical section, or one access to the disk or to  *)
(* the transfer table; what a thread computes between two of them is local *)
(* and belongs to the step that follows.  A request refused before it      *)
(* changes anything (wrong PIN, bad JSON, busy, bad token) is a stuttering *)
(* step and has no action.                                                 *)
(***************************************************************************)
EXTENDS Integers

CONSTANTS
  Workers,      \* connection threads of the HTTP server
  Peers,        \* addresses of the senders
  Files,        \* names a sender may give files: keys of "files", and ids
  Names,        \* file names after SanitizeFileNameW
  Offers,       \* what a prepare-upload may offer: functions from keys
  AskModes,     \* the values the setting askBeforeReceive may have
  MaxSessions,  \* bound on the sessions granted or asked for
  MaxBytes,     \* bound on the length of a request body, and of a file
  MaxDup,       \* highest number MakeUniquePathW appends to a name
  UserFiles,    \* paths taken before the program started
  None          \* no path, no content

\* An entry names its id itself; it is not always its key, and two may share it.
FileInfo == [id: Files, name: Names, size: 0..MaxBytes, hashed: BOOLEAN]

\* A session id, its transfer id and the tokens it hands out are all fresh
\* random values or counters of one prepare-upload request: one number names
\* them all, and 0 is "no session".
Sessions == 1..MaxSessions
Paths    == Names \X (0..MaxDup)
Content  == [sess: 0..MaxSessions, file: Files, bytes: 0..MaxBytes, good: BOOLEAN]

ASSUME BoundsAssumption ==
  MaxSessions \in Nat /\ MaxBytes \in Nat /\ MaxDup \in Nat
ASSUME FilesAssumption == Files # {}
ASSUME UserFilesAssumption == UserFiles \subseteq Names \X (0..MaxDup)
ASSUME NoneAssumption == None \notin Offers \cup Paths \cup Workers \cup Files \cup Content
ASSUME AskAssumption == AskModes \subseteq BOOLEAN
ASSUME OffersAssumption ==
  \A o \in Offers : /\ DOMAIN o \subseteq Files
                    /\ DOMAIN o # {}
                    /\ \A f \in DOMAIN o : o[f] \in FileInfo

\* A file the program did not write: session 0.
UserFile == [sess |-> 0, file |-> CHOOSE f \in Files : TRUE, bytes |-> 0, good |-> TRUE]

VARIABLES
  \* ServerHandler, guarded by m_cs
  active,     \* m_sessionActive
  stale,      \* TickCount() - m_sessionTick > kSessionIdleTimeoutMs
  cur,        \* m_sessionId; m_clientIp and m_transferId are set with it
  token,      \* m_tokens, by id: the session that issued the token, 0: no entry
  entry,      \* the file of m_sizes, m_hashes, m_fileIndex (None without an entry)
  target,     \* m_targets (None without an entry)
  received,   \* m_received (-1: no key)
  \* what each prepare-upload request brought and got
  peer,       \* the sender's address
  offer,      \* the files offered
  accepted,   \* the files accepted
  prompt,     \* where the IncomingPrompt is
  \* the rest of the program
  modalActive, \* a confirmation dialog is open, for HandleUiEvents
  xfer,       \* the Transfer in the table ("none" before Add, "removed" after)
  cancelReq,  \* transfers with cancelRequested set
  disk,       \* the download directory
  handle,     \* the thread that has the file open, exclusively
  history,    \* HistoryStore
  overlap,    \* history variable: sessions installed while a thread was still
              \* at work for another one, and those other sessions
  \* the connection threads
  pc,         \* the next step
  job,        \* the session of the request (m_transferId as it was read)
  src,        \* upload: the session whose token it carried
  fid,        \* upload: the file its fileId stands for
  tgt,        \* upload: targetPath
  got,        \* upload: bytes received
  good,       \* upload: the digest is the one the sender announced
  todo        \* prepare: accepted files without an entry yet

slot     == <<active, stale, cur>>
maps     == <<token, entry, target, received>>
requests == <<peer, offer, accepted>>
dialogs  == <<prompt, modalActive>>
table    == <<xfer, cancelReq>>
store    == <<disk, handle, history>>
locals   == <<src, fid, tgt, got, good>>
vars == <<active, stale, cur, token, entry, target, received, peer, offer, accepted, prompt,
          modalActive, xfer, cancelReq, disk, handle, history, overlap, pc, job, src,
          fid, tgt, got, good, todo>>

Steps == {"idle", "drop", "ask", "wait", "install", "entries", "publish",
          "open", "read", "canceled", "failed", "record", "finish", "report", "flag"}
PromptStates == {"none", "queued", "batched", "shown", "yes", "no"}
XferStates   == {"none", "transferring", "done", "failed", "canceled", "removed"}

Init ==
  /\ active = FALSE /\ stale = FALSE /\ cur = 0
  /\ token = [f \in Files |-> 0]
  /\ entry = [f \in Files |-> None]
  /\ target = [f \in Files |-> None]
  /\ received = [f \in Files |-> -1]
  /\ peer = [s \in Sessions |-> None]
  /\ offer = [s \in Sessions |-> None]
  /\ accepted = [s \in Sessions |-> {}]
  /\ prompt = [s \in Sessions |-> "none"]
  /\ modalActive = FALSE
  /\ xfer = [s \in Sessions |-> "none"]
  /\ cancelReq = {}
  /\ disk = [p \in Paths |-> IF p \in UserFiles THEN UserFile ELSE None]
  /\ handle = [p \in Paths |-> None]
  /\ history = {}
  /\ overlap = {}
  /\ pc = [w \in Workers |-> "idle"]
  /\ job = [w \in Workers |-> 0]
  /\ src = [w \in Workers |-> 0]
  /\ fid = [w \in Workers |-> None]
  /\ tgt = [w \in Workers |-> None]
  /\ got = [w \in Workers |-> 0]
  /\ good = [w \in Workers |-> FALSE]
  /\ todo = [w \in Workers |-> {}]

Goto(w, step) == pc' = [pc EXCEPT ![w] = step]

\* The handler returns: the thread is free for the next request.
Return(w) ==
  /\ pc'   = [pc EXCEPT ![w] = "idle"]
  /\ job'  = [job EXCEPT ![w] = 0]
  /\ src'  = [src EXCEPT ![w] = 0]
  /\ fid'  = [fid EXCEPT ![w] = None]
  /\ tgt'  = [tgt EXCEPT ![w] = None]
  /\ got'  = [got EXCEPT ![w] = 0]
  /\ good' = [good EXCEPT ![w] = FALSE]
  /\ todo' = [todo EXCEPT ![w] = {}]

-----------------------------------------------------------------------------
(* POST prepare-upload                                                      *)

Busy == active /\ ~stale

\* The next unused session number.
Fresh(s) == offer[s] = None /\ \A t \in 1..(s - 1) : offer[t] # None

\* The request is read and the slot is looked at, in one critical section; a
\* busy slot is answered with 409.  The slot is free again before it is used.
PrepareArrive(w) ==
  /\ pc[w] = "idle"
  /\ ~Busy
  /\ \E s \in Sessions, p \in Peers, o \in Offers :
       /\ Fresh(s)
       /\ peer'  = [peer EXCEPT ![s] = p]
       /\ offer' = [offer EXCEPT ![s] = o]
       /\ job' = [job EXCEPT ![w] = s]
  /\ Goto(w, IF active THEN "drop" ELSE "ask")
  /\ UNCHANGED <<slot, maps, accepted, dialogs, table, store, overlap, locals, todo>>

\* "dropping stale incoming session": whatever session holds the slot by now.
PrepareDrop(w) ==
  /\ pc[w] = "drop"
  /\ active' = FALSE
  /\ Goto(w, "ask")
  /\ UNCHANGED <<stale, cur, maps, requests, dialogs, table, store, overlap, job, locals, todo>>

\* The prompt is deleted, with the offer it holds.
Forget(s) ==
  /\ prompt' = [prompt EXCEPT ![s] = "none"]
  /\ peer' = [peer EXCEPT ![s] = None]
  /\ offer' = [offer EXCEPT ![s] = None]
  /\ accepted' = [accepted EXCEPT ![s] = {}]

\* 403: the client certificate is not the one the announced fingerprint names,
\* or the prompt gets no event.
PrepareMismatch(w) ==
  /\ pc[w] = "ask"
  /\ Forget(job[w])
  /\ Return(w)
  /\ UNCHANGED <<slot, maps, modalActive, table, store, overlap>>

\* The prompt is posted to the UI thread and the thread blocks on its event,
\* or, when the user wants no question, every file counts as accepted.
PreparePrompt(w) ==
  /\ pc[w] = "ask"
  /\ \/ /\ TRUE \in AskModes
        /\ prompt' = [prompt EXCEPT ![job[w]] = "queued"]
        /\ Goto(w, "wait")
        /\ UNCHANGED accepted
     \/ /\ FALSE \in AskModes
        /\ accepted' = [accepted EXCEPT ![job[w]] = DOMAIN offer[job[w]]]
        /\ Goto(w, "install")
        /\ UNCHANGED prompt
  /\ UNCHANGED <<slot, maps, peer, offer, modalActive, table, store, overlap,
                 job, locals, todo>>

\* Mutant: the wait has a timeout, as in App::PromptForPin; the UI keeps the
\* pointer.
PrepareRejectedTimeout(w) ==
  /\ pc[w] = "wait"
  /\ prompt[job[w]] # "yes"
  /\ Return(w)
  /\ UNCHANGED <<slot, maps, requests, dialogs, table, store, overlap>>

\* 403: the user said no, or another dialog was open.
PrepareRejected(w) ==
  /\ pc[w] = "wait"
  /\ prompt[job[w]] = "no"
  /\ Forget(job[w])
  /\ Return(w)
  /\ UNCHANGED <<slot, maps, modalActive, table, store, overlap>>

\* Threads whose next critical section reads or writes the entry maps for a
\* session they chose earlier.
AtWork == {"entries", "open", "read", "record", "finish"}
OtherWork(w) == {job[x] : x \in {y \in Workers \ {w} : pc[y] \in AtWork}}

\* The session takes the slot.  Nothing looks again at who holds it.
PrepareInstall(w) ==
  /\ \/ pc[w] = "install"
     \/ pc[w] = "wait" /\ prompt[job[w]] = "yes"
  /\ active' = TRUE
  /\ stale' = FALSE
  /\ cur' = job[w]
  /\ token' = [f \in Files |-> 0]
  /\ entry' = [f \in Files |-> None]
  /\ target' = [f \in Files |-> None]
  /\ received' = [f \in Files |-> -1]
  /\ todo' = [todo EXCEPT ![w] = accepted[job[w]]]
  /\ overlap' = IF OtherWork(w) = {} THEN overlap
                ELSE overlap \cup OtherWork(w) \cup {job[w]}
  /\ Goto(w, "entries")
  /\ UNCHANGED <<requests, dialogs, table, store, job, locals>>

\* Mutant: the plain name is taken as it is.
PlainSlot(n, k) == k = 0

\* MakeUniquePathW: the first free of name, name (1), name (2), ... and the
\* plain name when all are taken.
IsUniqueSlot(n, k) ==
  LET free(i) == disk[<<n, i>>] = None IN
  \/ free(k) /\ \A i \in 0..(k - 1) : ~free(i)
  \/ k = 0 /\ \A i \in 0..MaxDup : ~free(i)

\* The id under which file f of session s goes into the maps.
Id(s, f) == offer[s][f].id

\* Mutant: the file gets no key in m_received.
PrepareEntryUncounted(w) ==
  /\ pc[w] = "entries"
  /\ \E f \in todo[w], k \in 0..MaxDup :
       LET s == job[w]
           n == offer[s][f].name IN
       /\ IsUniqueSlot(n, k)
       /\ token' = [token EXCEPT ![Id(s, f)] = s]
       /\ entry' = [entry EXCEPT ![Id(s, f)] = f]
       /\ target' = [target EXCEPT ![Id(s, f)] = <<n, k>>]
       /\ todo' = [todo EXCEPT ![w] = @ \ {f}]
       /\ Goto(w, IF todo[w] = {f} THEN "publish" ELSE "entries")
  /\ UNCHANGED <<slot, received, requests, dialogs, table, store, overlap, job, locals>>

\* One accepted file gets a token and a target path, in the maps as they are;
\* a file of the same id loses what it had there.
PrepareEntry(w) ==
  /\ pc[w] = "entries"
  /\ \E f \in todo[w], k \in 0..MaxDup :
       LET s == job[w]
           n == offer[s][f].name IN
       /\ IsUniqueSlot(n, k)
       /\ token' = [token EXCEPT ![Id(s, f)] = s]
       /\ entry' = [entry EXCEPT ![Id(s, f)] = f]
       /\ target' = [target EXCEPT ![Id(s, f)] = <<n, k>>]
       /\ received' = [received EXCEPT ![Id(s, f)] = 0]
       /\ todo' = [todo EXCEPT ![w] = @ \ {f}]
       /\ Goto(w, IF todo[w] = {f} THEN "publish" ELSE "entries")
  /\ UNCHANGED <<slot, requests, dialogs, table, store, overlap, job, locals>>

\* The transfer enters the table, and the sender gets its tokens: 200.
PreparePublish(w) ==
  /\ pc[w] = "publish"
  /\ xfer' = [xfer EXCEPT ![job[w]] = "transferring"]
  /\ prompt' = [prompt EXCEPT ![job[w]] = "none"]
  /\ Return(w)
  /\ UNCHANGED <<slot, maps, requests, modalActive, cancelReq, store, overlap>>

-----------------------------------------------------------------------------
(* The UI thread: HandleUiEvents and the confirmation dialog                *)

\* HandleUiEvents takes all queued events at once.
UiDrain ==
  /\ ~modalActive
  /\ \A s \in Sessions : prompt[s] # "batched"
  /\ \E s \in Sessions : prompt[s] = "queued"
  /\ prompt' = [s \in Sessions |-> IF prompt[s] = "queued" THEN "batched" ELSE prompt[s]]
  /\ UNCHANGED <<slot, maps, requests, modalActive, table, store, overlap, pc, job, locals, todo>>

\* Mutant: the flag is not set before the dialog opens.
UiShowUnflagged(s) ==
  /\ ~modalActive
  /\ prompt[s] = "batched"
  /\ prompt' = [prompt EXCEPT ![s] = "shown"]
  /\ UNCHANGED <<slot, maps, requests, modalActive, table, store, overlap, pc, job, locals, todo>>

\* The next event of the batch opens its dialog.
UiShow(s) ==
  /\ ~modalActive
  /\ prompt[s] = "batched"
  /\ modalActive' = TRUE
  /\ prompt' = [prompt EXCEPT ![s] = "shown"]
  /\ UNCHANGED <<slot, maps, requests, table, store, overlap, pc, job, locals, todo>>

\* Mutant: what is declined unseen is not signalled.
UiDeclineQueuedSilent ==
  /\ modalActive
  /\ \E s \in Sessions : prompt[s] = "queued"
  /\ prompt' = [s \in Sessions |-> IF prompt[s] = "queued" THEN "none" ELSE prompt[s]]
  /\ UNCHANGED <<slot, maps, requests, modalActive, table, store, overlap, pc, job, locals, todo>>

\* The dialog's message loop runs HandleUiEvents again: what arrives while a
\* dialog is open is declined unseen.
UiDeclineQueued ==
  /\ modalActive
  /\ \E s \in Sessions : prompt[s] = "queued"
  /\ prompt' = [s \in Sessions |-> IF prompt[s] = "queued" THEN "no" ELSE prompt[s]]
  /\ UNCHANGED <<slot, maps, requests, modalActive, table, store, overlap, pc, job, locals, todo>>

\* OK with some files ticked accepts those; OK with none, Cancel and closing
\* the dialog reject.
UserAnswer(s) ==
  /\ prompt[s] = "shown"
  /\ \E ticked \in SUBSET DOMAIN offer[s] :
       /\ accepted' = [accepted EXCEPT ![s] = ticked]
       /\ prompt' = [prompt EXCEPT ![s] = IF ticked = {} THEN "no" ELSE "yes"]
  /\ modalActive' = FALSE
  /\ UNCHANGED <<slot, maps, peer, offer, table, store, overlap,
                 pc, job, locals, todo>>

-----------------------------------------------------------------------------
(* POST upload                                                              *)

\* The tokens of session s were returned with a 200.
Granted(s) == xfer[s] # "none"

\* The token of session s for the id i opens the upload, from its own address;
\* version 1 of the protocol sends no session id.
MayUpload(s, i, v1) ==
  /\ active
  /\ token[i] = s
  /\ v1 \/ cur = s
  /\ peer[cur] = peer[s]

\* The only place, besides the installation, that refreshes the idle clock.
UploadValidate(w) ==
  /\ pc[w] = "idle"
  /\ \E s \in {t \in Sessions : Granted(t)}, i \in Files, v1 \in BOOLEAN :
       /\ MayUpload(s, i, v1)
       /\ job' = [job EXCEPT ![w] = cur]
       /\ src' = [src EXCEPT ![w] = s]
       /\ fid' = [fid EXCEPT ![w] = entry[i]]
       /\ tgt' = [tgt EXCEPT ![w] = target[i]]
  /\ stale' = FALSE
  /\ Goto(w, "open")
  /\ UNCHANGED <<active, cur, maps, requests, dialogs, table, store, overlap, got, good, todo>>

\* CreateFileW(CREATE_ALWAYS) with share mode 0 truncates what is there.
UploadOpen(w) ==
  /\ pc[w] = "open"
  /\ handle[tgt[w]] = None
  /\ handle' = [handle EXCEPT ![tgt[w]] = w]
  /\ disk' = [disk EXCEPT ![tgt[w]] =
                [sess |-> src[w], file |-> fid[w], bytes |-> 0, good |-> FALSE]]
  /\ Goto(w, "read")
  /\ UNCHANGED <<slot, maps, requests, dialogs, table, history, overlap, job, locals, todo>>

\* 500: another thread has the file open, or the system refuses.
UploadOpenFails(w) ==
  /\ pc[w] = "open"
  /\ Return(w)
  /\ UNCHANGED <<slot, maps, requests, dialogs, table, store, overlap>>

\* Each turn of the receive loop first looks its transfer up.
Stopped(s) == xfer[s] \in {"none", "removed"} \/ s \in cancelReq

UploadChunk(w) ==
  /\ pc[w] = "read"
  /\ ~Stopped(job[w])
  /\ got[w] < MaxBytes
  /\ got' = [got EXCEPT ![w] = @ + 1]
  /\ disk' = [disk EXCEPT ![tgt[w]].bytes = got[w] + 1]
  /\ UNCHANGED <<slot, maps, requests, dialogs, table, handle, history, overlap,
                 pc, job, src, fid, tgt, good, todo>>

UploadStopped(w) ==
  /\ pc[w] = "read"
  /\ Stopped(job[w])
  /\ handle' = [handle EXCEPT ![tgt[w]] = None]
  /\ Goto(w, "canceled")
  /\ UNCHANGED <<slot, maps, requests, dialogs, table, disk, history, overlap, job, locals, todo>>

\* The connection breaks, or the disk is full.
UploadBreaks(w) ==
  /\ pc[w] = "read"
  /\ ~Stopped(job[w])
  /\ handle' = [handle EXCEPT ![tgt[w]] = None]
  /\ Goto(w, "failed")
  /\ UNCHANGED <<slot, maps, requests, dialogs, table, disk, history, overlap, job, locals, todo>>

\* Mutant: the digest is not compared.
PassesNoChecks(s, f, ok) == TRUE

\* The checks after the last byte.  A digest is compared when the sender
\* announced one; a wrong length alone is only logged.
PassesChecks(s, f, ok) == offer[s][f].hashed => ok

\* The end of the body.  ok: the bytes are those of the sender's file.
UploadEnd(w) ==
  /\ pc[w] = "read"
  /\ ~Stopped(job[w])
  /\ \E ok \in BOOLEAN :
       /\ ok => got[w] = offer[src[w]][fid[w]].size
       /\ good' = [good EXCEPT ![w] = ok]
       /\ disk' = [disk EXCEPT ![tgt[w]].good = ok]
       /\ Goto(w, IF PassesChecks(src[w], fid[w], ok) THEN "record" ELSE "failed")
  /\ handle' = [handle EXCEPT ![tgt[w]] = None]
  /\ UNCHANGED <<slot, maps, requests, dialogs, table, history, overlap,
                 job, src, fid, tgt, got, todo>>

\* Mutant: the file is not deleted.
NotDeleted(p) == disk

\* DeleteFileW does nothing to a file that another thread has open.
Deleted(p) == IF handle[p] = None THEN [disk EXCEPT ![p] = None] ELSE disk

\* SetState changes the transfer if the table still has it.
WithState(s, state) ==
  IF xfer[s] \in {"none", "removed"} THEN xfer ELSE [xfer EXCEPT ![s] = state]

UploadCanceled(w) ==
  /\ pc[w] = "canceled"
  /\ disk' = Deleted(tgt[w])
  /\ xfer' = WithState(job[w], "canceled")
  /\ Return(w)
  /\ UNCHANGED <<slot, maps, requests, dialogs, cancelReq, handle, history, overlap>>

UploadFailed(w) ==
  /\ pc[w] = "failed"
  /\ disk' = Deleted(tgt[w])
  /\ xfer' = WithState(job[w], "failed")
  /\ Return(w)
  /\ UNCHANGED <<slot, maps, requests, dialogs, cancelReq, handle, history, overlap>>

\* HistoryStore::AddReceived
UploadRecord(w) ==
  /\ pc[w] = "record"
  /\ history' = history \cup
       {[sess |-> src[w], file |-> fid[w], path |-> tgt[w], bytes |-> got[w], good |-> good[w]]}
  /\ Goto(w, "finish")
  /\ UNCHANGED <<slot, maps, requests, dialogs, table, disk, handle, overlap, job, locals, todo>>

\* The size in m_sizes.
Size(i) == offer[token[i]][entry[i]].size

\* Mutant: the counts are looked at before the new one is entered.
AllDoneBefore(rcv) ==
  \A i \in Files : token[i] # 0 =>
    received[i] # -1 /\ (Size(i) # 0 => received[i] = Size(i))

\* Mutant: a key in m_received is enough.
AllHaveKeys(rcv) == \A i \in Files : token[i] # 0 => rcv[i] # -1

\* An empty file counts as received as soon as it has an entry.
AllDone(rcv) ==
  \A i \in Files : token[i] # 0 =>
    rcv[i] # -1 /\ (Size(i) # 0 => rcv[i] = Size(i))

\* The byte count goes into the maps of whichever session holds them now.
UploadFinish(w) ==
  /\ pc[w] = "finish"
  /\ received' = [received EXCEPT ![Id(src[w], fid[w])] = got[w]]
  /\ IF AllDone(received')
     THEN /\ active' = FALSE
          /\ Goto(w, "report")
          /\ UNCHANGED <<job, locals, todo>>
     ELSE /\ Return(w)
          /\ UNCHANGED active
  /\ UNCHANGED <<stale, cur, token, entry, target, requests, dialogs, table, store, overlap>>

\* SetState(TS_DONE) and the "received" balloon.
UploadReport(w) ==
  /\ pc[w] = "report"
  /\ xfer' = WithState(job[w], "done")
  /\ Return(w)
  /\ UNCHANGED <<slot, maps, requests, dialogs, cancelReq, store, overlap>>

-----------------------------------------------------------------------------
(* POST cancel, the user, and time                                          *)

\* A cancel without a session id matches any session.
CancelMark(w) ==
  /\ pc[w] = "idle"
  /\ active
  /\ active' = FALSE
  /\ job' = [job EXCEPT ![w] = cur]
  /\ Goto(w, "flag")
  /\ UNCHANGED <<stale, cur, maps, requests, dialogs, table, store, overlap, locals, todo>>

CancelFlag(w) ==
  /\ pc[w] = "flag"
  /\ cancelReq' = IF xfer[job[w]] \in {"none", "removed"} THEN cancelReq
                  ELSE cancelReq \cup {job[w]}
  /\ xfer' = WithState(job[w], "canceled")
  /\ Return(w)
  /\ UNCHANGED <<slot, maps, requests, dialogs, store, overlap>>

\* App::CancelTransfer of an incoming transfer only raises its flag.
UserCancel(s) ==
  /\ xfer[s] \notin {"none", "removed"}
  /\ s \notin cancelReq
  /\ cancelReq' = cancelReq \cup {s}
  /\ UNCHANGED <<slot, maps, requests, dialogs, xfer, store, overlap, pc, job, locals, todo>>

\* "Clear finished" (TransferManager::RemoveFinished).
UserClear ==
  /\ \E s \in Sessions : xfer[s] \in {"done", "failed", "canceled"}
  /\ xfer' = [s \in Sessions |->
                IF xfer[s] \in {"done", "failed", "canceled"} THEN "removed" ELSE xfer[s]]
  /\ cancelReq' = {s \in cancelReq : xfer[s] = "transferring"}
  /\ UNCHANGED <<slot, maps, requests, dialogs, store, overlap, pc, job, locals, todo>>

\* Five minutes without an upload request for the session.
IdleTimeout ==
  /\ active /\ ~stale
  /\ stale' = TRUE
  /\ UNCHANGED <<active, cur, maps, requests, dialogs, table, store, overlap, pc, job, locals, todo>>

-----------------------------------------------------------------------------
Prepare(w) ==
  \/ PrepareDrop(w) \/ PrepareMismatch(w) \/ PreparePrompt(w) \/ PrepareRejected(w)
  \/ PrepareInstall(w) \/ PrepareEntry(w) \/ PreparePublish(w)

Upload(w) ==
  \/ UploadOpen(w) \/ UploadOpenFails(w) \/ UploadChunk(w) \/ UploadStopped(w)
  \/ UploadBreaks(w) \/ UploadEnd(w) \/ UploadCanceled(w) \/ UploadFailed(w)
  \/ UploadRecord(w) \/ UploadFinish(w) \/ UploadReport(w)

Ui == UiDrain \/ UiDeclineQueued \/ \E s \in Sessions : UiShow(s)

Next ==
  \/ \E w \in Workers : PrepareArrive(w) \/ UploadValidate(w) \/ CancelMark(w)
  \/ \E w \in Workers : Prepare(w) \/ Upload(w) \/ CancelFlag(w)
  \/ Ui
  \/ \E s \in Sessions : UserAnswer(s) \/ UserCancel(s)
  \/ UserClear
  \/ IdleTimeout

Spec == Init /\ [][Next]_vars

\* Threads are scheduled, a read of a body returns within 30 seconds (Recv),
\* the UI thread runs its message loop, and the user answers the dialog on the
\* screen.  Nothing makes a peer send a request, or the user cancel.
Fairness ==
  /\ \A w \in Workers : WF_vars(Prepare(w) \/ Upload(w) \/ CancelFlag(w))
  /\ WF_vars(Ui)
  /\ WF_vars(\E s \in Sessions : UserAnswer(s))

FairSpec == Spec /\ Fairness

-----------------------------------------------------------------------------
(* Properties                                                               *)

SlotTypeOK ==
  /\ active \in BOOLEAN /\ stale \in BOOLEAN /\ cur \in 0..MaxSessions
  /\ token \in [Files -> 0..MaxSessions]
  /\ entry \in [Files -> Files \cup {None}]
  /\ target \in [Files -> Paths \cup {None}]
  /\ received \in [Files -> -1..MaxBytes]

RequestTypeOK ==
  /\ peer \in [Sessions -> Peers \cup {None}]
  /\ offer \in [Sessions -> Offers \cup {None}]
  /\ accepted \in [Sessions -> SUBSET Files]
  /\ prompt \in [Sessions -> PromptStates]
  /\ modalActive \in BOOLEAN

StoreTypeOK ==
  /\ xfer \in [Sessions -> XferStates]
  /\ cancelReq \in SUBSET Sessions
  /\ disk \in [Paths -> Content \cup {None}]
  /\ handle \in [Paths -> Workers \cup {None}]
  /\ history \in SUBSET [sess: Sessions, file: Files, path: Paths,
                         bytes: 0..MaxBytes, good: BOOLEAN]
  /\ overlap \in SUBSET Sessions

ThreadTypeOK ==
  /\ pc \in [Workers -> Steps]
  /\ job \in [Workers -> 0..MaxSessions]
  /\ src \in [Workers -> 0..MaxSessions]
  /\ fid \in [Workers -> Files \cup {None}]
  /\ tgt \in [Workers -> Paths \cup {None}]
  /\ got \in [Workers -> 0..MaxBytes]
  /\ good \in [Workers -> BOOLEAN]
  /\ todo \in [Workers -> SUBSET Files]

\* Every variable, the state of the connection threads included, has its type.
TypeOK == SlotTypeOK /\ RequestTypeOK /\ StoreTypeOK /\ ThreadTypeOK

\* The UI thread never holds a prompt whose owner has freed it: while a prompt
\* is queued, in a batch or on the screen, the thread that will delete it is
\* still blocked on its event (App::PromptIncomingTransfer, HandleUiEvents).
PromptAlive ==
  \A s \in Sessions : prompt[s] \in {"queued", "batched", "shown"} =>
    \E w \in Workers : pc[w] = "wait" /\ job[w] = s

\* At most one confirmation dialog is open at any time, although the dialog's
\* own message loop re-enters HandleUiEvents, which has only its flag to tell
\* it (modalActive, main_window.cpp).
OneDialog ==
  \A s, t \in Sessions : prompt[s] = "shown" /\ prompt[t] = "shown" => s = t

\* Two accepted files of a session have one id, and one entry in the maps: the
\* sender gets one token for them.
Shared(s, f) == \E g \in accepted[s] \ {f} : Id(s, g) = Id(s, f)

\* A transfer reported DONE has received every accepted file that is not
\* empty, to the last byte and, where a digest was announced, with that
\* digest: provided its session was not installed, or replaced, while a thread
\* was still at work for another one, and but for files that share their id
\* with another (HandleUpload, HandlePrepareUpload).
DoneMeansReceived ==
  \A s \in Sessions : xfer[s] = "done" /\ s \notin overlap =>
    \A f \in accepted[s] : offer[s][f].size # 0 /\ ~Shared(s, f) =>
      \E h \in history : /\ h.sess = s /\ h.file = f
                         /\ h.bytes = offer[s][f].size
                         /\ offer[s][f].hashed => h.good

\* Nothing reaches the history that the user did not accept, or that failed
\* the digest check.
HistoryVouched ==
  \A h \in history : /\ h.file \in accepted[h.sess]
                     /\ offer[h.sess][h.file].hashed => h.good

\* No half-received or rejected file stays behind: a received file that no
\* thread has open and no thread is about to delete or record is in the
\* history, with exactly its bytes.
RestingFilesRecorded ==
  \A p \in Paths : disk[p] # None /\ disk[p].sess # 0 =>
    \/ handle[p] # None
    \/ \E w \in Workers : tgt[w] = p /\ pc[w] \in {"canceled", "failed", "record"}
    \/ \E h \in history : /\ h.path = p
                          /\ h.sess = disk[p].sess /\ h.file = disk[p].file
                          /\ h.bytes = disk[p].bytes /\ h.good = disk[p].good

\* Files that were in the download directory before are never replaced,
\* truncated or deleted by anything a sender or the user does.
UserFilesKept ==
  [][\A p \in Paths : disk[p] # None /\ disk[p].sess = 0 => disk'[p] = disk[p]]_vars

\* Every handler comes to its answer: no interleaving of prompts, also of one
\* that arrives while another's dialog is open, of cancels and uploads leaves a
\* connection thread blocked (PromptIncomingTransfer waits without a timeout).
\* The threads are alike, so that one of them stands for all.
AnyWorker == CHOOSE w \in Workers : TRUE
RequestsEnd == pc[AnyWorker] # "idle" ~> pc[AnyWorker] = "idle"

-----------------------------------------------------------------------------
(* The inductive invariant behind the safety properties.                    *)

Preparing == {"drop", "ask", "wait", "install", "entries", "publish"}
Early     == {"drop", "ask", "wait", "install"}
Uploading == {"open", "read", "canceled", "failed", "record", "finish", "report"}

\* No part of the program knows the session outside its own request.
Unknown(s) ==
  /\ cur # s
  /\ \A f \in Files : token[f] # s
  /\ xfer[s] = "none"
  /\ \A h \in history : h.sess # s

\* Everything that refers to a session refers to one with an offer.
SlotInv == (active => cur # 0) /\ (cur # 0 => offer[cur] # None)

OfferInv ==
  \A s \in Sessions :
    /\ offer[s] = None => Unknown(s) /\ accepted[s] = {} /\ prompt[s] = "none"
    /\ offer[s] # None => accepted[s] \subseteq DOMAIN offer[s]

TokenInv ==
  \A i \in Files : token[i] # 0 =>
    /\ offer[token[i]] # None
    /\ entry[i] \in accepted[token[i]]
    /\ Id(token[i], entry[i]) = i
    /\ target[i] \in Paths

JobInv ==
  \A w \in Workers : /\ pc[w] = "flag" => job[w] # 0
                     /\ job[w] # 0 => offer[job[w]] # None
                     /\ src[w] # 0 => offer[src[w]] # None

\* A prepare-upload request owns its session, and alone knows it until it
\* installs it; its prompt is where the thread's step says.
OwnOK(w) ==
  pc[w] \in Preparing =>
    /\ job[w] # 0
    /\ xfer[job[w]] = "none"
    /\ pc[w] \in Early => Unknown(job[w])
    /\ pc[w] = "entries" => todo[w] \subseteq accepted[job[w]]

AloneOK(w, x) ==
  w # x /\ pc[w] \in Preparing =>
    /\ pc[x] \in Preparing => job[x] # job[w]
    /\ pc[w] \in Early => job[x] # job[w] /\ src[x] # job[w]

PromptOK(w) ==
  /\ pc[w] \in {"drop", "ask", "install"} => prompt[job[w]] = "none"
  /\ pc[w] \in {"entries", "publish"} => prompt[job[w]] \in {"none", "yes"}

WaitInv ==
  \A s \in Sessions : prompt[s] \in {"queued", "batched", "shown", "no"} =>
    \E w \in Workers : pc[w] = "wait" /\ job[w] = s

OwnInv    == \A w \in Workers : OwnOK(w)
AloneInv  == \A w, x \in Workers : AloneOK(w, x)
PromptInv == (\A w \in Workers : PromptOK(w)) /\ WaitInv

Recorded(s, f, b) ==
  \E h \in history : /\ h.sess = s /\ h.file = f /\ h.bytes = b
                     /\ PassesChecks(s, f, h.good)

UploadOK(w) ==
  pc[w] \in Uploading =>
    /\ job[w] # 0 /\ src[w] # 0
    /\ xfer[src[w]] # "none"
    /\ fid[w] \in accepted[src[w]]
    /\ tgt[w] \in Paths
    /\ pc[w] \in {"record", "finish"} => PassesChecks(src[w], fid[w], good[w])
    /\ pc[w] = "finish" => Recorded(src[w], fid[w], got[w])

UploadInv == \A w \in Workers : UploadOK(w)

\* What the file p was made of.
Holds(p, s, f, b) == disk[p].sess = s /\ disk[p].file = f /\ disk[p].bytes = b

\* A thread that reads a body has its file open, and its bytes are in it.
HandleOK(w) ==
  /\ pc[w] \in {"idle", "open"} => got[w] = 0
  /\ pc[w] = "read" =>
       /\ handle[tgt[w]] = w
       /\ disk[tgt[w]] # None
       /\ Holds(tgt[w], src[w], fid[w], got[w])

HandleInv == \A w \in Workers : HandleOK(w)

StructInv ==
  /\ TypeOK
  /\ SlotInv /\ OfferInv /\ TokenInv /\ JobInv
  /\ OwnInv /\ AloneInv /\ PromptInv
  /\ UploadInv /\ HandleInv

Complete(s) ==
  \A f \in accepted[s] :
    offer[s][f].size # 0 /\ ~Shared(s, f) => Recorded(s, f, offer[s][f].size)

\* While the session in the slot overlaps no other: the maps are its own, and
\* what they count as received is in the history.
CleanInv ==
  /\ cur # 0 /\ cur \notin overlap =>
       /\ \A f \in Files : token[f] \in {0, cur}
       /\ \A w \in Workers : pc[w] \in AtWork =>
            /\ job[w] = cur
            /\ pc[w] # "entries" => src[w] = cur /\ entry[Id(cur, fid[w])] = fid[w]
       /\ \A i \in Files : token[i] = cur /\ received[i] > 0 => Recorded(cur, entry[i], received[i])
       /\ \A f \in accepted[cur] :
            token[Id(cur, f)] = cur \/ \E w \in Workers : pc[w] = "entries" /\ job[w] = cur /\ f \in todo[w]
  /\ \A w \in Workers : pc[w] \in AtWork /\ job[w] \notin overlap => job[w] = cur
  /\ \A w \in Workers : pc[w] = "report" /\ job[w] \notin overlap => Complete(job[w])
  /\ \A s \in Sessions : xfer[s] = "done" /\ s \notin overlap => Complete(s)

\* A dialog on the screen has set its flag, and no other is open.
DialogInv == OneDialog /\ \A s \in Sessions : prompt[s] = "shown" => modalActive

\* An open file is being read into; a file at rest is about to be deleted,
\* about to be recorded as it is, or recorded.
DiskInv ==
  /\ \A p \in Paths : handle[p] # None => pc[handle[p]] = "read" /\ tgt[handle[p]] = p
  /\ \A p \in Paths : disk[p] # None /\ disk[p].sess # 0 =>
       \/ handle[p] # None
       \/ \E w \in Workers : tgt[w] = p /\ pc[w] \in {"canceled", "failed"}
       \/ \E w \in Workers : /\ tgt[w] = p /\ pc[w] = "record"
                             /\ Holds(p, src[w], fid[w], got[w]) /\ disk[p].good = good[w]
       \/ \E h \in history : /\ h.path = p
                             /\ h.sess = disk[p].sess /\ h.file = disk[p].file
                             /\ h.bytes = disk[p].bytes /\ h.good = disk[p].good

-----------------------------------------------------------------------------
(* What the senders are promised                                            *)

\* A session is the senders' once its tokens have been returned.  They know
\* its files by their ids.
Ids(s, files) == {Id(s, f) : f \in files}
Given == [s \in Sessions |-> IF Granted(s) THEN Ids(s, accepted[s]) ELSE {}]
Received(s) == {f \in accepted[s] : \E b \in 0..MaxBytes : Recorded(s, f, b)}
Stored == [s \in Sessions |-> Ids(s, Received(s))]
Holder == IF active /\ cur # 0 /\ Granted(cur) THEN cur ELSE 0

\* The session has received a file whose length is not the announced one.
Inexact(s) ==
  \E h \in history : h.sess = s /\ offer[s][h.file].size \notin {0, h.bytes}

Muddled == Holder # 0 /\ (cur \in overlap \/ Inexact(cur))

\* The files that AllDone waits for.
Uncounted ==
  IF Holder = 0 \/ Muddled THEN {}
  ELSE {i \in Given[cur] : offer[cur][entry[i]].size \notin {0, received[i]}}

Server == INSTANCE Receiver WITH
  slot <- Holder, granted <- Given, stored <- Stored,
  missing <- Uncounted, muddled <- Muddled, None <- 0

\* Whatever the threads, the user and the other senders do, a sender sees the
\* receiver of module Receiver: tokens are given once, an upload that is
\* answered 200 has been stored, and the session ends with the last file that
\* is counted, unless it overlapped another or a length was wrong
\* (HandlePrepareUpload, HandleUpload, HandleCancel).
ReceiverPromise == Server!Spec

\* What that needs besides StructInv and CleanInv: each entry has a count, and
\* no session is installed without a file.
Installing == {"install", "entries", "publish"}

CountInv ==
  /\ \A f \in Files : token[f] # 0 => received[f] # -1
  /\ \A s \in Sessions : prompt[s] = "yes" => accepted[s] # {}
  /\ \A w \in Workers : pc[w] \in Installing => accepted[job[w]] # {}

-----------------------------------------------------------------------------
(* What the repository says, and the code does not do                       *)

\* A file of the same name is renamed, never overwritten: each file of a
\* transfer reported DONE is there.  Violated: HandlePrepareUpload names the
\* targets of all files of a session before any of them exists.
ReportedFilesPresent ==
  \A s \in Sessions : xfer[s] = "done" /\ s \notin overlap =>
    \A f \in accepted[s] : \E p \in Paths :
      disk[p] # None /\ disk[p].sess = s /\ disk[p].file = f

=============================================================================
