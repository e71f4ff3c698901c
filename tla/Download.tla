------------------------------ MODULE Download ------------------------------
(***************************************************************************)
(* Sharing by link.  One program shares files (ShareManager and the        *)
(* download handlers of ServerHandler, src/protocol/download.cpp); others  *)
(* receive them with App::ReceiveFromUrl and the worker thread             *)
(* App::RunReceiveJob (src/core/app.cpp).                                  *)
(*                                                                         *)
(* A call is one step: what its answer holds is fixed when the handler     *)
(* runs, and may be used much later.  The body of a file arrives unit by   *)
(* unit.  The order of the files of a job is left open.                    *)
(*                                                                         *)
(* A link may also lead to a sharer of another make.  It is asked the same *)
(* and answers the same, but for the body of a file: it may send another   *)
(* length than it listed, or send in chunks.                               *)
(***************************************************************************)
EXTENDS Naturals, FiniteSets

CONSTANTS
  Jobs,       \* transfers received from a link, one worker thread each
  Sources,    \* files on the sharer's disk
  NameOf,     \* their names after SanitizeFileNameW
  Lists,      \* what the sharer may share: functions from entry ids to Sources
  MaxSize,    \* bound on the length of a file
  MaxShares,  \* bound on the share sessions
  Foreign,    \* transfers whose link may lead to a sharer of another make
  MaxDup,     \* highest number MakeUniquePathW appends to a name
  UserFiles,  \* paths taken before the program started
  None        \* no file, no job

Names == {NameOf[f] : f \in Sources}
Paths == Names \X (0..MaxDup)
Ids   == UNION {DOMAIN l : l \in Lists}

ASSUME BoundsAssumption == MaxSize \in Nat /\ MaxShares \in Nat /\ MaxDup \in Nat
ASSUME ListsAssumption ==
  \A l \in Lists : DOMAIN l # {} /\ \A i \in DOMAIN l : l[i] \in Sources
ASSUME UserFilesAssumption == UserFiles \subseteq Names \X (0..MaxDup)
ASSUME ForeignAssumption == Foreign \subseteq Jobs
ASSUME NoneAssumption == None \notin Jobs \cup Sources \cup Nat

\* A share session is numbered in the order of creation; 0 is "no session".
Sessions == 1..MaxShares
Entry    == [file: Sources, size: 0..MaxSize]
Content  == [job: Jobs \cup {None}, id: Ids \cup {None}, file: Sources \cup {None},
             bytes: 0..MaxSize]
Listings == UNION {[D -> Entry] : D \in SUBSET Ids}
Targets  == UNION {[D -> Paths] : D \in SUBSET Ids}
UserFile == [job |-> None, id |-> None, file |-> None, bytes |-> 0]

VARIABLES
  \* the sharer
  size,       \* the files on its disk (None: deleted)
  current,    \* the session ShareManager holds
  listing,    \* the entries of every session there ever was
  foreign,    \* the transfers whose link leads to a sharer of another make
  \* the receivers
  xfer,       \* Transfer::state ("none" before Add, "removed" after)
  cancelReq,  \* transfers with cancelRequested set
  pc,         \* the worker's next step
  sess,       \* its sessionId
  path,       \* the targets of the files it has named
  left,       \* the files it has not counted
  fid,        \* the file it is at
  length,     \* how long its body is, as the answer says
  avail,      \* how much of it the sharer still has
  disk,       \* the download directory
  handle,     \* the job that has the file open, exclusively
  logged      \* the size mismatches in the log

sharer  == <<size, current, listing, foreign>>
table   == <<xfer, cancelReq>>
locals  == <<sess, path, left, fid, length, avail>>
store   == <<disk, handle, logged>>
vars == <<size, current, listing, foreign, xfer, cancelReq, pc, sess, path, left, fid,
          length, avail, disk, handle, logged>>

Final == {"done", "failed", "canceled"}
States == Final \cup {"none", "waiting", "transferring", "pin_required", "removed"}
Steps == {"none", "list", "name", "begin", "check", "ask", "read", "spins", "delete",
          "count", "failed", "canceled", "done", "ended"}
NoTargets == [i \in {} |-> None]

Init ==
  /\ size \in [Sources -> 0..MaxSize]
  /\ current = 0 /\ listing = [s \in Sessions |-> None]
  /\ foreign = {} /\ logged = {}
  /\ xfer = [j \in Jobs |-> "none"] /\ cancelReq = {}
  /\ pc = [j \in Jobs |-> "none"]
  /\ sess = [j \in Jobs |-> 0]
  /\ path = [j \in Jobs |-> NoTargets]
  /\ left = [j \in Jobs |-> {}]
  /\ fid = [j \in Jobs |-> None]
  /\ length = [j \in Jobs |-> 0] /\ avail = [j \in Jobs |-> 0]
  /\ disk = [p \in Paths |-> IF p \in UserFiles THEN UserFile ELSE None]
  /\ handle = [p \in Paths |-> None]

Goto(j, step) == pc' = [pc EXCEPT ![j] = step]
SetState(j, state) == xfer' = [xfer EXCEPT ![j] = state]

-----------------------------------------------------------------------------
(* The sharer                                                               *)

\* ShareManager::Create: files that do not exist are left out, the session
\* before this one is forgotten.
UserShares(l) ==
  LET there == {i \in DOMAIN l : size[l[i]] # None} IN
  /\ current < MaxShares
  /\ there # {}
  /\ current' = current + 1
  /\ listing' = [listing EXCEPT ![current'] =
                   [i \in there |-> [file |-> l[i], size |-> size[l[i]]]]]
  /\ UNCHANGED <<size, foreign, table, pc, locals, store>>

\* A file that is not being sent may be changed or deleted at any time.
UserEdits(f) ==
  /\ \A j \in Jobs : pc[j] = "read" => listing[sess[j]][fid[j]].file # f
  /\ \E n \in 0..MaxSize \cup {None} : size' = [size EXCEPT ![f] = n]
  /\ UNCHANGED <<current, listing, foreign, table, pc, locals, store>>

\* Mutant: any session will do.
HasAny(s) == current # 0
\* ShareManager::Get, and GetAny for a link without a session.
Has(s) == current # 0 /\ s \in {0, current}

\* HandleDownload of entry i of session s: not found, or a file that opens.
Serves(s, i) ==
  /\ Has(s) /\ i \in DOMAIN listing[current]
  /\ size[listing[current][i].file] # None
Served(i) == listing[current][i]

-----------------------------------------------------------------------------
(* The user at a receiver                                                   *)

\* ReceiveFromUrl, with the link of a session, of an earlier one, or of none,
\* of this sharer or of one of another make.
UserReceives(j, s) ==
  /\ xfer[j] = "none"
  /\ sess' = [sess EXCEPT ![j] = s]
  /\ foreign' \in {foreign, foreign \cup ({j} \cap Foreign)}
  /\ \/ SetState(j, "waiting") /\ Goto(j, "list")
     \/ SetState(j, "failed") /\ Goto(j, "ended")
  /\ UNCHANGED <<size, current, listing, cancelReq, path, left, fid, length, avail, store>>

\* CancelTransfer leaves the state of an incoming transfer to its worker.
UserCancels(j) ==
  /\ xfer[j] \notin {"none", "removed"}
  /\ cancelReq' = cancelReq \cup {j}
  /\ UNCHANGED <<sharer, xfer, pc, locals, store>>

\* RemoveFinished: the state is final and the thread has ended.
Removable(j) == xfer[j] \in Final /\ pc[j] = "ended"

UserClears ==
  /\ \E j \in Jobs : Removable(j)
  /\ xfer' = [j \in Jobs |-> IF Removable(j) THEN "removed" ELSE xfer[j]]
  /\ UNCHANGED <<sharer, cancelReq, pc, locals, store>>

-----------------------------------------------------------------------------
(* RunReceiveJob                                                            *)

\* HandlePrepareDownload: the session asked for, or 404.
Listed(s) == IF Has(s) THEN [session |-> current, files |-> listing[current]] ELSE None

\* FetchShareList.  A link without a session takes the one it is told.
JobListed(j) ==
  /\ pc[j] = "list"
  /\ LET answer == Listed(sess[j]) IN
     /\ answer # None
     /\ sess' = [sess EXCEPT ![j] = answer.session]
     /\ left' = [left EXCEPT ![j] = DOMAIN answer.files]
  /\ Goto(j, "name")
  /\ UNCHANGED <<sharer, table, path, fid, length, avail, store>>

\* A PIN is wanted; or not found, no answer, no connection.
JobUnlisted(j) ==
  /\ pc[j] = "list"
  /\ \E state \in {"pin_required", "failed"} : SetState(j, state)
  /\ Goto(j, "ended")
  /\ UNCHANGED <<sharer, cancelReq, locals, store>>

\* MakeUniquePathW.
Free(n, k)     == disk[<<n, k>>] = None
IsUnique(n, k) == \/ Free(n, k) /\ \A m \in 0..(k - 1) : ~Free(n, m)
                  \/ k = 0 /\ \A m \in 0..MaxDup : ~Free(n, m)

JobNames(j) ==
  /\ pc[j] = "name"
  /\ \E i \in left[j] \ DOMAIN path[j], k \in 0..MaxDup :
       LET name == NameOf[listing[sess[j]][i].file] IN
       /\ IsUnique(name, k)
       /\ path' = [path EXCEPT ![j] = [m \in DOMAIN @ \cup {i} |->
                                         IF m = i THEN <<name, k>> ELSE @[m]]]
  /\ Goto(j, IF DOMAIN path'[j] = left[j] THEN "begin" ELSE "name")
  /\ UNCHANGED <<sharer, table, sess, left, fid, length, avail, store>>

\* SetFiles, SetState and Find.
JobBegin(j) ==
  /\ pc[j] = "begin"
  /\ SetState(j, "transferring")
  /\ Goto(j, "check")
  /\ UNCHANGED <<sharer, cancelReq, locals, store>>

Explained(j) == IF j \in cancelReq THEN "canceled" ELSE "failed"

\* The head of the loop: the end, or a cancel.
JobLeaves(j) ==
  /\ pc[j] = "check"
  /\ \/ left[j] = {} /\ Goto(j, "done")
     \/ left[j] # {} /\ j \in cancelReq /\ Goto(j, "canceled")
  /\ UNCHANGED <<sharer, table, locals, store>>

Target(j) == path[j][fid[j]]

\* DownloadSharedFile: CREATE_ALWAYS, not shared.
JobOpens(j) ==
  /\ pc[j] = "check" /\ j \notin cancelReq
  /\ \E i \in left[j] :
       /\ handle[path[j][i]] = None
       /\ fid' = [fid EXCEPT ![j] = i]
       /\ handle' = [handle EXCEPT ![path[j][i]] = j]
       /\ disk' = [disk EXCEPT ![path[j][i]] =
                     [job |-> j, id |-> i, file |-> None, bytes |-> 0]]
  /\ Goto(j, "ask")
  /\ UNCHANGED <<sharer, table, sess, path, left, length, avail, logged>>

\* Another thread has it open, or the disk refuses.
JobOpenFails(j) ==
  /\ pc[j] = "check" /\ j \notin cancelReq /\ left[j] # {}
  /\ Goto(j, Explained(j))
  /\ UNCHANGED <<sharer, table, locals, store>>

\* Mutant: the length of the file as it is.
AnnouncedNow(e) == size[e.file]

\* Content-Length: entry->size, the length at the time of Create.
Announced(e) == e.size

\* The answer 200.  What was listed may be longer than the file is now; a
\* sharer of another make sends a body of any length.
JobAnswered(j) ==
  /\ pc[j] = "ask"
  /\ Serves(sess[j], fid[j])
  /\ LET e == Served(fid[j]) IN
       /\ disk' = [disk EXCEPT ![Target(j)].file = e.file]
       /\ \E n \in 0..MaxSize, a \in 0..MaxSize :
            /\ length' = [length EXCEPT ![j] = n] /\ avail' = [avail EXCEPT ![j] = a]
            /\ \/ j \in foreign /\ a = n
               \/ /\ j \notin foreign /\ n = Announced(e)
                  /\ a = IF size[e.file] < n THEN size[e.file] ELSE n
  /\ Goto(j, "read")
  /\ UNCHANGED <<sharer, table, sess, path, left, fid, handle, logged>>

Received(j) == disk[Target(j)].bytes

JobReads(j) ==
  /\ pc[j] = "read"
  /\ Received(j) < avail[j]
  /\ disk' = [disk EXCEPT ![Target(j)].bytes = @ + 1]
  /\ UNCHANGED <<sharer, table, pc, locals, handle, logged>>

\* The body is there.  DownloadSharedFile logs that it is not as long as it
\* was listed, if that was not 0, and the file counts.
JobReadAll(j) ==
  /\ pc[j] = "read"
  /\ Received(j) = length[j]
  /\ LET e == listing[sess[j]][fid[j]] IN
       logged' = IF e.size # 0 /\ Received(j) # e.size THEN logged \cup {<<j, fid[j]>>}
                 ELSE logged
  /\ handle' = [handle EXCEPT ![Target(j)] = None]
  /\ Goto(j, "count")
  /\ UNCHANGED <<sharer, table, locals, disk>>

\* A body in chunks, cut in the middle of a line: FillPending receives nothing
\* and is asked again, for ever, and no cancel is seen (HttpClient, FileSpins).
JobSpins(j) ==
  /\ pc[j] = "read" /\ j \in foreign
  /\ Goto(j, "spins")
  /\ UNCHANGED <<sharer, table, locals, store>>

\* Mutant: a call that waits for its answer for ever.
JobStopsReading(j) ==
  /\ pc[j] = "read"
  /\ j \in cancelReq \/ Received(j) < length[j]
  /\ handle' = [handle EXCEPT ![Target(j)] = None]
  /\ Goto(j, "delete")
  /\ UNCHANGED <<sharer, table, locals, disk, logged>>

\* No answer, another answer than 200; a connection or a write that fails, a
\* file that ends early; a cancel: the file is closed.
JobStops(j) ==
  /\ pc[j] \in {"ask", "read"}
  /\ pc[j] = "read" => j \in cancelReq \/ Received(j) < length[j]
  /\ handle' = [handle EXCEPT ![Target(j)] = None]
  /\ Goto(j, "delete")
  /\ UNCHANGED <<sharer, table, locals, disk, logged>>

\* Mutant: the file is deleted while it is still open, which fails.
JobDeletesOpen(j) ==
  /\ pc[j] = "delete"
  /\ Goto(j, Explained(j))
  /\ UNCHANGED <<sharer, table, locals, store>>

\* DeleteFileW fails if another thread has opened it by now.
JobDeletes(j) ==
  /\ pc[j] = "delete"
  /\ disk' = IF handle[Target(j)] = None THEN [disk EXCEPT ![Target(j)] = None] ELSE disk
  /\ Goto(j, Explained(j))
  /\ UNCHANGED <<sharer, table, locals, handle, logged>>

\* SetFileProgress and RecomputeDone.
JobCounts(j) ==
  /\ pc[j] = "count"
  /\ left' = [left EXCEPT ![j] = @ \ {fid[j]}]
  /\ Goto(j, "check")
  /\ UNCHANGED <<sharer, table, sess, path, fid, length, avail, store>>

JobEnds(j) ==
  /\ pc[j] \in Final
  /\ SetState(j, pc[j])
  /\ Goto(j, "ended")
  /\ left' = [left EXCEPT ![j] = {}]
  /\ fid' = [fid EXCEPT ![j] = None]
  /\ length' = [length EXCEPT ![j] = 0] /\ avail' = [avail EXCEPT ![j] = 0]
  /\ UNCHANGED <<sharer, cancelReq, sess, path, store>>

Job(j) ==
  \/ JobListed(j) \/ JobUnlisted(j) \/ JobNames(j) \/ JobBegin(j)
  \/ JobLeaves(j) \/ JobOpens(j) \/ JobOpenFails(j) \/ JobAnswered(j)
  \/ JobReads(j) \/ JobReadAll(j) \/ JobSpins(j) \/ JobStops(j)
  \/ JobDeletes(j) \/ JobCounts(j) \/ JobEnds(j)

-----------------------------------------------------------------------------

Next ==
  \/ \E l \in Lists : UserShares(l)
  \/ \E f \in Sources : UserEdits(f)
  \/ \E j \in Jobs : \/ \E s \in 0..current : UserReceives(j, s)
                     \/ UserCancels(j) \/ Job(j)
  \/ UserClears

Spec == Init /\ [][Next]_vars

\* The workers are scheduled.  Connect and Recv have timeouts, and what a worker
\* sends, a GET without a body, fits into the buffer of a new connection.  The
\* sharer and the user need not do anything.
FairSpec == Spec /\ \A j \in Jobs : WF_vars(Job(j))

-----------------------------------------------------------------------------
(* Properties                                                               *)

\* Every variable has its type.
TypeOK ==
  /\ size \in [Sources -> 0..MaxSize \cup {None}]
  /\ current \in 0..MaxShares
  /\ listing \in [Sessions -> Listings \cup {None}]
  /\ \A s \in Sessions : IF s <= current THEN listing[s] \in Listings ELSE listing[s] = None
  /\ foreign \in SUBSET Jobs /\ logged \in SUBSET (Jobs \X Ids)
  /\ xfer \in [Jobs -> States] /\ cancelReq \in SUBSET Jobs
  /\ pc \in [Jobs -> Steps]
  /\ sess \in [Jobs -> 0..MaxShares]
  /\ path \in [Jobs -> Targets]
  /\ left \in [Jobs -> SUBSET Ids]
  /\ fid \in [Jobs -> Ids \cup {None}]
  /\ length \in [Jobs -> 0..MaxSize] /\ avail \in [Jobs -> 0..MaxSize]
  /\ disk \in [Paths -> Content \cup {None}]
  /\ handle \in [Paths -> Jobs \cup {None}]

\* Whoever asks for an entry of a session gets the file that this session
\* listed under that id, or nothing, also when the sharer has shared something
\* else since: the ids f0, f1, ... of all sessions are the same
\* (ShareManager::Get, HandleDownload).
ServedAsListed ==
  \A p \in Paths : disk[p] # None /\ disk[p].file # None =>
    disk[p].file = listing[sess[disk[p].job]][disk[p].id].file

\* Two files of this program are to have the same target.
Contested(j, i) ==
  \E k \in Jobs : \E m \in DOMAIN path[k] : <<k, m>> # <<j, i>> /\ path[k][m] = path[j][i]

\* n is the length of what was listed; or the sharer, of another make, sent
\* something else, and either the log says so or the listing said 0.
AsListed(j, i, n) ==
  LET e == listing[sess[j]][i] IN
  n = e.size \/ (j \in foreign /\ (<<j, i>> \in logged \/ e.size = 0))

\* A transfer reported DONE has every listed file on disk, though the files may
\* have changed or gone since they were shared, with the length that was listed
\* (AsListed); but for targets that were given twice (RunReceiveJob,
\* DownloadSharedFile).
DoneMeansListed ==
  \A j \in Jobs : xfer[j] = "done" =>
    \A i \in DOMAIN listing[sess[j]] : Contested(j, i) \/
      \E n \in 0..MaxSize :
        /\ AsListed(j, i, n)
        /\ disk[path[j][i]] = [job |-> j, id |-> i, file |-> listing[sess[j]][i].file, bytes |-> n]

\* No half-received file stays behind: a file at rest that no worker is about
\* to delete has the length that was listed (AsListed), also where two workers
\* open, fail and delete at the same target (DownloadSharedFile).
NoPartialFile ==
  \A p \in Paths : disk[p] # None /\ disk[p].job # None =>
    \/ handle[p] # None
    \/ \E j \in Jobs : pc[j] = "delete" /\ Target(j) = p
    \/ AsListed(disk[p].job, disk[p].id, disk[p].bytes)

\* Every job ends, whatever this sharer does or leaves undone; and with one of
\* another make unless its body, sent in chunks, is cut in the middle of a line
\* (JobSpins).
JobsEnd ==
  \A j \in Jobs : pc[j] = "list" ~> pc[j] = "ended" \/ (j \in foreign /\ pc[j] = "spins")
=============================================================================
