# LocalSend XP: specifications and proofs

LocalSend XP is a C++ Win32 client of the LocalSend protocol: it finds devices
on the local network, sends files to them and receives files from them. This
directory holds TLA+ models of it, the TLC instances that check them, and TLAPS
proofs about eight of them. Paths such as `protocol/upload.cpp`
are relative to `src/LocalSendXP/src/`. `PROJECT.json` maps each definition to
the lines it stands for.

    tlc -workers 2 -config IncomingFiles.cfg MCIncoming     # one run
    tlapm HttpClientProofs.tla                              # one proof module

## 1. Inventory of the system

### Threads and what they share

- One **UI thread**: window messages, dialogs, and a queue of events that other
  threads post (`App::PostUiEvent`). Every modal dialog runs its own message
  loop, which re-enters `HandleUiEvents`.
- A **listener** and one **connection thread** per accepted socket, 24 at most
  (`network/http_server.cpp`). They run the `ServerHandler` (`protocol/*.cpp`),
  which has one session slot for uploads, guarded by one lock that is not held
  while the user is asked, the disk is used or a body is read.
- One **worker thread** per outgoing or downloaded transfer (`core/app.cpp`).
- The **discovery thread**, and for a scan a **scan thread** with several
  **scan workers** (`protocol/discovery.cpp`).

They share the transfer table, the device table and the history, each with a
lock of its own; prompts, which a blocked thread owns and the UI thread answers
through a raw pointer and an event; `Transfer*` pointers that `Find` returns
after it has released its lock; and the download directory.

### Components

| component | state | operations | interacts with | what is hard | correct means |
|---|---|---|---|---|---|
| receiver session, `protocol/upload.cpp` (server half) | `m_sessionActive`, `m_sessionId`, `m_sessionTick`, `m_tokens`, `m_targets`, `m_received` | prepare-upload, upload, cancel | prompts, transfers, disk, history | check and use of the slot are separate critical sections with a dialog in between; several uploads at a time; idle timeout | DONE means received; no partial file stays; history holds only what was accepted and verified; the slot comes back |
| prompts and UI events, `core/app.cpp` 240-330, `ui/main_window.cpp` 397-495 | queue, `m_incomingBusy`, open dialogs | post, drain, show, answer, time out | connection threads, send workers | re-entrance; a prompt deleted while its dialog is open | no pointer to a deleted prompt, one receive dialog, every waiter released |
| transfer table, `core/transfer.cpp` | transfers with state, files, counters, cancel flag, thread | Add, Find, SetState, RemoveFinished, RecomputeDone, OverallPercent | everything | raw pointers out of the lock; sums stored after it | no transfer freed under its worker; final states; progress of what is running |
| send job, `core/app.cpp` 425-500, 599-835; client half of `protocol/upload.cpp` | worker's locals, `Transfer` | SendFiles, RunSendJob, PromptForPin, CancelTransfer | a receiver over HTTP, PIN prompts | lost or late calls, cancel at any time, two writers of the state | DONE means received; each job ends in a final state; the receiver is told |
| receive job and download, `core/app.cpp` 837-964, `protocol/download.cpp` | shares, worker's locals | ReceiveFromUrl, RunReceiveJob, share sessions | a sharing peer | partial failure, name clashes | like the send job |
| HTTP server connection, `network/http_server.cpp` | buffer, pending bytes, `HttpBodyReader` | ServeConnection, Read, WriteResponse | a client, handlers | segmentation, chunked framing, stalls, keep-alive | bodies exact, answers in order, threads get away |
| HTTP server pool, same file | listener, `m_activeConnections` | Start, ListenLoop, Stop | connection threads | a limit, handle reuse, shutdown while serving | at most 24, nothing left behind |
| HTTP client, `network/http_client.cpp` | one call | Execute, ExecuteStreaming, DownloadToFile | servers | answers cut anywhere, early, interim or incomplete; files that change; cancel | a call that succeeds has sent and received what was announced; every call returns |
| discovery, `protocol/discovery.cpp`, `register.cpp`, `core/device.cpp` | devices with `lastSeen`, `m_lastAnnounce`, `m_scanRequest`, scan job | loop, answer, scan, Refresh, register | peers, HTTP client | one thread for everything; scan workers share an index; the clock | quiet devices leave, others stay; announcements go out; a scan is complete; Refresh scans |
| history, `core/history.cpp`, `ui/dialog_history.cpp` | list, file | AddReceived, Remove, Clear, Save, Load | connection threads, dialog | file written outside the lock, stale positions | the file is the list; only what was selected is removed |
| start, settings and end, `core/app.cpp` 162-222 and 503-598, `util/config.cpp`, `ui/dialog_settings.cpp`, `main.cpp` | `m_config` and its file, services, `m_quitting` | Load, Save, StartServices, StopServices, ApplySettingChange, Shutdown | everything | a file written key by key, services that keep the settings of their start, waits with timeouts at the end | the settings confirmed last are those in use; peers are told what is served; the program exits |
| JSON, texts, names, digests, `util/json.cpp`, `util/common.cpp`, `util/sha256.cpp`, `protocol/register.cpp` | a position, a buffer | Parse, Serialize, UrlEncode, UrlDecode, QueryParam, SanitizeFileNameW, Update, Final | every message, every file | borders: surrogates, nesting, cut texts, block sizes | what is written is what is read; a name can be stored; a digest does not depend on the reads |
| TLS, OpenSSL loader, dialogs, Base64 | - | - | - | wrappers, painting, unused | see section 7 |

Section 5 and the hazards in `PROJECT.json` list what is hard to test in this
code, at the line where it bites.

### How the parts interact in one transfer

The sender's worker calls prepare-upload; the receiver's connection thread checks
the PIN and the slot, posts a prompt and waits; the user answers in a dialog of the
UI thread; the connection thread then installs the session, fills the token maps one
critical section at a time, publishes the transfer and answers with a token per
file. Each upload is a request of its own, handled by any connection thread: it
validates, opens the target, reads, checks the digest, records the file in the
history, counts it, and the upload that finds all files counted closes the session
and reports DONE. `Sending` models the first side, `Incoming` the second with
arbitrary senders. Between them stands `Receiver`, what a sender can rely on:
`Sending` takes its receiver from there, and `Incoming` implements it. `HttpClient`
and `HttpConnection` the two ends of the connection under both. In a transfer by
link the sharer (`ShareManager`) answers and the receiver asks: `Download` has both
sides. `Records` is what either kind leaves in the transfer table and in the
history, `Lifecycle` what is around all of them, from start to exit.

## 2. Modules

| module | what it is |
|---|---|
| `Receiver` | abstract: what the receiving side promises the senders |
| `Incoming` | receiver: prepare-upload, upload, cancel, prompts, UI queue, disk, history, transfer table; implements `Receiver` |
| `IncomingProofs` | the structural invariant of `Incoming` is inductive; the safety theorems and the refinement |
| `Delivery` | abstract: what an outgoing transfer promises its user |
| `Sending` | send jobs, PIN prompts, transfer table, a `Receiver` behind a lossy network; implements `Delivery` |
| `SendingProofs` | the theorems about `Sending`, the refinement among them |
| `Download`, `DownloadProofs` | sharing by link: the share manager, the handlers, the receive jobs and the download directory; the theorems |
| `HttpConnection`, `HttpConnectionProofs` | one keep-alive connection of the HTTP server; the theorems, and lemmas about its bytes |
| `HttpClient`, `HttpClientProofs` | one call of the HTTP client against any peer; the theorems |
| `HttpBytes` | what HTTP puts on a connection, for the two |
| `Discovery`, `DiscoveryProofs` | discovery loop, scan, device table, Refresh; the theorems |
| `Records`, `RecordsProofs` | byte counters, history, its file and its dialog, with restarts; the theorems |
| `Lifecycle`, `LifecycleProofs` | settings and their file, services, the pool of connection threads, shutdown, with crashes; the theorems |
| `Json`, `Text` | the reader and writer of JSON; texts, URLs, names and paths: operators |
| `Codecs` | inputs for `Json` and `Text`, and the buffering of SHA-256 |
| `MC...` | the small instances for TLC |

A definition whose comment begins with "Mutant" is not part of a
specification: it is a plausible bug. Put in place of the definition beside it
(`mutants` in `PROJECT.json`), it makes a named property fail.

Several properties are of the form "P, but for E", where E is named by a
history variable or a definition of its own. E is always a behaviour of the
code that the model reaches: without the exception the property is false, and
section 5 says what happens then. The exception makes it exact.

### Incoming

*State.* The fields of `ServerHandler` have variables of their names without the
prefix: `active`, `cur`, `token`, `target`, `received`. `stale` is the outcome of
the idle test. A prepare-upload request creates one session id, one transfer id and
its tokens, all fresh: one number stands for them. What a request offered (`offer`,
an id, a name, a size and whether a digest was announced per file) and what was
accepted are kept per session. The maps of the code are keyed by the id that an
entry names itself, which need not be its key in the offer, and two entries may name
one (`Id`): `token`, `target` and `received` are functions of ids, and `entry` is
the file of the session that an id stands for by now, with its size and digest.
`prompt` says where the `IncomingPrompt` is: queued, in a batch that
`HandleUiEvents` has taken, on the screen, or answered; `modalActive` is the flag of
`HandleUiEvents`, set before a dialog (`UiShow`) and reset when it returns
(`UserAnswer`). `disk`, `handle` and `history` are the files, who has one open (the
code opens them without sharing) and the recorded ones. Connection threads have `pc`
and the locals that outlive a step.

*Actions.* A step of a thread is one critical section or one access to disk or
table. prepare-upload: `PrepareArrive` (the check of the slot, 436-450),
`PrepareDrop` (a stale session), `PreparePrompt`, `PrepareRejected`,
`PrepareInstall` (540-552), `PrepareEntry` (one file at a time: the unlocked
`MakeUniquePathW` and the entry), `PreparePublish`. upload: `UploadValidate`,
`UploadOpen`/`UploadOpenFails`, `UploadChunk`, `UploadStopped` (cancel flag),
`UploadBreaks` (connection), `UploadEnd` (length and digest), `UploadCanceled`,
`UploadFailed`, `UploadRecord`, `UploadFinish` (count, and is it all?),
`UploadReport`. cancel: `CancelMark`, `CancelFlag`. UI: `UiDrain`, `UiShow`,
`UiDeclineQueued`, `UserAnswer`, `UserCancel`, `UserClear`. Clock: `IdleTimeout`.

*Abstractions.* A request refused before it changes anything is a stuttering
step. The cancel test and the receive of one loop turn are one step. Byte
counters, the device table update and shutdown are left out. The 204 answer at
516-522 cannot be reached and is not there. The order within the UI queue is
open. The user may cancel or clear while a dialog is open, which the disabled
main window prevents: the model has more behaviours than the program. `MaxDup`
stands for the 9999 of `MakeUniquePathW`; the model does not exhaust it.

*overlap.* A session installed while a thread is at work for another one, and
those others, are in this history variable. `DoneMeansReceived` excludes them
because without the exclusion it is false: an old upload that finishes after a
new session has cleared the maps finds no accepted file uncounted, or adds its
count to a map of the new session. Files that share their id with another
(`Shared`) are the second exception: they have one token and one count, and the
session ends when either has arrived.

### Receiver

What of all this a sender can see: the session that holds the slot (`slot`), the
files of each session that got a token (`granted`) and those received in full
(`stored`), and while a session is open the files it still waits for (`missing`).
`Grant` is the answer to a prepare-upload, `Store` an upload that has passed its
checks, `Finish` its being counted and answered with 200, `Release` the loss of
the slot, for whichever reason. The promise is in what they may not do: no token
is given twice, nothing is stored without one, 200 means stored, and the session
ends with the last file it waits for. A session whose count is `muddled` promises
less: it may end before that, or never.

*Refinement.* `ReceiverPromise` is the specification of `Receiver` under a
mapping in `Incoming`. A session is the senders' from `PreparePublish` on
(`Given`), so a slot that is held by a session whose tokens are not out yet is
free for them (`Holder`); what is `Stored` is what the history holds; `Uncounted`
are the files that `AllDone` waits for; and a session is `Muddled` once it
overlaps another one, or has received a file of another length than announced
(`Inexact`), which the code logs and accepts. `PreparePublish`, `UploadRecord`
and `UploadFinish` are `Grant`, `Store` and `Finish`; `PrepareInstall`,
`PrepareDrop` and `CancelMark` are `Release` when they take the slot from a
session of the senders. All other steps stutter.

### Sending and Delivery

*State.* `xfer`, `thread` and `cancelReq` are fields of `Transfer`; `creating`
is the UI thread between `Add` and the assignment of the thread handle; `queue`
and `stack` are the PIN events and the nested batches of `HandleUiEvents`. A
worker has `pc`, `status` (`httpStatus`, which keeps its value when a call gets
no answer), the accepted files and those left. A call is a message in `net`;
the receiver handles it when it likes, also after the sender gave up, and its
answer may be lost. `slot`, `granted`, `missing`, `muddled` and `stored` are those
of `Receiver`, with a session for each prepare-upload of each job.

*Actions.* `UiSend`, `UiCreateThread`, `UiSetThread`, `UiCancel`, `UiClear`,
`UiDrain`, `UiAnswer`; the worker `Job...` in the order of `RunSendJob`;
`PeerGrants`, `PeerStores`, `PeerFinishes`, `PeerCancels` and `PeerReleases` are the
steps of `Receiver` with the answers to them, `PeerRefuses` and `PeerFails` the
answers without one. The receiver refuses for any reason the code of
`upload.cpp` gives; a busy one never answers 204 or 403 to a prepare-upload. It
may also stop reading (`PeerStopsReading`): the worker is in `SendAll` then, and
never comes back.

*Abstractions.* The V1 client calls, shutdown, byte counters, hashing (it has
no shared state), and an answer 200 whose body is incomplete.

*Refinement.* `Delivery` knows only what the receiver has agreed to (`want`), what
has arrived (`have`) and what the user is shown (`outcome`: open, done, off).
`Delivered` is its specification under the mapping `want <- accepted`, `have <-
Arrived` (in whichever session of the job), `outcome <- Outcome`. An answer to a
prepare-upload is its `Agree`, an upload that the receiver stores its `Arrive`, the
end of a worker its `Report` or `Drop`, a cancel or Clear its `Drop`; a worker that
begins after the user has canceled shows the transfer as running again (`Resume`,
what `TransferManager::SetState` allows). All other steps stutter.

### Download

*State.* The sharer has `size` (its disk), `current` and `listing` (the share
session, and the entries each session has had). A receiver has the `Transfer`
(`xfer`, `cancelReq`), and a worker with `pc`, its session, the targets chosen so
far (`path`), the files left and the one it is at, the `length` announced for it
and how much of it will come (`avail`). `disk` and `handle` are the download
directory, which all receivers share. `foreign` are the transfers whose link leads
to a sharer of another make (a link is typed in): its body may have any length
and may come in chunks. `logged` is what `DownloadSharedFile` has put into the log.

*Actions.* `UserShares` (`ShareManager::Create`), `UserEdits` (somebody changes or
deletes a file), `UserReceives`, `UserCancels`, `UserClears`; the worker
`JobListed` to `JobEnds` in the order of `RunReceiveJob` and `DownloadToFile`. The
two handlers are inside the call that reaches them: `Listed` is
`HandlePrepareDownload`, `JobAnswered` and `JobReads` are `HandleDownload`.
`JobReadAll` is a body that has ended as announced, with the comparison with the
listed size, which only logs; `JobSpins` is the chunked body with a cut line that
`HttpClient` shows (`FileSpins`).

*Abstractions.* The check of a share's PIN (401 is one of the ways a list can
fail), MIME types, the order of files, chunks of a file within one unit.

### HttpConnection

The stream is a sequence of tokens: a head line, the number of a chunk-size
line, a unit of data, CR, LF. It is cut into segments at any token. `phase` is
where `ServeConnection` is (waiting for a head, in the handler, draining),
`reader` the `HttpBodyReader` with its pending bytes, `told` what the last
`Read` told the handler. `HeadReceives`, `FixedReceived` and `Fill` are the
three calls of `Recv` that bring something; `HeadStops` and `ReadStops` those
that bring nothing for 30 seconds or for ever. `ClientStopsReading` leaves the
thread in the `SendAll` of its answer. The handler may read as much of the body as
it likes before it answers. Not modelled: TLS, the 128 KB and 4 KB limits,
100-continue, clients that send a request before the last answer (bytes after
the body are dropped with `pending`), and data that looks like CR LF.

### HttpClient

*State.* `call` is what was asked for (a body in memory, a file with its announced
`length` and what ReadFile finds on `disk`, or a download), `phase` where the call
is, `wired` how much of the body is out, `buffer`, `status` and `body` the answer.
`peer`, `given` and `line` are the other end, its answer and the bytes of it under
way. *Actions.* `Connects`, `SendsRequest` (`PrepareRequest`), `SendsPiece`, `Told`
(the progress callback, where a cancel is seen), `FileShrank`; `HeadReceives` and
`HeadTaken` (`ReadResponseHead`, past interim answers); `BodyReceives`, `ChunkTaken`,
`LengthReached` and `BodyStops` (`ReadResponse`); `ReasonReceives`, `FileReads`,
`FileSpins`, `FileEnds` and `FileStops` (`DownloadToFile`). A `Recv` that brings
nothing, for whichever reason, is a `...Stops`. The peer answers when it likes
(`PeerAnswers`), with heads and framings that are well formed, goes away at any
moment with any part of its answer delivered (`PeerGoes`), or stays and reads no
more of the request (`PeerStopsReading`). *Abstractions.* TLS; the
limits on heads and size lines; of `HttpBodyReader`, whose steps are in
`HttpConnection`, what `Read` returns, and whether it does.

### Discovery

Ages instead of clocks, in units of 15 seconds. `Loop` is one turn of
`DiscoveryService::Run`: receive, answer (a register call that blocks for up to
`MaxCall` units), announce, start a scan, collect one, clean up. `RemoveExpired`
is two steps, since the code reads the clock before it takes the lock; `late`
are the devices updated in between, whose unsigned age is huge. Workers of a
scan take addresses from the shared index and probe them; a scan that is not
over after 60 seconds is given up and its workers go on as strays (one scan's
strays at most, a bound). `HttpRegister`, `Receive`, `Refresh` and `Tick` are
the environment. Time passes only while the loop waits for a datagram or a
call, so a turn takes less than a unit: local work is instantaneous, which is
what makes the bounds below exact. Not modelled: the data of a device, the
announcement at startup; Start and Stop are in `Lifecycle`.

### Records

*State.* `transferred`, `completed` and `doneBytes` are the counters of one
transfer; `entries` and `file` the history and its file, `writer` who has the file
open; `rows`, `next`, `count` and `picked` the history dialog. *Actions.* A
connection thread reports (`UploadReads`, `UploadSums`, `UploadStores`: the
report, the sum under the lock, the store after it), records and counts; `Save` is
three steps of any thread (snapshot under the lock, open, write); the dialog fills
its list entry by entry (`UiCounts`, `UiGets`), asks, and removes by position.
`Restart` is a kill and a new start at any moment: a file that was open is cut
anywhere. *Abstractions.* Dates, opening of files, the text of the JSON (`Json`).

### Lifecycle

*State.* `ini` and `config` are the file and `m_config`; the port stands for what is
in the file before the fingerprint, https for what comes after, since the order is
what matters. `server`, `tls`, `protocol` and `disc` are the services, `listener`,
`accepted`, `conn`, `handle`, `open` and `active` the pool, over a small set of
handles that Winsock gives out again. `failed` and `skipped` are history variables:
the settings that a write which failed has kept out of the file, and that a `Load`
has saved before it had read what follows the fingerprint. *Actions.* `Load` and
`LoadSecurity` (with the Save in between that a new fingerprint causes), `Save` one
key a step, which is written or not (`WriteKey`, `WriteFails`: the code does not
look), `StartServices`, `UserConfirms` and `ApplySettingChange` for the settings
dialog, `Announce`; `Accept`, `Admit` and `Conn` for the listener and a connection,
with both closes of its handle. The listener goes on until `HttpServer::Stop` lowers
`m_running` (`Running`), that is also while a shutdown waits for the discovery.
`UserQuits`, the four `Stop...` steps, `DrainUiEventsQuiet` and `Exit`; `Crash` and
`UserEdits` (the file is edited while the program is off). *Abstractions.* What a
connection does (`HttpConnection`, `Incoming`); the other settings, which are saved
alike.

### Json, Text and Codecs

Operators on sequences of bytes, one for each function of the source, with the
same loops; recursive, so for TLC only. `Codecs` builds the inputs step by step:
a JSON value by `Set` and `Append`, a string by one code point, a name or a
query by one byte, a file by one read. `Update` and `Final` of SHA-256 are modelled
with their buffer, and `blocks` is what the compression function is given; that
function is the one of the standard and stays out.

## 3. Runs

Distinct states are TLC's, under the symmetry of the cfg where there is one. A type
invariant that is proved (section 4) is not checked again.

| run | instance | checks | states |
|---|---|---|---|
| `incoming_files` | 1 session, 2 files of one name (one empty, one with a digest, ids that are not the keys; or both under one id), 2 threads | `DoneMeansReceived`; `ReceiverPromise` (a refinement) | 95,452 |
| `incoming_sessions` | 2 sessions, 1 file, 2 threads, a user's file in the way | `PromptAlive`, `OneDialog`, `HistoryVouched`, `RestingFilesRecorded`; `RequestsEnd`, `UserFilesKept`, `ReceiverPromise` | 392,803 |
| `incoming_same_name` | 1 session, 2 files of one name, 1 thread | `ReportedFilesPresent` **violated** | |
| `sending_jobs` | 2 jobs, 1 file, 1 PIN prompt each, 1 late request | `TransferAlive`, `PeerFreed`; `Delivered` (a refinement), `JobsEnd` | 844,514 |
| `download_jobs` | 2 receivers, 2 shares of 1 file each, all of one name, a user's file in the way | `ServedAsListed`, `NoPartialFile` | 1,412,831 |
| `download_ends` | 1 receiver, 2 shares of 2 files of two names, of one of them twice, or of 1 file; a sharer of either make | `DoneMeansListed`, `NoPartialFile`; `JobsEnd` | 694,881 |
| `http_connection` | 2 requests of 5 shapes | `BodyExact`, `AnswersInOrder`; `RequestsEnd` | 33,698 |
| `http_client` | 5 calls, 22 answers, pieces of 2 units | `RequestExact`, `ResponseExact`, `CancelHeeded`; `CallEnds` | 133,314 |
| `discovery` | 2 hosts, 2 workers, all times 1 unit | `QuietGone`, `ScanComplete`; `QuietOnly`, `RefreshFree` | 348,344 |
| `records` | 2 uploads of 2 units, 2 old records, 2 entries at most | `TypeOK`, `SavedUnlessRaced`, `DoneAddsUp`; `RemovesSelected` | 1,617,679 |
| `lifecycle` | 3 starts, 2 ports, 3 connections and 3 handles, 2 served at a time | `PoolExact`, `AnnouncedIsServed`, `SettingsKept`; `ExitEnds` | 840,091 |
| `codecs` | see the bounds | `JsonExact`, `TextExact`, `DigestChunked` | 401,869 |

### What they show

*Receiving.* Two connection threads can interleave prepare-upload, upload and
cancel of one or two sessions in every way, with every failure of a body, a
digest or an open, with the user answering, canceling and clearing, and with
the idle timeout. In all of it a prompt outlives the UI's use of it, one dialog
is open at a time, nothing unaccepted or unverified is recorded, no partial
file rests on disk, the user's own file is untouched, and a request always ends,
also one that arrives while another's dialog is open and is declined unseen. DONE
means received, but in sessions that overlap and for files that share their id.
What the senders see of it is the receiver that `sending_jobs` is checked with.

*Sending.* Whatever is lost, late, canceled or left unanswered, a worker never loses
its transfer, ends, and leaves it in a final state, unless its receiver stays
connected and stops reading; such a worker hangs, and the others do not. The user is
shown what `Delivery` allows, DONE only when every accepted file has arrived; and a
receiver is left busy only by a lost call, or by a count that is muddled.

*Sharing.* A receiver gets the file that was listed to it, or none, although all
share sessions use the same ids and a new one replaces the old at any time; a
file that became shorter or longer or went away does not make a DONE; no half
file stays, also where two workers fight for one target. A sharer of another make
may send another length than it listed: that is logged, unless it listed 0, and is
DONE. It may also send chunks with a cut line, and the worker never ends.

*Connection.* The handler gets exactly the body at every cut; an answer belongs
to its request; the thread gets away. Exceptions: a line of the chunked framing cut
in two (`LineCut`), a client that does not read its answer (`blocked`), a read that
failed, and the CR LF of the last chunk, which `HttpBodyReader`
leaves and the next head is refused for (400).

*Calls.* At every cut, and wherever the peer goes away, a call that succeeds has
sent the body it announced and returns the answer to it with its whole body; a
cancel lets one more piece out; every call returns. Exceptions: a body without a
length, which ends where nothing more comes, a peer that stays and does not read the
request (`blocked`), and a download in chunks with a cut line, where
`HttpBodyReader` keeps the worker as it keeps a thread of the server.

*Discovery.* The time bound `QuietGone` is tight: with one unit less TLC finds a
violation. A device leaves only when it was quiet, or in the one race with the
clock; a Refresh starts a scan unless it falls between the end of one and its
collection.

*Records.* At rest the file is the list, the counter is the sum, and what was
deleted is what was selected. Exceptions, and only these: saves that overlapped
or could not open the file (`raced`), reports that overlapped or files that failed
(`mixed`), and a list that has moved under the dialog (`moved`). A restart finds
what the file held, also cut.

*Lifecycle.* The pool's count is exact and no handle is lost on any of the ways a
connection can end or be refused, also during a shutdown; two connections that are
served have each its own handle; a kill between two keys of a Save leaves each
setting old or new; the program exits though a connection waits for the user.
Exceptions: a handle hit by the second close (`stolen`), a port changed in this
run, a key whose write has failed (`failed`), and what follows a fingerprint that is
missing from the file, removed by hand or never written (`skipped`).

*Codecs.* What is written is read back, in both spellings of a character; no
object or array that was cut is accepted; no damage yields a value that could
not have been sent; PINs, session ids and share URLs survive their quoting;
names can be stored, but for the three cases `NameStorable` states; the digest is
independent of the reads.

### Bounds

- `Incoming`: two threads are enough for every pair of critical sections to
  interleave, and every property relates two of them at most; the theorems
  hold for any number. One session with two files brings out the counting of a
  session (the empty file, which counts without an upload, and two files under
  one id included); two sessions with one file bring out the taking over of the
  slot, and a prompt that arrives while another is on the screen. `MaxBytes = 1`
  tells nothing, part (a body of one unit that fails before or after it) and
  all apart; a file of one unit without a digest may arrive with none, which is
  how a length can be wrong (in `incoming_files`). Two sessions of two files, and
  wrong lengths in sessions that overlap, are beyond a run of minutes, and covered
  by the proofs.
- `Sending`: two jobs compete for the receiver and for nested PIN dialogs, one after
  another in one batch or one inside the other. At the bound `MaxAsks` the next
  prompt cannot be made, and the model takes the way of a prompt that fails.
  `MaxLate = 1`: one request at a time may still reach the receiver after its sender
  has given up; a second one is lost. Transfers of several files, and more prompts,
  are left to the theorems, which are for all (`Delivered` among them).
- `Download`: two receivers of one name share a target; two shares replace each
  other; a list has two files, or one file twice under one name; a length of 0 or
  1 grows and shrinks. `download_jobs` has the sharer of this program only
  (`Foreign = {}`): what one of another make may send does not depend on a second
  receiver, and `download_ends` has it.
- `HttpConnection`: the second request shows what the first leaves behind;
  three also pass. Shapes: no body, a fixed one with and without keep-alive,
  one chunk and two.
- `HttpClient`: a file of three units is a full piece and a short one; it shrinks
  within the first piece or grows past the second. Bodies of no, one and two chunks
  in each framing, with and without an interim answer; every cut of the bytes. The
  reason of a refused download is cut at 2 units (the 8192 bytes).
- `Discovery`: with all times at one unit each age reaches its limit and the
  limits meet; two addresses and two workers race for the index, for one
  address each and for the end. The theorems are for any times, hosts, workers.
- `Records`: two uploads are two writers of each counter and of the file; with
  the UI thread there are three savers. Two entries at most, so that receiving
  drops the oldest, from the list and under the dialog.
- `Lifecycle`: three runs, so that what one leaves in the file the next one reads,
  and what that one loses of it the third. Two connections served of three, so that
  the pool is full, and three handles, so that a handle closed by one connection may
  be the listener's or another one's by the second close. Peers connect in the first
  run (`Visited`) and settings are confirmed in the others (`Edited`): no step of the
  pool reads the settings or the file, none of the settings reads the pool, and the
  pool is empty at each start, so one run shows what it does; the file and its
  history pass through all three. The theorems have any `Visited` and `Edited`.
- `Codecs`: JSON values of at most 16 bytes before their last step, nested one level
  past `MaxDepth`, from null, booleans, a negative number and strings with quotes,
  control bytes and UTF-8; every cut, and every byte left out or replaced by one of
  nine that matter to the grammar. Strings of three code points at the borders of
  each length of UTF-8 and of the surrogates, halves that stand alone among them.
  Names up to 9 bytes of a letter, dot, space, slash and `NUL` with a limit of 8 cut
  to 6 (the 200 and 190 of the code). Parameters of 4 bytes out of all that quoting
  treats in its own way. A block of 4 bytes with a length of 1 (the 64 and 8), files
  of up to 9 bytes in reads of any sizes.

Deadlock is checked where the system never stops (`discovery`). Elsewhere it is
not: jobs end, connections close, inputs are used up, the program is off.

### Fairness

- Threads are scheduled by Windows: weak fairness of each thread's next step. In
  `Sending` less is enough: while a worker or the UI thread can go on, one of them
  does.
- Waits for something to receive have timeouts in the code: `Recv` 30 seconds, PIN
  prompts two minutes (in `Sending` and `Download` a timeout is a step of the
  thread), the joins of the shutdown a few seconds (`Ui` in `Lifecycle`). The
  receive prompt waits for the user, so `incoming_sessions` assumes that a dialog on
  the screen is answered in the end, and no other activity of the user.
- Waits to send have none. Sockets are in blocking mode (`network/tcp_socket.cpp:144`)
  and nobody sets `SO_SNDTIMEO`, so `SendAll` (`:164`) returns when the peer reads,
  goes, or never. `PeerStopsReading` (`Sending`, `HttpClient`) and
  `ClientStopsReading` (`HttpConnection`) lead to a state "blocked" without a step:
  a send may also be late, which is a step that is not taken yet. Where a model has
  no such state what is sent fits into the send buffer of its connection: the
  register call of `Discovery`, the GET of `Download`. A handler of `Incoming` has
  ended before its answer is sent; that is `HttpConnection`.
- Nothing makes a peer send, answer or deliver, or the idle time of a session run
  out; in `HttpConnection` and `HttpClient` no byte ever has to come.
- `JobsEnd` of `Sending` depends on the user in one way: `RunSendJob` asks for a
  PIN as often as the receiver wants one and the user enters one. The bound on
  prompts is the assumption that the user gives up at last.
- `RefreshFree` needs the discovery thread, the end of a scan and the workers.

## 4. Proofs

All theorems are for any values of the constants under the named assumptions
of the modules, which TLC evaluates on the instances.

**Incoming** (`BoundsAssumption`, `FilesAssumption`, `NoneAssumption`,
`AskAssumption`, `OffersAssumption`). The safety properties are not inductive:
that a prompt has a waiting owner needs that sessions are not shared by two
requests, which needs that a fresh session is unknown everywhere, which needs
the types. `StructInv` is that closure:

- `SlotInv`, `OfferInv`, `TokenInv`, `JobInv`: whatever names a session names
  one that was offered, and a token is for an id that its accepted file (`entry`)
  has named;
- `OwnInv`, `AloneInv`: a prepare-upload that has not installed its session is
  alone in knowing it;
- `PromptInv`: a prompt is where the step of its thread says;
- `UploadInv`, `HandleInv`: an upload past a check has passed it, and an open
  file holds what its thread has read.

`IncomingProofs` proves it inductive, one lemma per action (`Struct...`), with
`StructStep`, `StructForget`, `StructPrompts` and `StructTable` for actions that
leave the same parts alone: theorem `Structure`. To it are added

- `CleanInv`, about a session that overlaps no other: the maps are its own, the id
  of each accepted file has an entry or is about to get one, the file of a thread at
  work is the one its id stands for, and what is counted is recorded. With
  `StructInv` it is inductive (`CleanNext`) and gives `DoneTheorem`;
- `DiskInv`, about files at rest: about to be deleted, about to be recorded as
  they are, or recorded (`DiskNext`). It gives `RestingTheorem`;
- `PromptTheorem` and `TypeTheorem` directly from `Structure`;
- `HistoryTheorem`: `HistoryVouched` is inductive beside `StructInv` (`HistoryWriters`:
  the only action that matters);
- `DialogInv`, that a dialog on the screen has raised `modalActive`: with the
  theorem's own statement it is inductive, since `UserAnswer`, which lowers the
  flag, takes down the only dialog there is (`DialogTheorem`);
- `UserInv`, about a file that was there before: no target that is entered, and no
  upload that was given one, is its path. With `DiskWriters` (who changes a file) it
  gives `UserFilesTheorem`, which has a hypothesis: `NumberLeft`, that
  `MakeUniquePathW` finds a free number. Without it the property is false, since the
  code then returns the plain name, whatever is there. The hypothesis holds in all
  states of `incoming_sessions`, where `MaxDup` leaves a number for every file;
- `CountInv`, that every entry has a count and that no session is installed without
  a file. With `CleanInv` it makes `AllDone` exact: in a session that is not muddled
  the entries are the accepted files, each has a count, and a file that was recorded
  with its length is not waited for any more. Each kind of step a sender sees maps to
  its step of `Receiver` (`PromiseGrant`, `PromiseStore`, `PromiseFinish`,
  `PromiseRelease`), the others to none (`PromiseStutter`; an entry is made only for a
  session that is not the senders' yet, `PromiseEntry`): `ReceiverTheorem`.

So the two sides are proved against one another. `Sending` uses the steps of
`Receiver` and nothing else of the receiver, and `Incoming` takes no others: what
`SendingProofs` shows of DONE, of the files that have arrived and of the session that
is left behind holds with the receiver of this program at the other end.

**Discovery** (`TimesAssumption`, `ScanAssumption`). `TypeCorrect`. `SeenInv`
(`lastSeen` is the age since the device was heard) with `ListedStep` (only
`RemoveExpired` removes) gives `QuietOnlyTheorem`. `TimeInv` bounds every age by
where the loop is and how long its call has taken; it gives `QuietGoneTheorem`
and `AnnouncedTheorem`. `ScanInv` (an address not asked is ahead of the index
or with a worker) gives `ScanTheorem`.

**Sending** (`FilesAssumption`, `AsksAssumption`, `LateAssumption`,
`NoneAssumption`). `TypeTheorem`; `HeldInv`: a transfer whose worker runs is in the
table, and as long as its thread handle is not stored there the UI thread is inside
`SendFiles`, and clears nothing (`AliveTheorem`). For the refinement,
`SentMeansReceived` is not inductive: what counts is what has been taken off the
list. `ProgressInv` says that a worker before the answer wants nothing, that what is
off its list is stored in its own session (`Own`, that of its last try), and that an
upload that was answered with success is stored, since only the answer to the very
request it waits for (`Outstanding`) reaches it; `NetInv` that every upload on its
way is of an accepted file. With both, each step maps to a step of `Delivery` or to
none (`RefineWorker`, `RefinePeer`, `RefineStep`): `DeliveredTheorem`, for any
number of transfers, files and prompts. `PeerFreed` is about the end of a job and
depends on all that led there: `SlotInv` says of a job that lost nothing that its
one call on the way is the one it waits for (`OneCall`), and where it is while the
receiver has a session of it and knows what that misses (`OneSession`): the session
is that of its last try, and the job is `AtWork`, with files missing that it still
has to send, or canceling. Since `Receiver` ends such a session in the step that
counts its last file (`Finish`), a job that ends has either been served in full or
had its cancel answered: `FreedTheorem`. A `muddled` session is excepted, as in
section 5.

**Download** (`BoundsAssumption`, `ListsAssumption`, `UserFilesAssumption`,
`NoneAssumption`). `IInv` has four parts besides the types and `NoPartialFile`.
`JobInv`: what a worker has at each step, its targets those of its list. `OpenInv`:
a file is open for one worker, which is receiving it, and its content is what that
worker was sent. `DiskInv`: what this program has written is at a target of the
entry it is written for, and is the listed file; it gives `ServedTheorem`.
`CountInv`: what a worker has counted is there in full unless its target is
contested; it gives `ListedTheorem`. In full means as listed, or of the length a
foreign sharer sent, and then the log says so (`LogGrows`) or 0 was listed
(`AsListed`). `NoPartialFile` needs `OpenInv`, since a worker that fails deletes
whatever is at its target, which may be another worker's (`PartialTheorem`).

**Records** (`SizeAssumption`, `ThreadsAssumption`, `OldAssumption`). `TypeOK` says that
list, snapshots and file hold each record once and not too many of them, which is
not inductive: `FreshInv` (an upload that has not been recorded is in none of them) and
`PrefixInv` (the file that is open is the start of its snapshot) close it. `SaveInv`:
while saves do not overlap, the one under way has the list as it is
(`SavedTheorem`); `SumInv` says the same of reports and their sum (`AddsUpTheorem`).
`RowsInv` follows the dialog from its count over every row to the question; with
`PickedBound` (no more positions than rows were picked) and `Gone` (what is no longer in
the list was at a position that `Remove` was given) it gives the action property
`RemovesTheorem`. For the proofs the sum of bytes is the number of bytes there are, and
`Remove` is described by the positions that stay, in their order; both say what the
loops of the code compute, without recursion.

**Lifecycle** (`PortAssumption`, `NoneAssumption`, `PoolAssumption`,
`RunsAssumption`). `TypeTheorem`. `SettingsKept` speaks of the main loop only, and
is not inductive: a kill may come at any step of a `Save`. `SettingsInv` follows
what `Load` would make of the file (`StoredPort`, `StoredHttps`): it is what was
confirmed (`FileInv`) and what is in use (`UseInv`), and while a `Save` is under way
what that has written or is to replace (`SaveInv`); each but for the keys that a
failed write has kept out of the file (`LostPort`, `LostHttps`), which stay lost
until a `Save` has written what was confirmed. This gives `SettingsTheorem`.
`PhaseInv` (no services before they are started, and none stopped but by a program
that ends) and `ServedInv` (the server is as the settings want it, but for a changed
port) give `AnnouncedTheorem`. `PoolInv` adds that the handle the listener is at is
open and nobody else's (until a second close has hit one) and that a connection that
leaves has given up its own; it gives `PoolTheorem`, for any number of connections
and handles.

**HttpConnection** (`ShapesAssumption`, `RequestsAssumption`): any number of requests
with any chunks, cut anywhere. `BodyExact` says what a handler has read once it was
told of the end; how it got there depends on what the reader still has in front of it.
`ReaderInv` says that the reader is aligned with the request at hand: its pending bytes
and those on the line are the rest of the body it expects (`ChunksAhead`, `FixedAt`),
and what the handler has is the part before. A head is looked for behind what an earlier
body left over: `HeadInv` says that this is at most the CR LF of the last chunk as long
as no read has failed, and never holds the first line of a request. `OrderInv` follows.
Together they are inductive (`ConnectionTheorem`), and give `BodyTheorem` and
`OrderTheorem`. Bodies are concatenations of any number of chunks, so the lemmas about
bytes need induction over their number. The library's induction theorems take an
operator, but `NatLessThanWellFounded` and `WFMin` take sets: `NatSet` derives from them
that a set of numbers with 0 and all successors is `Nat`, and `Recursion` that a function
defined by recursion has its values. From these come what `Sums` and `Framed` are at each
step (`SumsIs`, `FramedIs`).

**HttpClient** (`CallsAssumption`, `AnswersAssumption`, `LimitsAssumption`).
`ReqInv` says at each step how much of the body is out: no more than announced while
pieces are sent, and all of it once the client waits for an answer
(`RequestTheorem`). `LateInv`: after the first piece that follows a cancel comes the
callback, which ends the call (`CancelTheorem`). What the call returns
(`ResponseTheorem`), for answers of any number of chunks of any size: `AnswerInv`
says that the bytes received and those on the line are, as long as the peer is
there, what is left of its answer from a boundary the client knows, and a beginning
of that once the peer has gone: a head (`AtHead`, the interim one or the real one),
a body in memory (`AtBody`; of a chunked one the chunk to be read, with `body` the
sum of those before it, `AtChunk`), or the body of a download (`AtFile`). A call
ends in success only at a boundary, so what it has by then is the body. A download
does not count chunks: `AllCome` shows that all data have come when the last size
line has, by induction on the chunks. The lemmas about bytes that both ends need
(`SumsIs`, `FramedIs`, `CutIs` and those below them) stand in both proof modules:
each extends its own end of the connection, whose names clash.

**Only model-checked.** Liveness (`RequestsEnd`, `JobsEnd`, `RefreshFree`,
`ExitEnds`, `CallEnds`): TLAPS has no rules for it here. What `Json`, `Text` and
`Codecs` compute (`JsonExact`, `TextExact`, `DigestChunked`): their definitions are
recursive. Every other property of the passing runs is stated by a theorem.

## 5. Where the code and its documents disagree

`incoming_same_name` is a run whose counterexample is a behaviour of the code:
targets are chosen before any file exists, so two files of one name get one path
and the second replaces the first; `src/architecture.md:210` says that they are
renamed.

The others are reached by the models as the exceptions of a property, or were met
while reading; no run of their own would say more.

- Two prepare-upload requests pass the check of the slot while the user is being
  asked; the second installs over the first, although `protocol/upload.cpp:444`
  answers 409 to prevent it (`overlap` in `DoneMeansReceived`).
- `HandlePrepareUpload` takes a file's id from its entry, not from the key of the
  entry (`protocol/upload.cpp:485`): two accepted files that name one id get one
  token, and DONE is reported with one of them never received (`Shared` in
  `DoneMeansReceived`).
- `SendAll` waits without a limit for a peer that stays connected and does not read
  (`network/tcp_socket.cpp:164`); its own 30 seconds (`:170`) are for sockets that do
  not block, which these are not. The worker or connection thread hangs, and the
  user's cancel is not seen (`blocked` in `JobsEnd`, `RequestsEnd` of
  `HttpConnection` and `CallEnds`).
- A stale session is dropped without a word to its transfer, which stays
  TS_TRANSFERRING; `core/transfer.cpp:316-319` says why that must not be.
- A file that changes between the offer and its upload is sent with its new length
  (`protocol/upload.cpp:196`). Without a digest (a file above 64 MB has none,
  `core/app.cpp:625`) the receiver logs the wrong length, keeps the file and answers
  200, but goes on waiting for the announced one (`protocol/upload.cpp:809`): the
  sender shows DONE and the session is held until its idle time is over (`Inexact`
  in `ReceiverPromise`, `muddled` in `PeerFreed`).
- A file announced as empty counts before it is there (`protocol/upload.cpp:584`): the
  session may end first, and the upload of the empty file is then refused (files of
  size 0 in `AllDone`, and outside `missing` in `Grant`).
- `FillPending` receives only when nothing is pending, so a size line or a CR LF in
  two segments keeps the thread busy for ever (`LineCut` in `RequestsEnd`).
- A download reads through the same `FillPending`: chunks with a cut line keep its
  worker for ever, and a cancel is not seen (`spins` in `CallEnds`, and in `JobsEnd` of
  `Download`, where only a sharer of another make sends in chunks).
- A body without a length is complete for `ReadResponse` when a `Recv` fails or the
  peer breaks off, for `DownloadToFile` when the peer closes early (`ResponseExact`,
  `network/http_client.cpp:272`).
- A read that fails also marks the body complete; its late rest is parsed as the
  next request (`failed` in `AnswersInOrder`), against `network/http_server.cpp:698`.
- A Refresh between the end of a scan and its collection is forgotten
  (`RefreshFree`), against `protocol/discovery.cpp:189`.
- The targets of a download are chosen before the files exist (`core/app.cpp:886`):
  two shared files of one name, or two downloads, replace one another
  (`Contested` in `DoneMeansListed`).
- A downloaded file that is not as long as it was listed is logged and counts
  (`protocol/download.cpp:608`); where 0 was listed it is not even logged (`AsListed`
  in `DoneMeansListed`).
- After a 401 to the list of a share the worker ends and leaves its transfer in
  TS_PIN_REQUIRED, although nobody is asked; Clear does not take it (`core/app.cpp:856`).
- The history dialog deletes by position; a file received meanwhile shifts them
  (`moved`), against the question in `LocalSendXP.rc:680`. Overlapping saves lose
  the newest record from the file (`raced`); overlapping sums leave an old one (`mixed`).
- A missing fingerprint, removed by hand or never written, costs the settings behind
  it in the file (`skipped`, `util/config.cpp:179`). `WriteIniString` does not look
  whether the write has failed (`util/config.cpp:31`): the setting confirmed is in
  use until the exit, and the next start has an old one (`failed`). A changed port
  is announced before it is served (`changed`), against `LocalSendXP.rc:631`.
- `ConnectionEntry` closes a handle twice (`network/http_server.cpp:411`): the second
  close may hit another connection (`stolen`).
- A name cut to 190 characters may end in a space; a very long extension is put
  back after the cut; the names of devices (`NUL`, `CON.txt`) are let through, as they
  were sent or as a cut has made them (`NameStorable`, `util/common.cpp:670-707`).
- `MakeUniquePathW` returns the plain name after 9999 copies (`util/common.cpp:728`);
  a cancel while files are hashed or the PIN box is open does not stop the next
  prepare-upload (`core/app.cpp:657`); a PIN box that outlives its prompt writes into
  freed memory (`core/app.cpp:322`).
- `src/architecture.md:730` has 403 for an upload without a session, the code 409;
  `:181` has devices expire after 90 seconds, the code after five minutes
  (`protocol/discovery.cpp:10-15`); `:180` has 400 ms for a probe, which bounds only
  the connect (`network/http_client.cpp:611`).

## 6. Plan

Done: all modules of section 2; proofs of `Incoming` (with the refinement of
`Receiver`), `Discovery`, `Sending` (with the refinement of `Delivery`), `Lifecycle`,
`HttpConnection`, `HttpClient`, `Download` and `Records`. What is left is what these
provers cannot reach: liveness under fairness, and what the recursive definitions of
`Json`, `Text` and `Codecs` compute for inputs of any size.

## 7. Not modelled

- TLS and its certificate file, the OpenSSL loader (`network/tls_socket.cpp`,
  `crypto/*`): wrappers; the models see their success or failure. Sockets appear as
  handles in `Lifecycle` and as calls elsewhere.
- Dialogs, tray, painting (`ui/*`) but for the event handling, the history dialog's
  list and its deletion, and what the settings dialog confirms; `main.cpp` beyond
  start and exit (the mutex of the single instance, the message loop).
- The compression function of SHA-256, UTF-16 conversion, dates and number formats.
  Base64 is called by nobody.
- The V1 calls. Limits on the length of heads and size lines.
- `TlsContext` writes its certificate once, not atomically: a file that a crash cut is
  not repaired, and TLS stays off. `Lifecycle` lets TLS fail at any start instead.
- `httpStatus` keeps an old 401 when a later prepare-upload gets no answer, so the PIN
  box opens again (`core/app.cpp:651`): in `Sending`, without a property of its own.
- Fractions and exponents in JSON numbers: the protocol sends integers.
- OverallPercent and the speed shown.
- Crashes in the middle of a transfer lose it, and nothing of it is persisted;
  the files that are, history and settings, have their crashes in `Records` and
  `Lifecycle`.
