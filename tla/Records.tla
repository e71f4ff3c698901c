------------------------------ MODULE Records ------------------------------
(***************************************************************************)
(* What the program keeps of a transfer while it runs and after it: the    *)
(* byte counters of the transfer table (TransferManager, src/core/         *)
(* transfer.cpp), the history and its file (HistoryStore, src/core/        *)
(* history.cpp), and the history dialog (src/ui/dialog_history.cpp).       *)
(*                                                                         *)
(* The connection threads of one transfer, a file each, report what they   *)
(* receive and record it when it is there; the UI thread shows the history *)
(* and removes from it.  A step is a critical section, or what lies        *)
(* between two of them.  The program may be killed at any time.            *)
(***************************************************************************)
EXTENDS Naturals, FiniteSets, SequencesExt

CONSTANTS
  Uploads,     \* files being received, a connection thread each; also their records
  UI,          \* the UI thread
  Old,         \* the history file of an earlier run, a sequence of records
  MaxEntries,  \* kMaxHistoryEntries
  Size         \* length of a file

Threads == Uploads \cup {UI}
Records == Uploads \cup ToSet(Old)

Nobody == "nobody"

ASSUME SizeAssumption == Size \in Nat \ {0} /\ MaxEntries \in Nat \ {0}
ASSUME ThreadsAssumption ==
  IsFiniteSet(Uploads) /\ UI \notin Uploads /\ Nobody \notin Threads
ASSUME OldAssumption ==
  /\ Old \in Seq(ToSet(Old)) /\ Len(Old) <= MaxEntries /\ IsInjective(Old)
  /\ ToSet(Old) \cap Uploads = {}

VARIABLES
  \* the transfer table
  transferred,  \* TransferFile::transferred
  completed,    \* TransferFile::completed
  doneBytes,    \* Transfer::doneBytes
  \* the history
  entries,      \* m_entries, the newest first
  file,         \* LocalSendXP.history
  writer,       \* the thread that has it open, exclusively (UI is one too)
  \* the threads
  pc,           \* the next step; "count" is what follows a save
  received, sum, data,
  \* the dialog
  rows,         \* what it shows: the record, and the index it had
  next, count,  \* FillHistoryList's loop
  picked,       \* the rows to delete
  \* what the properties need to know
  moved,        \* a record was added since FillHistoryList counted
  raced,        \* a save overlapped another one, or failed
  mixed         \* a report overlapped another one, or a file failed

table  == <<transferred, completed, doneBytes>>
store  == <<entries, file, writer>>
dialog == <<rows, next, count, picked>>
vars == <<transferred, completed, doneBytes, entries, file, writer, pc, received, sum, data,
          rows, next, count, picked, moved, raced, mixed>>

Saving == {"snap", "open", "write"}
Reporting == {"sum", "store"}
Steps == Saving \cup Reporting \cup {"idle", "body", "count", "ended"}
           \cup {"closed", "fill", "list", "delete?", "clear?"}

\* Mutant: one record too many.
TrimmedLate(list) == SubSeq(list, 1, IF Len(list) > MaxEntries + 1 THEN MaxEntries + 1 ELSE Len(list))

\* TrimLocked: the oldest go.
Trimmed(list) == SubSeq(list, 1, IF Len(list) > MaxEntries THEN MaxEntries ELSE Len(list))

\* HistoryStore::Load, at the start of the program.
Init ==
  /\ transferred = [u \in Uploads |-> 0] /\ completed = {} /\ doneBytes = 0
  /\ entries = Trimmed(Old) /\ file = Old /\ writer = Nobody
  /\ pc = [t \in Threads |-> IF t = UI THEN "closed" ELSE "idle"]
  /\ received = [u \in Uploads |-> 0] /\ sum = [u \in Uploads |-> 0]
  /\ data = [t \in Threads |-> << >>]
  /\ rows = << >> /\ next = 0 /\ count = 0 /\ picked = {}
  /\ moved = FALSE /\ raced = FALSE /\ mixed = FALSE

Goto(t, step) == pc' = [pc EXCEPT ![t] = step]
Others(t, steps) == \E o \in Threads \ {t} : pc[o] \in steps

-----------------------------------------------------------------------------
(* The body loop of HandleUpload, and the byte counters                     *)

UploadStarts(u) ==
  /\ pc[u] = "idle"
  /\ Goto(u, "body")
  /\ UNCHANGED <<table, store, received, sum, data, dialog, moved, raced, mixed>>

\* SetFileProgress, which RecomputeDone is to follow.
SetFileProgress(u, bytes) ==
  /\ transferred' = [transferred EXCEPT ![u] = bytes]
  /\ mixed' = Others(u, Reporting)
  /\ Goto(u, "sum")

\* A report every 150 ms, and one when the expected size is there.
UploadReads(u) ==
  /\ pc[u] = "body" /\ received[u] < Size
  /\ received' = [received EXCEPT ![u] = @ + 1]
  /\ \/ SetFileProgress(u, received'[u])
     \/ received'[u] < Size /\ UNCHANGED <<transferred, mixed, pc>>
  /\ UNCHANGED <<completed, doneBytes, store, sum, data, dialog, moved, raced>>

\* Canceled, not written, or another digest: SetFileError shows a full bar.
UploadFails(u) ==
  /\ pc[u] = "body"
  /\ \/ UNCHANGED <<transferred, mixed>>
     \/ transferred' = [transferred EXCEPT ![u] = Size] /\ mixed' = TRUE
  /\ Goto(u, "ended")
  /\ UNCHANGED <<completed, doneBytes, store, received, sum, data, dialog, moved, raced>>

\* The sum of what was transferred of some files: its bytes, one by one.
Bytes(files) == Cardinality({b \in files \X (1..Size) : b[2] <= transferred[b[1]]})
Total == Bytes(Uploads)

\* Mutant: only the files that are complete.
UploadSumsCompleted(u) ==
  /\ pc[u] = "sum"
  /\ sum' = [sum EXCEPT ![u] = Bytes(completed)]
  /\ Goto(u, "store")
  /\ UNCHANGED <<table, store, received, data, dialog, moved, raced, mixed>>

\* RecomputeDone, under the lock.
UploadSums(u) ==
  /\ pc[u] = "sum"
  /\ sum' = [sum EXCEPT ![u] = Total]
  /\ Goto(u, "store")
  /\ UNCHANGED <<table, store, received, data, dialog, moved, raced, mixed>>

\* UpdateProgress, under the lock again.
UploadStores(u) ==
  /\ pc[u] = "store"
  /\ doneBytes' = sum[u]
  /\ sum' = [sum EXCEPT ![u] = 0]
  /\ Goto(u, IF u \in completed THEN "ended" ELSE "body")
  /\ UNCHANGED <<transferred, completed, store, received, data, dialog, moved, raced, mixed>>

\* AddReceived, under the lock.
UploadRecords(u) ==
  /\ pc[u] = "body" /\ received[u] = Size
  /\ entries' = Trimmed(<<u>> \o entries)
  /\ moved' = (pc[UI] # "closed")
  /\ raced' = Others(u, Saving)
  /\ Goto(u, "snap")
  /\ UNCHANGED <<table, file, writer, received, sum, data, dialog, mixed>>

\* After AddReceived.
UploadCounts(u) ==
  /\ pc[u] = "count"
  /\ completed' = completed \cup {u}
  /\ SetFileProgress(u, Size)
  /\ UNCHANGED <<doneBytes, store, received, sum, data, dialog, moved, raced>>

-----------------------------------------------------------------------------
(* HistoryStore::Save, by whoever changed the list                          *)

SaveSnaps(t) ==
  /\ pc[t] = "snap"
  /\ data' = [data EXCEPT ![t] = entries]
  /\ Goto(t, "open")
  /\ UNCHANGED <<table, store, received, sum, dialog, moved, raced, mixed>>

\* WriteWholeFile: CREATE_ALWAYS, not shared.
SaveOpens(t) ==
  /\ pc[t] = "open" /\ writer = Nobody
  /\ writer' = t /\ file' = << >>
  /\ Goto(t, "write")
  /\ UNCHANGED <<table, entries, received, sum, data, dialog, moved, raced, mixed>>

\* Another thread has it open, or the disk refuses: a line in the log.
SaveSkips(t) ==
  /\ pc[t] = "open"
  /\ raced' = TRUE
  /\ data' = [data EXCEPT ![t] = << >>]
  /\ Goto(t, "count")
  /\ UNCHANGED <<table, store, received, sum, dialog, moved, mixed>>

SaveWrites(t) ==
  /\ pc[t] = "write" /\ Len(file) < Len(data[t])
  /\ file' = Append(file, data[t][Len(file) + 1])
  /\ UNCHANGED <<table, entries, writer, pc, received, sum, data, dialog, moved, raced, mixed>>

\* The end, or a write that fails.
SaveCloses(t) ==
  /\ pc[t] = "write"
  /\ writer' = Nobody
  /\ raced' = (raced \/ file # data[t])
  /\ data' = [data EXCEPT ![t] = << >>]
  /\ Goto(t, "count")
  /\ UNCHANGED <<table, entries, file, received, sum, dialog, moved, mixed>>

-----------------------------------------------------------------------------
(* The history dialog, on the UI thread                                     *)

UiOpens ==
  /\ pc[UI] = "closed"
  /\ Goto(UI, "count")
  /\ UNCHANGED <<table, store, received, sum, data, dialog, moved, raced, mixed>>

\* FillHistoryList counts, then gets one record after the other.
UiCounts ==
  /\ pc[UI] = "count"
  /\ rows' = << >> /\ next' = 1 /\ count' = Len(entries) /\ picked' = {}
  /\ moved' = FALSE
  /\ Goto(UI, "fill")
  /\ UNCHANGED <<table, store, received, sum, data, raced, mixed>>

UiGets ==
  /\ pc[UI] = "fill"
  /\ IF next <= count
     THEN /\ next' = next + 1
          /\ rows' = IF next <= Len(entries)
                     THEN Append(rows, [record |-> entries[next], index |-> next]) ELSE rows
          /\ UNCHANGED pc
     ELSE Goto(UI, "list") /\ UNCHANGED <<next, rows>>
  /\ UNCHANGED <<table, store, received, sum, data, count, picked, moved, raced, mixed>>

\* OnDeleteSelected asks about the selected rows, OnClearHistory about all.
UiAsks ==
  /\ pc[UI] = "list"
  /\ \/ /\ \E chosen \in SUBSET (1..Len(rows)) : chosen # {} /\ picked' = chosen
        /\ Goto(UI, "delete?")
     \/ entries # << >> /\ Goto(UI, "clear?") /\ UNCHANGED picked
  /\ UNCHANGED <<table, store, received, sum, data, rows, next, count, moved, raced, mixed>>

UiDeclines ==
  /\ pc[UI] \in {"delete?", "clear?"}
  /\ picked' = {}
  /\ Goto(UI, "list")
  /\ UNCHANGED <<table, store, received, sum, data, rows, next, count, moved, raced, mixed>>

\* Mutant: the positions of the rows, counted from one, not from zero.
IndexesShifted == {rows[k].index + 1 : k \in picked}

\* SelectedIndexes: the positions the records had when the list was filled.
Indexes == {rows[k].index : k \in picked}

\* What is left of a list when only the positions in kept are, in their order.
Increasing(kept) ==
  {at \in [1..Cardinality(kept) -> kept] :
     \A m, n \in 1..Cardinality(kept) : m < n => at[m] < at[n]}
Rests(list, kept) == {[n \in 1..Cardinality(kept) |-> list[at[n]]] : at \in Increasing(kept)}

\* Mutant: the file is left as it is.
UiRemovesOnly ==
  /\ pc[UI] = "delete?"
  /\ entries' \in Rests(entries, DOMAIN entries \ Indexes)
  /\ raced' = Others(UI, Saving)
  /\ Goto(UI, "count")
  /\ UNCHANGED <<table, file, writer, received, sum, data, dialog, moved, mixed>>

\* HistoryStore::Remove; it saves if something was removed.
UiRemoves ==
  /\ pc[UI] = "delete?"
  /\ IF Indexes \cap DOMAIN entries = {}
     THEN Goto(UI, "count") /\ UNCHANGED <<entries, raced>>
     ELSE /\ entries' \in Rests(entries, DOMAIN entries \ Indexes)
          /\ raced' = Others(UI, Saving)
          /\ Goto(UI, "snap")
  /\ UNCHANGED <<table, file, writer, received, sum, data, dialog, moved, mixed>>

UiClears ==
  /\ pc[UI] = "clear?"
  /\ entries' = << >>
  /\ raced' = Others(UI, Saving)
  /\ Goto(UI, "snap")
  /\ UNCHANGED <<table, file, writer, received, sum, data, dialog, moved, mixed>>

UiCloses ==
  /\ pc[UI] = "list"
  /\ Goto(UI, "closed")
  /\ rows' = << >> /\ next' = 0 /\ count' = 0 /\ picked' = {} /\ moved' = FALSE
  /\ UNCHANGED <<table, store, received, sum, data, raced, mixed>>

-----------------------------------------------------------------------------

\* The program is killed or the power fails, and is started again: what was
\* being received is lost, the history is what the file holds (Load).
Restart ==
  /\ transferred' = [u \in Uploads |-> 0] /\ completed' = {} /\ doneBytes' = 0
  /\ entries' = Trimmed(file) /\ writer' = Nobody
  /\ pc' = [t \in Threads |-> IF t = UI THEN "closed"
                              ELSE IF pc[t] = "idle" THEN "idle" ELSE "ended"]
  /\ received' = [u \in Uploads |-> 0] /\ sum' = [u \in Uploads |-> 0]
  /\ data' = [t \in Threads |-> << >>]
  /\ rows' = << >> /\ next' = 0 /\ count' = 0 /\ picked' = {}
  /\ moved' = FALSE /\ raced' = FALSE /\ mixed' = FALSE
  /\ UNCHANGED file

Next ==
  \/ \E u \in Uploads : \/ UploadStarts(u) \/ UploadReads(u) \/ UploadFails(u)
                        \/ UploadSums(u) \/ UploadStores(u) \/ UploadRecords(u)
                        \/ UploadCounts(u)
  \/ \E t \in Threads : SaveSnaps(t) \/ SaveOpens(t) \/ SaveSkips(t) \/ SaveWrites(t) \/ SaveCloses(t)
  \/ UiOpens \/ UiCounts \/ UiGets \/ UiAsks \/ UiDeclines \/ UiRemoves \/ UiClears \/ UiCloses
  \/ Restart

Spec == Init /\ [][Next]_vars

-----------------------------------------------------------------------------
(* Properties                                                               *)

\* Every variable has its type; the history holds each record once, and not
\* more than MaxEntries of them (kMaxHistoryEntries).
TypeOK ==
  /\ transferred \in [Uploads -> 0..Size] /\ completed \subseteq Uploads
  /\ doneBytes \in Nat
  /\ entries \in Seq(Records) /\ file \in Seq(Records) /\ data \in [Threads -> Seq(Records)]
  /\ \A list \in {entries, file} \cup {data[t] : t \in Threads} :
       IsInjective(list) /\ Len(list) <= MaxEntries
  /\ pc \in [Threads -> Steps]
  /\ writer \in Threads \cup {Nobody}
  /\ \A t \in Threads : pc[t] = "write" <=> writer = t
  /\ received \in [Uploads -> 0..Size] /\ sum \in [Uploads -> Nat]
  /\ rows \in Seq([record: Records, index: 1..MaxEntries])
  /\ next \in 0..(MaxEntries + 1) /\ count \in 0..MaxEntries
  /\ picked \subseteq DOMAIN rows
  /\ moved \in BOOLEAN /\ raced \in BOOLEAN /\ mixed \in BOOLEAN

\* When nobody is saving, the file holds the list, so a restart shows what the
\* user has seen; but where two saves overlapped: the snapshots are taken under
\* the lock and written after it, the second writer may find the file open.
SavedUnlessRaced == (\A t \in Threads : pc[t] \notin Saving) /\ ~raced => file = entries

\* "Delete the %d selected record(s) from the history?" (LocalSendXP.rc:680):
\* never more of them, and exactly these unless a file was received since the
\* list was filled: HistoryStore::Remove goes by position.
RemovesSelected ==
  [][pc[UI] = "delete?" /\ pc'[UI] \in {"snap", "count"} =>
       LET gone == ToSet(entries) \ ToSet(entries') IN
       /\ Cardinality(gone) <= Cardinality(picked)
       /\ ~moved => gone = {rows[k].record : k \in picked}]_vars

\* The transfer's doneBytes never exceeds what its files say, and is their
\* sum when no report is under way; but where two reports overlapped (the
\* older sum may be stored last) or a file failed.
DoneAddsUp ==
  /\ doneBytes <= Total
  /\ (\A u \in Uploads : pc[u] \notin Reporting) /\ ~mixed => doneBytes = Total
=============================================================================
