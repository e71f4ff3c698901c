---------------------------- MODULE RecordsProofs ----------------------------
(***************************************************************************)
(* Theorems about Records, for any number of files received at once, any   *)
(* history and any bound on it.                                            *)
(*                                                                         *)
(* The history: a record enters the list once, since its file has not been *)
(* recorded before (FreshInv); what is written of a snapshot is the start  *)
(* of it (PrefixInv); and while no save overlaps another one, the one that *)
(* is under way has the list as it is (SaveInv).  The counters: while no   *)
(* report overlaps another one, the one that is under way stores the sum   *)
(* of what the files say (SumInv).                                         *)
(***************************************************************************)
EXTENDS Records, SequenceTheorems, FiniteSetTheorems, TLAPS

ListOK(list) == list \in Seq(Records) /\ IsInjective(list) /\ Len(list) <= MaxEntries

\* A file that is not recorded yet is in no list.
Unrecorded(u) == pc[u] \in {"idle", "body"} \/ (pc[u] \in Reporting /\ u \notin completed)

FreshInv == \A u \in Uploads :
  /\ Unrecorded(u) =>
       /\ u \notin ToSet(entries) /\ u \notin ToSet(file)
       /\ \A t \in Threads : u \notin ToSet(data[t])
  /\ pc[u] \in {"idle", "body"} => u \notin completed

\* What was written so far.
PrefixInv == \A t \in Threads : pc[t] = "write" =>
  Len(file) <= Len(data[t]) /\ \A i \in 1..Len(file) : file[i] = data[t][i]

\* A row shows the record at its position, unless one was added since.
Showing == {"fill", "list", "delete?", "clear?"}

RowsInv ==
  /\ pc[UI] = "fill" => next >= 1
  /\ pc[UI] \in Showing /\ ~moved =>
       \A k \in DOMAIN rows :
         rows[k].index \in DOMAIN entries /\ entries[rows[k].index] = rows[k].record

\* A save that overlaps no other one writes the list.
SaveInv == ~raced =>
  /\ \A t, o \in Threads : pc[t] \in Saving /\ pc[o] \in Saving => t = o
  /\ \A t \in Threads : pc[t] \in {"open", "write"} => data[t] = entries
  /\ (\A t \in Threads : pc[t] \notin Saving) => file = entries

\* The counters never run ahead of the files; a report that overlaps no other
\* one stores their sum.
SumInv ==
  /\ pc[UI] \notin Reporting
  /\ \A u \in Uploads : Unrecorded(u) => transferred[u] <= received[u]
  /\ doneBytes <= Total /\ \A u \in Uploads : sum[u] <= Total
  /\ ~mixed =>
       /\ \A t, o \in Threads : pc[t] \in Reporting /\ pc[o] \in Reporting => t = o
       /\ \A u \in Uploads : pc[u] = "store" => sum[u] = Total
       /\ (\A u \in Uploads : pc[u] \notin Reporting) => doneBytes = Total

IInv == TypeOK /\ FreshInv /\ PrefixInv /\ RowsInv /\ SaveInv /\ SumInv

-----------------------------------------------------------------------------
(* Lists of records                                                         *)

LEMMA ListTrimmed ==
  ASSUME NEW s \in Seq(Records), IsInjective(s)
  PROVE  /\ ListOK(Trimmed(s)) /\ ToSet(Trimmed(s)) \subseteq ToSet(s)
         /\ Len(s) <= MaxEntries => Trimmed(s) = s
<1> DEFINE n == IF Len(s) > MaxEntries THEN MaxEntries ELSE Len(s)
           t == SubSeq(s, 1, n)
<1>1. Len(s) \in Nat /\ DOMAIN s = 1..Len(s) /\ MaxEntries \in Nat
  BY LenProperties, SizeAssumption
<1>2. n \in Nat /\ n <= Len(s) /\ n <= MaxEntries
  BY <1>1
<1>3. \A i \in 1..n : s[i] \in Records
  BY <1>1, <1>2, ElementOfSeq
<1> HIDE DEF n
<1>4. /\ t \in Seq(Records) /\ Len(t) = IF 1 <= n THEN n - 1 + 1 ELSE 0
      /\ \A i \in 1..(n - 1 + 1) : t[i] = s[1 + i - 1]
  BY <1>2, <1>3, SubSeqProperties
<1>5. Len(t) = n /\ DOMAIN t = 1..n /\ \A i \in 1..n : t[i] = s[i]
  <2>1. Len(t) = n
    BY <1>2, <1>4
  <2>2. DOMAIN t = 1..n
    BY <1>4, <2>1, LenProperties
  <2>3. \A i \in 1..n : t[i] = s[i]
    BY <1>2, <1>4
  <2> QED
    BY <2>1, <2>2, <2>3
<1> HIDE DEF t
<1>6. IsInjective(t) /\ ToSet(t) \subseteq ToSet(s)
  BY <1>1, <1>2, <1>5 DEF IsInjective, ToSet
<1>7. Trimmed(s) = t
  BY DEF Trimmed, t, n
<1>8. ASSUME Len(s) <= MaxEntries
      PROVE  Trimmed(s) = s
  <2>1. ~(Len(s) > MaxEntries)
    BY <1>1, <1>8
  <2>2. SubSeq(s, 1, Len(s)) = s
    BY SubSeqFull
  <2> QED
    BY <2>1, <2>2 DEF Trimmed
<1> QED
  BY <1>2, <1>4, <1>5, <1>6, <1>7, <1>8 DEF ListOK

LEMMA ListAdded ==
  ASSUME NEW s \in Seq(Records), IsInjective(s), NEW r \in Records, r \notin ToSet(s)
  PROVE  /\ <<r>> \o s \in Seq(Records) /\ IsInjective(<<r>> \o s)
         /\ ToSet(<<r>> \o s) = {r} \cup ToSet(s)
<1> DEFINE t == <<r>> \o s
<1>1. Len(s) \in Nat /\ DOMAIN s = 1..Len(s) /\ <<r>> \in Seq(Records) /\ Len(<<r>>) = 1
  BY LenProperties
<1>2. /\ t \in Seq(Records) /\ Len(t) = 1 + Len(s)
      /\ \A i \in 1..(1 + Len(s)) : t[i] = IF i <= 1 THEN <<r>>[i] ELSE s[i - 1]
  BY <1>1, ConcatProperties
<1>3. DOMAIN t = 1..(1 + Len(s)) /\ t[1] = r /\ \A i \in 1..Len(s) : t[i + 1] = s[i]
  <2>1. DOMAIN t = 1..(1 + Len(s))
    BY <1>2, LenProperties
  <2>2. t[1] = r
    BY <1>1, <1>2
  <2>3. \A i \in 1..Len(s) : t[i + 1] = s[i]
    BY <1>1, <1>2
  <2> QED
    BY <2>1, <2>2, <2>3
<1> HIDE DEF t
<1>4. \A i \in DOMAIN t : i = 1 \/ (i - 1 \in 1..Len(s) /\ t[i] = s[i - 1])
  BY <1>1, <1>3
<1>5. \A i \in DOMAIN s : s[i] # r
  BY DEF ToSet
<1>6. IsInjective(t)
  BY <1>1, <1>3, <1>4, <1>5 DEF IsInjective
<1>7. ToSet(t) = {r} \cup ToSet(s)
  <2>1. ASSUME NEW x \in ToSet(t)
        PROVE  x \in {r} \cup ToSet(s)
    BY <2>1, <1>1, <1>3, <1>4 DEF ToSet
  <2>2. ASSUME NEW x \in {r} \cup ToSet(s)
        PROVE  x \in ToSet(t)
    <3>1. CASE x = r
      BY <3>1, <1>1, <1>3 DEF ToSet
    <3>2. ASSUME NEW i \in 1..Len(s), x = s[i]
          PROVE  x \in ToSet(t)
      <4>1. i + 1 \in DOMAIN t /\ t[i + 1] = x
        BY <1>1, <1>3, <3>2
      <4> QED
        BY <4>1 DEF ToSet
    <3> QED
      BY <1>1, <2>2, <3>1, <3>2 DEF ToSet
  <2> QED
    BY <2>1, <2>2
<1> QED
  BY <1>2, <1>6, <1>7 DEF t

\* What Remove leaves of a list: the records at the positions it keeps.
LEMMA ListRest ==
  ASSUME NEW list, ListOK(list), NEW kept \in SUBSET DOMAIN list, NEW rest \in Rests(list, kept)
  PROVE  ListOK(rest) /\ ToSet(rest) = {list[i] : i \in kept}
<1> DEFINE n == Cardinality(kept)
<1>1. list \in Seq(Records) /\ Len(list) \in Nat /\ DOMAIN list = 1..Len(list)
  BY LenProperties DEF ListOK
<1>2. IsFiniteSet(DOMAIN list) /\ Cardinality(DOMAIN list) = Len(list)
  <2>1. IsFiniteSet(1..Len(list))
        /\ Cardinality(1..Len(list)) = IF 1 > Len(list) THEN 0 ELSE Len(list) - 1 + 1
    BY <1>1, FS_Interval
  <2>2. (IF 1 > Len(list) THEN 0 ELSE Len(list) - 1 + 1) = Len(list)
    BY <1>1
  <2> QED
    BY <1>1, <2>1, <2>2
<1>3. IsFiniteSet(kept) /\ n \in Nat /\ n <= Len(list)
  BY <1>2, FS_Subset, FS_CardinalityType
<1>4. PICK at \in Increasing(kept) : rest = [m \in 1..n |-> list[at[m]]]
  BY DEF Rests
<1>5. /\ at \in [1..n -> kept]
      /\ \A k, m \in 1..n : k < m => at[k] < at[m]
  BY <1>4 DEF Increasing
<1>6. IsFiniteSet(1..n) /\ Cardinality(1..n) = n
  BY <1>3, FS_Interval
<1> HIDE DEF n
<1>7. \A m \in 1..n : at[m] \in kept /\ at[m] \in 1..Len(list) /\ list[at[m]] \in Records
  BY <1>1, <1>5, ElementOfSeq
<1>8. rest \in [1..n -> Records]
  BY <1>4, <1>7
<1>9. rest \in Seq(Records) /\ Len(rest) = n /\ DOMAIN rest = 1..n
  BY <1>3, <1>8
<1>10. \A k, m \in 1..n : at[k] = at[m] => k = m
  <2> SUFFICES ASSUME NEW k \in 1..n, NEW m \in 1..n, k # m
               PROVE  at[k] # at[m]
    OBVIOUS
  <2>1. k < m \/ m < k
    BY <1>3
  <2>2. at[k] \in Int /\ at[m] \in Int
    BY <1>1, <1>7
  <2> QED
    BY <1>5, <2>1, <2>2
<1>11. IsInjective(rest)
  BY <1>1, <1>4, <1>7, <1>9, <1>10 DEF ListOK, IsInjective
<1>12. Len(rest) <= MaxEntries
  BY <1>1, <1>3, <1>9, SizeAssumption DEF ListOK
<1>13. \A i \in kept : \E m \in 1..n : at[m] = i
  <2>1. at \in Injection(1..n, kept)
    BY <1>5, <1>10 DEF Injection, IsInjective
  <2>2. at \in Surjection(1..n, kept)
    BY <1>3, <1>6, <2>1, FS_Injection DEF n
  <2> QED
    BY <2>2 DEF Surjection
<1>14. ToSet(rest) = {list[i] : i \in kept}
  BY <1>4, <1>7, <1>9, <1>13 DEF ToSet
<1> QED
  BY <1>9, <1>11, <1>12, <1>14 DEF ListOK

\* One more record of a snapshot is written.
LEMMA ListWritten ==
  ASSUME NEW s, ListOK(s), NEW snap, ListOK(snap), Len(s) < Len(snap),
         \A i \in 1..Len(s) : s[i] = snap[i]
  PROVE  LET t == Append(s, snap[Len(s) + 1]) IN
         /\ ListOK(t) /\ Len(t) <= Len(snap) /\ \A i \in 1..Len(t) : t[i] = snap[i]
         /\ ToSet(t) \subseteq ToSet(snap)
<1> DEFINE t == Append(s, snap[Len(s) + 1])
<1>1. /\ Len(s) \in Nat /\ Len(snap) \in Nat /\ DOMAIN snap = 1..Len(snap)
      /\ s \in Seq(Records) /\ snap \in Seq(Records) /\ MaxEntries \in Nat
  BY LenProperties, SizeAssumption DEF ListOK
<1>2. Len(s) + 1 \in 1..Len(snap) /\ snap[Len(s) + 1] \in Records
  BY <1>1, ElementOfSeq
<1>3. /\ t \in Seq(Records) /\ Len(t) = Len(s) + 1 /\ t[Len(s) + 1] = snap[Len(s) + 1]
      /\ \A i \in 1..Len(s) : t[i] = s[i]
  BY <1>1, <1>2, AppendProperties
<1> HIDE DEF t
<1>4. DOMAIN t = 1..(Len(s) + 1) /\ \A i \in 1..Len(t) : t[i] = snap[i]
  BY <1>1, <1>3, LenProperties
<1>5. ListOK(t)
  BY <1>1, <1>2, <1>3, <1>4 DEF ListOK, IsInjective
<1>6. ToSet(t) \subseteq ToSet(snap)
  BY <1>1, <1>2, <1>3, <1>4 DEF ToSet
<1> QED
  BY <1>1, <1>2, <1>3, <1>4, <1>5, <1>6 DEF t

LEMMA ListEmpty == ListOK(<< >>) /\ ToSet(<< >>) = {} /\ Len(<< >>) = 0
  BY SizeAssumption DEF ListOK, IsInjective, ToSet

LEMMA ListRecords ==
  ASSUME NEW list, ListOK(list)
  PROVE  /\ Len(list) \in 0..MaxEntries /\ DOMAIN list = 1..Len(list)
         /\ \A i \in DOMAIN list : list[i] \in Records
<1>1. list \in Seq(Records) /\ Len(list) \in Nat /\ DOMAIN list = 1..Len(list)
  BY LenProperties DEF ListOK
<1>2. Len(list) \in 0..MaxEntries
  BY <1>1, SizeAssumption DEF ListOK
<1> QED
  BY <1>1, <1>2, ElementOfSeq

-----------------------------------------------------------------------------
(* Sums of bytes                                                            *)

BytesOf(f) == Cardinality({b \in Uploads \X (1..Size) : b[2] <= f[b[1]]})

LEMMA BytesGrow ==
  ASSUME NEW f \in [Uploads -> 0..Size], NEW g \in [Uploads -> 0..Size],
         \A u \in Uploads : f[u] <= g[u]
  PROVE  BytesOf(f) \in Nat /\ BytesOf(g) \in Nat /\ BytesOf(f) <= BytesOf(g)
<1> DEFINE B(h) == {b \in Uploads \X (1..Size) : b[2] <= h[b[1]]}
<1>1. IsFiniteSet(1..Size)
  BY SizeAssumption, FS_Interval
<1>2. IsFiniteSet(Uploads \X (1..Size))
  BY <1>1, ThreadsAssumption, FS_Product
<1>3. B(f) \subseteq B(g)
  <2> SUFFICES ASSUME NEW b \in Uploads \X (1..Size), b[2] <= f[b[1]]
               PROVE  b[2] <= g[b[1]]
    OBVIOUS
  <2>1. b[1] \in Uploads /\ b[2] \in 1..Size
    OBVIOUS
  <2>2. f[b[1]] \in 0..Size /\ g[b[1]] \in 0..Size /\ f[b[1]] <= g[b[1]]
    BY <2>1
  <2> QED
    BY <2>1, <2>2, SizeAssumption
<1>4. IsFiniteSet(B(g)) /\ B(g) \in SUBSET (Uploads \X (1..Size))
  BY <1>2, FS_Subset
<1>5. IsFiniteSet(B(f)) /\ Cardinality(B(f)) <= Cardinality(B(g))
  BY <1>3, <1>4, FS_Subset
<1>6. Cardinality(B(f)) \in Nat /\ Cardinality(B(g)) \in Nat
  BY <1>4, <1>5, FS_CardinalityType
<1> QED
  BY <1>5, <1>6 DEF BytesOf

LEMMA BytesZero == BytesOf([u \in Uploads |-> 0]) = 0
<1> DEFINE f == [u \in Uploads |-> 0]
<1>1. {b \in Uploads \X (1..Size) : b[2] <= f[b[1]]} = {}
  BY SizeAssumption
<1> QED
  BY <1>1, FS_EmptySet DEF BytesOf

LEMMA TotalIs == Total = BytesOf(transferred)
  BY DEF Total, Bytes, BytesOf

-----------------------------------------------------------------------------
(* The invariant at the start                                               *)

\* What TypeOK says of each part.
TableOK ==
  /\ transferred \in [Uploads -> 0..Size] /\ completed \subseteq Uploads
  /\ doneBytes \in Nat
  /\ received \in [Uploads -> 0..Size] /\ sum \in [Uploads -> Nat]

StoreOK ==
  /\ ListOK(entries) /\ ListOK(file)
  /\ data \in [Threads -> Seq(Records)] /\ \A t \in Threads : ListOK(data[t])

StepOK ==
  /\ pc \in [Threads -> Steps] /\ writer \in Threads \cup {Nobody}
  /\ \A t \in Threads : pc[t] = "write" <=> writer = t

DialogOK ==
  /\ rows \in Seq([record: Records, index: 1..MaxEntries])
  /\ next \in 0..(MaxEntries + 1) /\ count \in 0..MaxEntries
  /\ picked \subseteq DOMAIN rows
  /\ moved \in BOOLEAN /\ raced \in BOOLEAN /\ mixed \in BOOLEAN

LEMMA TypeParts == TypeOK <=> TableOK /\ StoreOK /\ StepOK /\ DialogOK
<1>1. TypeOK => TableOK /\ StepOK /\ DialogOK
  BY DEF TypeOK, TableOK, StepOK, DialogOK
<1>2. TypeOK => StoreOK
  BY DEF TypeOK, StoreOK, ListOK
<1>3. TableOK /\ StoreOK /\ StepOK /\ DialogOK => TypeOK
  BY DEF TypeOK, TableOK, StoreOK, StepOK, DialogOK, ListOK
<1> QED
  BY <1>1, <1>2, <1>3

LEMMA OldOK == ListOK(Old) /\ Trimmed(Old) = Old /\ ToSet(Old) \cap Uploads = {}
<1>1. Old \in Seq(Records)
  <2>1. Len(Old) \in Nat /\ DOMAIN Old = 1..Len(Old)
    BY OldAssumption, LenProperties
  <2>2. \A i \in 1..Len(Old) : Old[i] \in Records
    BY <2>1 DEF Records, ToSet
  <2> QED
    BY <2>1, <2>2, OldAssumption, SeqDef
<1> QED
  BY <1>1, OldAssumption, ListTrimmed DEF ListOK

LEMMA InitInv == Init => IInv
<1> SUFFICES ASSUME Init PROVE IInv
  OBVIOUS
<1>1. entries = Old /\ file = Old
  BY OldOK DEF Init
<1>2. transferred = [u \in Uploads |-> 0] /\ Total = 0 /\ doneBytes = 0
  BY TotalIs, BytesZero DEF Init
<1>3. TableOK
  BY SizeAssumption DEF Init, TableOK
<1>4. StoreOK
  BY <1>1, OldOK, ListEmpty DEF Init, StoreOK
<1>5. StepOK
  BY ThreadsAssumption DEF Init, StepOK, Steps, Threads
<1>6. DialogOK
  <2>1. << >> \in Seq([record: Records, index: 1..MaxEntries])
    BY EmptySeq
  <2>2. 0 \in 0..MaxEntries /\ 0 \in 0..(MaxEntries + 1)
    BY SizeAssumption
  <2> QED
    BY <2>1, <2>2 DEF Init, DialogOK
<1>7. TypeOK
  BY <1>3, <1>4, <1>5, <1>6, TypeParts
<1>8. FreshInv
  BY <1>1, OldOK, ListEmpty DEF Init, FreshInv
<1>9. PrefixInv
  BY DEF Init, PrefixInv
<1>10. RowsInv
  BY DEF Init, RowsInv, Showing, Threads
<1>11. SaveInv
  BY <1>1 DEF Init, SaveInv, Saving
<1>12. SumInv
  BY <1>2 DEF Init, SumInv, Reporting, Threads
<1> QED
  BY <1>7, <1>8, <1>9, <1>10, <1>11, <1>12 DEF IInv

-----------------------------------------------------------------------------
(* Types                                                                    *)

SavesOf(t) == SaveSnaps(t) \/ SaveOpens(t) \/ SaveSkips(t) \/ SaveWrites(t) \/ SaveCloses(t)
UiShows == UiOpens \/ UiCounts \/ UiGets \/ UiAsks \/ UiDeclines \/ UiCloses
UiDeletes == UiRemoves \/ UiClears

LEMMA TotalType == TableOK => Total \in Nat
<1>1. ASSUME TableOK PROVE \A u \in Uploads : transferred[u] <= transferred[u]
  BY <1>1, SizeAssumption DEF TableOK
<1> QED
  BY <1>1, BytesGrow, TotalIs DEF TableOK

LEMMA TableStep ==
  ASSUME TypeOK, Next
  PROVE  TableOK'
<1> USE TypeParts, SizeAssumption DEF TableOK, SetFileProgress, table
<1>1. ASSUME NEW u \in Uploads, UploadReads(u)
      PROVE  TableOK'
  <2>1. received[u] \in 0..Size /\ received[u] < Size
    BY <1>1 DEF UploadReads
  <2>2. received[u] + 1 \in 0..Size
    BY <2>1
  <2>3. received' \in [Uploads -> 0..Size] /\ received'[u] = received[u] + 1
    BY <1>1, <2>2 DEF UploadReads
  <2> QED
    BY <1>1, <2>2, <2>3 DEF UploadReads
<1>2. ASSUME NEW u \in Uploads, UploadFails(u)
      PROVE  TableOK'
  BY <1>2 DEF UploadFails
<1>3. ASSUME NEW u \in Uploads, UploadSums(u)
      PROVE  TableOK'
  BY <1>3, TotalType DEF UploadSums
<1>4. ASSUME NEW u \in Uploads, UploadStores(u)
      PROVE  TableOK'
  BY <1>4 DEF UploadStores
<1>5. ASSUME NEW u \in Uploads, UploadCounts(u)
      PROVE  TableOK'
  BY <1>5 DEF UploadCounts
<1>6. ASSUME NEW u \in Uploads, UploadStarts(u) \/ UploadRecords(u)
      PROVE  TableOK'
  BY <1>6 DEF UploadStarts, UploadRecords
<1>7. ASSUME NEW t \in Threads, SavesOf(t)
      PROVE  TableOK'
  BY <1>7 DEF SavesOf, SaveSnaps, SaveOpens, SaveSkips, SaveWrites, SaveCloses
<1>8. CASE UiShows \/ UiDeletes
  BY <1>8 DEF UiShows, UiDeletes, UiOpens, UiCounts, UiGets, UiAsks, UiDeclines, UiCloses,
              UiRemoves, UiClears
<1>9. CASE Restart
  BY <1>9 DEF Restart
<1> QED
  BY <1>1, <1>2, <1>3, <1>4, <1>5, <1>6, <1>7, <1>8, <1>9 DEF Next, SavesOf, UiShows, UiDeletes

LEMMA StepStep ==
  ASSUME TypeOK, Next
  PROVE  StepOK'
<1>1. StepOK
  BY TypeParts
<1> USE <1>1, ThreadsAssumption DEF StepOK, Goto, store, Steps, Saving, Reporting
<1>2. ASSUME NEW u \in Uploads, UploadStarts(u)
      PROVE  StepOK'
  BY <1>2 DEF UploadStarts, Threads
<1>3. ASSUME NEW u \in Uploads, UploadReads(u)
      PROVE  StepOK'
  BY <1>3 DEF UploadReads, SetFileProgress, Threads
<1>4. ASSUME NEW u \in Uploads, UploadFails(u)
      PROVE  StepOK'
  BY <1>4 DEF UploadFails, Threads
<1>5. ASSUME NEW u \in Uploads, UploadSums(u)
      PROVE  StepOK'
  BY <1>5 DEF UploadSums, Threads
<1>6. ASSUME NEW u \in Uploads, UploadStores(u)
      PROVE  StepOK'
  BY <1>6 DEF UploadStores, Threads
<1>7. ASSUME NEW u \in Uploads, UploadRecords(u)
      PROVE  StepOK'
  BY <1>7 DEF UploadRecords, Threads
<1>8. ASSUME NEW u \in Uploads, UploadCounts(u)
      PROVE  StepOK'
  BY <1>8 DEF UploadCounts, SetFileProgress, Threads
<1>9. ASSUME NEW t \in Threads, SaveSnaps(t) \/ SaveSkips(t) \/ SaveWrites(t)
      PROVE  StepOK'
  BY <1>9 DEF SaveSnaps, SaveSkips, SaveWrites
<1>10. ASSUME NEW t \in Threads, SaveOpens(t)
       PROVE  StepOK'
  BY <1>10 DEF SaveOpens
<1>11. ASSUME NEW t \in Threads, SaveCloses(t)
       PROVE  StepOK'
  BY <1>11 DEF SaveCloses
<1>12. CASE UiShows
  BY <1>12 DEF UiShows, UiOpens, UiCounts, UiGets, UiAsks, UiDeclines, UiCloses, Threads
<1>13. CASE UiDeletes
  BY <1>13 DEF UiDeletes, UiRemoves, UiClears, Threads
<1>14. CASE Restart
  BY <1>14 DEF Restart
<1> QED
  BY <1>2, <1>3, <1>4, <1>5, <1>6, <1>7, <1>8, <1>9, <1>10, <1>11, <1>12, <1>13, <1>14
  DEF Next, SavesOf, UiShows, UiDeletes

LEMMA DialogStep ==
  ASSUME TypeOK, RowsInv, Next
  PROVE  DialogOK'
<1>1. DialogOK /\ ListOK(entries)
  BY TypeParts DEF StoreOK
<1>2. BOOLEAN = {TRUE, FALSE} /\ MaxEntries \in Nat \ {0}
  BY SizeAssumption
<1> USE <1>1, <1>2 DEF DialogOK, dialog, Others
<1>3. ASSUME NEW u \in Uploads,
             \/ UploadStarts(u) \/ UploadReads(u) \/ UploadFails(u) \/ UploadSums(u)
             \/ UploadStores(u) \/ UploadRecords(u) \/ UploadCounts(u)
      PROVE  DialogOK'
  <2>1. UNCHANGED dialog /\ moved' \in BOOLEAN /\ raced' \in BOOLEAN /\ mixed' \in BOOLEAN
    BY <1>3 DEF UploadStarts, UploadReads, UploadFails, UploadSums, UploadStores, UploadRecords,
                UploadCounts, SetFileProgress
  <2> QED
    BY <2>1
<1>4. ASSUME NEW t \in Threads, SavesOf(t)
      PROVE  DialogOK'
  <2>1. UNCHANGED dialog /\ moved' \in BOOLEAN /\ raced' \in BOOLEAN /\ mixed' \in BOOLEAN
    BY <1>4 DEF SavesOf, SaveSnaps, SaveOpens, SaveSkips, SaveWrites, SaveCloses
  <2> QED
    BY <2>1
<1>5. CASE UiOpens
  BY <1>5 DEF UiOpens
<1>6. CASE UiCounts
  <2>1. Len(entries) \in 0..MaxEntries
    BY ListRecords
  <2>2. rows' \in Seq([record: Records, index: 1..MaxEntries])
    BY <1>6, EmptySeq DEF UiCounts
  <2>3. next' \in 0..(MaxEntries + 1) /\ count' \in 0..MaxEntries /\ picked' = {}
    BY <1>6, <2>1 DEF UiCounts
  <2> QED
    BY <1>6, <2>2, <2>3 DEF UiCounts
<1>7. CASE UiGets
  <2>1. CASE ~(next <= count)
    BY <1>7, <2>1 DEF UiGets
  <2>2. CASE next <= count /\ next <= Len(entries)
    <3>1. next \in 1..MaxEntries /\ next \in DOMAIN entries /\ entries[next] \in Records
      BY <1>7, <2>2, ListRecords DEF UiGets, RowsInv
    <3> DEFINE row == [record |-> entries[next], index |-> next]
    <3>2. row \in [record: Records, index: 1..MaxEntries]
      BY <3>1
    <3>3. rows' = Append(rows, row)
      BY <1>7, <2>2 DEF UiGets
    <3> HIDE DEF row
    <3>4. /\ rows' \in Seq([record: Records, index: 1..MaxEntries])
          /\ Len(rows') = Len(rows) + 1
      BY <3>2, <3>3, AppendProperties
    <3>5. DOMAIN rows \subseteq DOMAIN rows'
      <4>1. Len(rows) \in Nat /\ DOMAIN rows = 1..Len(rows) /\ DOMAIN rows' = 1..Len(rows')
        BY <3>4, LenProperties
      <4> QED
        BY <3>4, <4>1
    <3>6. next' \in 0..(MaxEntries + 1)
      BY <1>7, <2>2, <3>1 DEF UiGets
    <3> QED
      BY <1>7, <3>4, <3>5, <3>6 DEF UiGets
  <2>3. CASE next <= count /\ ~(next <= Len(entries))
    <3>1. next' \in 0..(MaxEntries + 1)
      BY <1>7, <2>3 DEF UiGets
    <3> QED
      BY <1>7, <2>3, <3>1 DEF UiGets
  <2> QED
    BY <2>1, <2>2, <2>3
<1>8. CASE UiAsks
  <2>1. DOMAIN rows = 1..Len(rows)
    BY LenProperties
  <2> QED
    BY <1>8, <2>1 DEF UiAsks
<1>9. CASE UiDeclines
  BY <1>9 DEF UiDeclines
<1>10. CASE UiDeletes
  BY <1>10 DEF UiDeletes, UiRemoves, UiClears
<1>11. CASE UiCloses \/ Restart
  <2>1. rows' = << >> /\ next' = 0 /\ count' = 0 /\ picked' = {}
    BY <1>11 DEF UiCloses, Restart
  <2>2. rows' \in Seq([record: Records, index: 1..MaxEntries])
    BY <2>1, EmptySeq
  <2>3. moved' \in BOOLEAN /\ raced' \in BOOLEAN /\ mixed' \in BOOLEAN
    BY <1>11 DEF UiCloses, Restart
  <2> QED
    BY <2>1, <2>2, <2>3
<1> QED
  BY <1>3, <1>4, <1>5, <1>6, <1>7, <1>8, <1>9, <1>10, <1>11 DEF Next, SavesOf, UiDeletes

\* What Remove leaves, as a list of the history.
LEMMA Removed ==
  ASSUME TypeOK, UiRemoves
  PROVE  /\ ListOK(entries') /\ ToSet(entries') \subseteq ToSet(entries)
         /\ ToSet(entries') = {entries[i] : i \in DOMAIN entries \ Indexes}
<1>1. ListOK(entries)
  BY TypeParts DEF StoreOK
<1>2. CASE Indexes \cap DOMAIN entries = {}
  BY <1>1, <1>2 DEF UiRemoves, ToSet
<1>3. CASE Indexes \cap DOMAIN entries # {}
  <2>1. entries' \in Rests(entries, DOMAIN entries \ Indexes)
    BY <1>3 DEF UiRemoves
  <2>2. ListOK(entries') /\ ToSet(entries') = {entries[i] : i \in DOMAIN entries \ Indexes}
    BY <1>1, <2>1, ListRest
  <2> QED
    BY <2>2 DEF ToSet
<1> QED
  BY <1>2, <1>3

\* What a record received adds: one that is not there yet.
LEMMA Added ==
  ASSUME TypeOK, FreshInv, NEW u \in Uploads, UploadRecords(u)
  PROVE  ListOK(entries') /\ ToSet(entries') \subseteq {u} \cup ToSet(entries)
<1>1. ListOK(entries) /\ u \in Records
  BY TypeParts DEF StoreOK, Records
<1>2. u \notin ToSet(entries)
  BY DEF FreshInv, Unrecorded, UploadRecords
<1>3. /\ <<u>> \o entries \in Seq(Records) /\ IsInjective(<<u>> \o entries)
      /\ ToSet(<<u>> \o entries) = {u} \cup ToSet(entries)
  BY <1>1, <1>2, ListAdded DEF ListOK
<1>4. entries' = Trimmed(<<u>> \o entries)
  BY DEF UploadRecords
<1> QED
  BY <1>3, <1>4, ListTrimmed

\* A step of a write adds a record to the file.
LEMMA Written ==
  ASSUME TypeOK, PrefixInv, NEW t \in Threads, SaveWrites(t)
  PROVE  /\ ListOK(file') /\ ToSet(file') \subseteq ToSet(data[t])
         /\ Len(file') <= Len(data[t]) /\ \A i \in 1..Len(file') : file'[i] = data[t][i]
<1>1. ListOK(file) /\ ListOK(data[t])
  BY TypeParts DEF StoreOK
<1>2. \A i \in 1..Len(file) : file[i] = data[t][i]
  BY DEF PrefixInv, SaveWrites
<1>3. Len(file) < Len(data[t]) /\ file' = Append(file, data[t][Len(file) + 1])
  BY DEF SaveWrites
<1> QED
  BY <1>1, <1>2, <1>3, ListWritten

LEMMA Loaded ==
  ASSUME TypeOK
  PROVE  Trimmed(file) = file
<1>1. ListOK(file)
  BY TypeParts DEF StoreOK
<1> QED
  BY <1>1, ListTrimmed DEF ListOK

LEMMA StoreStep ==
  ASSUME TypeOK, FreshInv, PrefixInv, Next
  PROVE  StoreOK'
<1>1. StoreOK
  BY TypeParts
<1>2. \A list : ListOK(list) => list \in Seq(Records)
  BY DEF ListOK
<1> USE <1>1 DEF StoreOK, store
<1>3. ASSUME NEW u \in Uploads,
             \/ UploadStarts(u) \/ UploadReads(u) \/ UploadFails(u) \/ UploadSums(u)
             \/ UploadStores(u) \/ UploadCounts(u)
      PROVE  StoreOK'
  <2>1. UNCHANGED <<entries, file, data>>
    BY <1>3 DEF UploadStarts, UploadReads, UploadFails, UploadSums, UploadStores, UploadCounts
  <2> QED
    BY <2>1
<1>4. ASSUME NEW u \in Uploads, UploadRecords(u)
      PROVE  StoreOK'
  BY <1>4, Added DEF UploadRecords
<1>5. ASSUME NEW t \in Threads, SaveSnaps(t)
      PROVE  StoreOK'
  BY <1>2, <1>5 DEF SaveSnaps
<1>6. ASSUME NEW t \in Threads, SaveOpens(t)
      PROVE  StoreOK'
  BY <1>6, ListEmpty DEF SaveOpens
<1>7. ASSUME NEW t \in Threads, SaveSkips(t) \/ SaveCloses(t)
      PROVE  StoreOK'
  <2>1. UNCHANGED <<entries, file>> /\ data' = [data EXCEPT ![t] = << >>]
    BY <1>7 DEF SaveSkips, SaveCloses
  <2> QED
    BY <1>2, <2>1, ListEmpty
<1>8. ASSUME NEW t \in Threads, SaveWrites(t)
      PROVE  StoreOK'
  BY <1>8, Written DEF SaveWrites
<1>9. CASE UiShows
  <2>1. UNCHANGED <<entries, file, data>>
    BY <1>9 DEF UiShows, UiOpens, UiCounts, UiGets, UiAsks, UiDeclines, UiCloses
  <2> QED
    BY <2>1
<1>10. CASE UiRemoves
  BY <1>10, Removed DEF UiRemoves
<1>11. CASE UiClears
  BY <1>11, ListEmpty DEF UiClears
<1>12. CASE Restart
  <2>1. entries' = file /\ file' = file
    BY <1>12, Loaded DEF Restart
  <2>2. data' = [t \in Threads |-> << >>]
    BY <1>12 DEF Restart
  <2> QED
    BY <1>2, <2>1, <2>2, ListEmpty
<1> QED
  BY <1>3, <1>4, <1>5, <1>6, <1>7, <1>8, <1>9, <1>10, <1>11, <1>12 DEF Next, UiShows

LEMMA TypeStep ==
  ASSUME TypeOK, FreshInv, PrefixInv, RowsInv, Next
  PROVE  TypeOK'
<1>1. TableOK' /\ StepOK' /\ DialogOK' /\ StoreOK'
  BY TableStep, StepStep, DialogStep, StoreStep
<1>2. TypeOK' <=> TableOK' /\ StoreOK' /\ StepOK' /\ DialogOK'
  BY TypeParts DEF TypeOK, TableOK, StoreOK, StepOK, DialogOK, ListOK
<1> QED
  BY <1>1, <1>2

-----------------------------------------------------------------------------
(* The history: a file is recorded once, and written as it was              *)

\* No step makes a file unrecorded again.
LEMMA StillFresh ==
  ASSUME TypeOK, FreshInv, Next, NEW u \in Uploads
  PROVE  /\ Unrecorded(u)' => Unrecorded(u)
         /\ pc'[u] \in {"idle", "body"} => u \notin completed'
<1> DEFINE Goal == /\ Unrecorded(u)' => Unrecorded(u)
                   /\ pc'[u] \in {"idle", "body"} => u \notin completed'
<1>1. pc \in [Threads -> Steps] /\ u \in Threads /\ UI \in Threads /\ UI # u
  BY ThreadsAssumption DEF TypeOK, Threads
<1>2. pc[u] \in {"idle", "body"} => u \notin completed
  BY DEF FreshInv
<1> USE <1>1, <1>2 DEF Unrecorded, Reporting, Goto, table
<1>3. ASSUME NEW v \in Uploads, UploadStarts(v) \/ UploadFails(v) \/ UploadSums(v) \/ UploadRecords(v)
      PROVE  Goal
  BY <1>3 DEF UploadStarts, UploadFails, UploadSums, UploadRecords, Threads
<1>4. ASSUME NEW v \in Uploads, UploadReads(v)
      PROVE  Goal
  BY <1>4 DEF UploadReads, SetFileProgress, Threads
<1>5. ASSUME NEW v \in Uploads, UploadStores(v)
      PROVE  Goal
  BY <1>5 DEF UploadStores, Threads
<1>6. ASSUME NEW v \in Uploads, UploadCounts(v)
      PROVE  Goal
  BY <1>6 DEF UploadCounts, SetFileProgress, Threads
<1>7. ASSUME NEW t \in Threads, SavesOf(t)
      PROVE  Goal
  BY <1>7 DEF SavesOf, SaveSnaps, SaveOpens, SaveSkips, SaveWrites, SaveCloses
<1>8. CASE UiShows
  BY <1>8 DEF UiShows, UiOpens, UiCounts, UiGets, UiAsks, UiDeclines, UiCloses
<1>9. CASE UiDeletes
  BY <1>9 DEF UiDeletes, UiRemoves, UiClears
<1>10. CASE Restart
  BY <1>10 DEF Restart
<1>11. Goal
  BY <1>3, <1>4, <1>5, <1>6, <1>7, <1>8, <1>9, <1>10 DEF Next, SavesOf, UiShows, UiDeletes
<1> QED
  BY <1>11

\* What the lists hold after a step: what some list held, or the file that
\* was recorded.
Held == ToSet(entries) \cup ToSet(file) \cup UNION {ToSet(data[t]) : t \in Threads}

LEMMA HeldStep ==
  ASSUME TypeOK, FreshInv, PrefixInv, Next
  PROVE  \/ Held' \subseteq Held
         \/ \E u \in Uploads : UploadRecords(u) /\ Held' \subseteq {u} \cup Held
<1>1. data \in [Threads -> Seq(Records)]
  BY DEF TypeOK
<1> USE <1>1 DEF Held, store
<1>2. ASSUME NEW u \in Uploads,
             \/ UploadStarts(u) \/ UploadReads(u) \/ UploadFails(u) \/ UploadSums(u)
             \/ UploadStores(u) \/ UploadCounts(u)
      PROVE  Held' \subseteq Held
  <2>1. UNCHANGED <<entries, file, data>>
    BY <1>2 DEF UploadStarts, UploadReads, UploadFails, UploadSums, UploadStores, UploadCounts
  <2> QED
    BY <2>1
<1>3. ASSUME NEW u \in Uploads, UploadRecords(u)
      PROVE  Held' \subseteq {u} \cup Held
  <2>1. UNCHANGED <<file, data>> /\ ToSet(entries') \subseteq {u} \cup ToSet(entries)
    BY <1>3, Added DEF UploadRecords
  <2> QED
    BY <2>1
<1>4. ASSUME NEW t \in Threads, SaveSnaps(t)
      PROVE  Held' \subseteq Held
  <2>1. UNCHANGED <<entries, file>> /\ data' = [data EXCEPT ![t] = entries]
    BY <1>4 DEF SaveSnaps
  <2> QED
    BY <2>1
<1>5. ASSUME NEW t \in Threads, SaveOpens(t)
      PROVE  Held' \subseteq Held
  <2>1. UNCHANGED <<entries, data>> /\ ToSet(file') = {}
    BY <1>5, ListEmpty DEF SaveOpens
  <2> QED
    BY <2>1
<1>6. ASSUME NEW t \in Threads, SaveSkips(t) \/ SaveCloses(t)
      PROVE  Held' \subseteq Held
  <2>1. UNCHANGED <<entries, file>> /\ data' = [data EXCEPT ![t] = << >>]
    BY <1>6 DEF SaveSkips, SaveCloses
  <2>2. \A o \in Threads : ToSet(data'[o]) \subseteq ToSet(data[o])
    BY <2>1, ListEmpty
  <2> QED
    BY <2>1, <2>2
<1>7. ASSUME NEW t \in Threads, SaveWrites(t)
      PROVE  Held' \subseteq Held
  <2>1. UNCHANGED <<entries, data>> /\ ToSet(file') \subseteq ToSet(data[t])
    BY <1>7, Written DEF SaveWrites
  <2> QED
    BY <2>1
<1>8. ASSUME UiShows
      PROVE  Held' \subseteq Held
  <2>1. UNCHANGED <<entries, file, data>>
    BY <1>8 DEF UiShows, UiOpens, UiCounts, UiGets, UiAsks, UiDeclines, UiCloses
  <2> QED
    BY <2>1
<1>9. ASSUME UiDeletes
      PROVE  Held' \subseteq Held
  <2>1. UNCHANGED <<file, data>> /\ ToSet(entries') \subseteq ToSet(entries)
    BY <1>9, Removed, ListEmpty DEF UiDeletes, UiRemoves, UiClears
  <2> QED
    BY <2>1
<1>10. ASSUME Restart
       PROVE  Held' \subseteq Held
  <2>1. entries' = file /\ file' = file /\ data' = [t \in Threads |-> << >>]
    BY <1>10, Loaded DEF Restart
  <2>2. \A o \in Threads : ToSet(data'[o]) = {}
    BY <2>1, ListEmpty
  <2> QED
    BY <2>1, <2>2
<1> QED
  BY <1>2, <1>3, <1>4, <1>5, <1>6, <1>7, <1>8, <1>9, <1>10 DEF Next, SavesOf, UiShows, UiDeletes

LEMMA FreshHeld == FreshInv <=> \A u \in Uploads : /\ Unrecorded(u) => u \notin Held
                                                   /\ pc[u] \in {"idle", "body"} => u \notin completed
  BY DEF FreshInv, Held

LEMMA FreshStep ==
  ASSUME TypeOK, FreshInv, PrefixInv, Next
  PROVE  FreshInv'
<1>1. ASSUME NEW u \in Uploads
      PROVE  /\ Unrecorded(u)' => u \notin Held'
             /\ pc'[u] \in {"idle", "body"} => u \notin completed'
  <2>1. /\ Unrecorded(u)' => Unrecorded(u)
        /\ pc'[u] \in {"idle", "body"} => u \notin completed'
    BY StillFresh
  <2>2. Unrecorded(u) => u \notin Held
    BY FreshHeld
  <2>3. UploadRecords(u) => ~Unrecorded(u)'
    BY ThreadsAssumption DEF TypeOK, UploadRecords, Goto, Unrecorded, Reporting, Threads
  <2>4. \/ Held' \subseteq Held
        \/ \E v \in Uploads : UploadRecords(v) /\ Held' \subseteq {v} \cup Held
    BY HeldStep
  <2> QED
    BY <2>1, <2>2, <2>3, <2>4
<1> QED
  BY <1>1 DEF FreshInv, Held

\* The steps that leave the history and its threads alone.
OffHistory ==
  /\ UNCHANGED store /\ UNCHANGED data /\ UNCHANGED raced
  /\ \A t \in Threads : pc'[t] = pc[t] \/ (pc[t] \notin Saving /\ pc'[t] \notin Saving)

LEMMA HistoryCases ==
  ASSUME TypeOK, Next
  PROVE  \/ OffHistory
         \/ \E u \in Uploads : UploadRecords(u)
         \/ \E t \in Threads : SavesOf(t)
         \/ UiRemoves \/ UiClears \/ Restart
<1> USE DEF OffHistory, store, Saving, Goto, TypeOK
<1>1. ASSUME NEW u \in Uploads, UploadStarts(u) \/ UploadFails(u) \/ UploadSums(u)
      PROVE  OffHistory
  BY <1>1 DEF UploadStarts, UploadFails, UploadSums
<1>2. ASSUME NEW u \in Uploads, UploadReads(u)
      PROVE  OffHistory
  BY <1>2 DEF UploadReads, SetFileProgress
<1>3. ASSUME NEW u \in Uploads, UploadStores(u)
      PROVE  OffHistory
  BY <1>3 DEF UploadStores
<1>4. ASSUME NEW u \in Uploads, UploadCounts(u)
      PROVE  OffHistory
  BY <1>4 DEF UploadCounts, SetFileProgress
<1>5. CASE UiShows
  BY <1>5 DEF UiShows, UiOpens, UiCounts, UiGets, UiAsks, UiDeclines, UiCloses
<1> QED
  BY <1>1, <1>2, <1>3, <1>4, <1>5 DEF Next, SavesOf, UiShows

LEMMA PrefixStep ==
  ASSUME TypeOK, PrefixInv, Next
  PROVE  PrefixInv'
<1>1. StepOK /\ StoreOK
  BY TypeParts
<1> USE <1>1, ThreadsAssumption DEF StepOK, Goto
<1>2. CASE OffHistory
  BY <1>2 DEF OffHistory, PrefixInv, store, Saving
<1>3. ASSUME NEW t \in Threads, SaveOpens(t)
      PROVE  PrefixInv'
  <2>1. file' = << >> /\ UNCHANGED data
    BY <1>3 DEF SaveOpens
  <2>2. Len(file') = 0 /\ \A o \in Threads : Len(data[o]) \in Nat
    BY <2>1, ListEmpty, LenProperties DEF StoreOK
  <2> QED
    BY <2>1, <2>2 DEF PrefixInv
<1>4. ASSUME NEW t \in Threads, SaveSnaps(t) \/ SaveSkips(t) \/ SaveCloses(t)
      PROVE  PrefixInv'
  <2>1. UNCHANGED file
    BY <1>4 DEF SaveSnaps, SaveSkips, SaveCloses, store
  <2>2. \A o \in Threads : pc'[o] = "write" => pc[o] = "write" /\ data'[o] = data[o]
    BY <1>4 DEF SaveSnaps, SaveSkips, SaveCloses, StoreOK
  <2> QED
    BY <2>1, <2>2 DEF PrefixInv
<1>5. ASSUME NEW t \in Threads, SaveWrites(t)
      PROVE  PrefixInv'
  <2>1. UNCHANGED <<pc, data>> /\ \A o \in Threads : pc[o] = "write" => o = t
    BY <1>5 DEF SaveWrites
  <2> QED
    BY <1>5, <2>1, Written DEF PrefixInv
<1>6. ASSUME NEW u \in Uploads, UploadRecords(u)
      PROVE  PrefixInv'
  BY <1>6 DEF UploadRecords, PrefixInv, Threads
<1>7. CASE UiRemoves \/ UiClears
  BY <1>7 DEF UiRemoves, UiClears, PrefixInv, Threads
<1>8. CASE Restart
  BY <1>8 DEF Restart, PrefixInv
<1> QED
  BY <1>2, <1>3, <1>4, <1>5, <1>6, <1>7, <1>8, HistoryCases DEF SavesOf

LEMMA SaveStep ==
  ASSUME TypeOK, SaveInv, Next
  PROVE  SaveInv'
<1>1. StepOK /\ StoreOK
  BY TypeParts
<1> USE <1>1, ThreadsAssumption DEF StepOK, Goto, Others, store
<1>2. CASE OffHistory
  BY <1>2 DEF OffHistory, SaveInv, Saving
<1>3. ASSUME NEW t \in Threads, SaveSnaps(t)
      PROVE  SaveInv'
  BY <1>3 DEF SaveSnaps, SaveInv, Saving, StoreOK
<1>4. ASSUME NEW t \in Threads, SaveOpens(t)
      PROVE  SaveInv'
  BY <1>4 DEF SaveOpens, SaveInv, Saving
<1>5. ASSUME NEW t \in Threads, SaveSkips(t)
      PROVE  SaveInv'
  BY <1>5 DEF SaveSkips, SaveInv
<1>6. ASSUME NEW t \in Threads, SaveWrites(t)
      PROVE  SaveInv'
  BY <1>6 DEF SaveWrites, SaveInv, Saving
<1>7. ASSUME NEW t \in Threads, SaveCloses(t)
      PROVE  SaveInv'
  BY <1>7 DEF SaveCloses, SaveInv, Saving, StoreOK
<1>8. ASSUME NEW u \in Uploads, UploadRecords(u)
      PROVE  SaveInv'
  BY <1>8 DEF UploadRecords, SaveInv, Saving, Threads
<1>9. CASE UiRemoves
  <2>1. CASE Indexes \cap DOMAIN entries = {}
    BY <1>9, <2>1 DEF UiRemoves, SaveInv, Saving, Threads
  <2>2. CASE Indexes \cap DOMAIN entries # {}
    BY <1>9, <2>2 DEF UiRemoves, SaveInv, Saving, Threads
  <2> QED
    BY <2>1, <2>2
<1>10. CASE UiClears
  BY <1>10 DEF UiClears, SaveInv, Saving, Threads
<1>11. CASE Restart
  <2>1. entries' = file' /\ \A t \in Threads : pc'[t] \notin Saving
    BY <1>11, Loaded DEF Restart, Saving
  <2> QED
    BY <2>1 DEF SaveInv, Saving
<1> QED
  BY <1>2, <1>3, <1>4, <1>5, <1>6, <1>7, <1>8, <1>9, <1>10, <1>11, HistoryCases DEF SavesOf

-----------------------------------------------------------------------------
(* The dialog: a row shows the record at its position                       *)

LEMMA RowsStep ==
  ASSUME TypeOK, RowsInv, Next
  PROVE  RowsInv'
<1>1. StepOK /\ DialogOK /\ ListOK(entries) /\ UI \in Threads
  BY TypeParts DEF StoreOK, Threads
<1> USE <1>1, ThreadsAssumption DEF StepOK, Goto, store, dialog, Showing
<1>2. ASSUME NEW u \in Uploads,
             \/ UploadStarts(u) \/ UploadReads(u) \/ UploadFails(u) \/ UploadSums(u)
             \/ UploadStores(u) \/ UploadCounts(u)
      PROVE  RowsInv'
  <2>1. UNCHANGED <<entries, dialog, moved>> /\ pc'[UI] = pc[UI]
    BY <1>2 DEF UploadStarts, UploadReads, UploadFails, UploadSums, UploadStores, UploadCounts,
                SetFileProgress
  <2> QED
    BY <2>1 DEF RowsInv
<1>3. ASSUME NEW u \in Uploads, UploadRecords(u)
      PROVE  RowsInv'
  BY <1>3 DEF UploadRecords, RowsInv
<1>4. ASSUME NEW t \in Threads, SavesOf(t)
      PROVE  RowsInv'
  <2>1. UNCHANGED <<entries, dialog, moved>>
    BY <1>4 DEF SavesOf, SaveSnaps, SaveOpens, SaveSkips, SaveWrites, SaveCloses
  <2>2. pc'[UI] = pc[UI] \/ pc'[UI] \notin Showing
    BY <1>4 DEF SavesOf, SaveSnaps, SaveOpens, SaveSkips, SaveWrites, SaveCloses
  <2> QED
    BY <2>1, <2>2 DEF RowsInv
<1>5. CASE UiOpens \/ UiCloses
  BY <1>5 DEF UiOpens, UiCloses, RowsInv
<1>6. CASE UiCounts
  <2>1. rows' = << >> /\ DOMAIN (rows') = {} /\ next' = 1
    BY <1>6 DEF UiCounts
  <2> QED
    BY <2>1 DEF RowsInv
<1>7. CASE UiGets
  <2>1. next \in Nat /\ next >= 1
    BY <1>7 DEF UiGets, RowsInv, DialogOK
  <2>2. next' >= 1 /\ UNCHANGED <<entries, moved>> /\ pc[UI] = "fill"
    BY <1>7, <2>1 DEF UiGets
  <2>3. CASE rows' = rows
    BY <2>2, <2>3 DEF RowsInv
  <2>4. CASE next <= count /\ next <= Len(entries)
    <3>1. next \in DOMAIN entries /\ entries[next] \in Records
      BY <2>1, <2>4, ListRecords
    <3>2. next \in 1..MaxEntries
      BY <2>1, <2>4, SizeAssumption, ListRecords
    <3> DEFINE row == [record |-> entries[next], index |-> next]
    <3>3. rows' = Append(rows, row)
      BY <1>7, <2>4 DEF UiGets
    <3>4. row \in [record: Records, index: 1..MaxEntries]
      BY <3>1, <3>2
    <3>5. row.index = next /\ row.record = entries[next]
      OBVIOUS
    <3> HIDE DEF row
    <3>6. rows \in Seq([record: Records, index: 1..MaxEntries])
      BY DEF DialogOK
    <3>7. /\ rows' \in Seq([record: Records, index: 1..MaxEntries])
          /\ Len(rows') = Len(rows) + 1 /\ rows'[Len(rows) + 1] = row
          /\ \A k \in 1..Len(rows) : rows'[k] = rows[k]
      BY <3>3, <3>4, <3>6, AppendProperties
    <3>8. /\ Len(rows) \in Nat /\ DOMAIN rows = 1..Len(rows)
          /\ DOMAIN (rows') = 1..(Len(rows) + 1)
      BY <3>6, <3>7, LenProperties
    <3>9. ASSUME NEW k \in DOMAIN (rows'), ~moved
          PROVE  rows'[k].index \in DOMAIN entries /\ entries[rows'[k].index] = rows'[k].record
      <4>1. CASE k = Len(rows) + 1
        BY <3>1, <3>5, <3>7, <4>1
      <4>2. CASE k \in DOMAIN rows
        BY <2>2, <3>7, <3>8, <3>9, <4>2 DEF RowsInv
      <4> QED
        BY <3>8, <4>1, <4>2
    <3> QED
      BY <2>2, <3>9 DEF RowsInv
  <2> QED
    BY <1>7, <2>3, <2>4 DEF UiGets
<1>8. CASE UiAsks \/ UiDeclines
  BY <1>8 DEF UiAsks, UiDeclines, RowsInv
<1>9. CASE UiDeletes
  <2>1. pc'[UI] \notin Showing
    BY <1>9 DEF UiDeletes, UiRemoves, UiClears
  <2> QED
    BY <2>1 DEF RowsInv
<1>10. CASE Restart
  BY <1>10 DEF Restart, RowsInv
<1> QED
  BY <1>2, <1>3, <1>4, <1>5, <1>6, <1>7, <1>8, <1>9, <1>10 DEF Next, SavesOf, UiDeletes

-----------------------------------------------------------------------------
(* The counters                                                             *)

\* The steps that leave the transfer table and the reports alone.
OffTable ==
  /\ UNCHANGED <<table, received, sum, mixed>>
  /\ \A t \in Threads : pc'[t] = pc[t] \/ (pc'[t] \notin Reporting /\ pc[t] \notin Reporting)

LEMMA TableCases ==
  ASSUME TypeOK, Next
  PROVE  \/ OffTable
         \/ \E u \in Uploads : \/ UploadReads(u) \/ UploadFails(u) \/ UploadSums(u)
                               \/ UploadStores(u) \/ UploadCounts(u)
         \/ Restart
<1>1. pc \in [Threads -> Steps] /\ UI \in Threads
  BY DEF TypeOK, Threads
<1> USE <1>1 DEF OffTable, Reporting, Goto
<1>2. ASSUME NEW u \in Uploads, UploadStarts(u) \/ UploadRecords(u)
      PROVE  OffTable
  BY <1>2 DEF UploadStarts, UploadRecords
<1>3. ASSUME NEW t \in Threads, SavesOf(t)
      PROVE  OffTable
  BY <1>3 DEF SavesOf, SaveSnaps, SaveOpens, SaveSkips, SaveWrites, SaveCloses
<1>4. CASE UiShows
  BY <1>4 DEF UiShows, UiOpens, UiCounts, UiGets, UiAsks, UiDeclines, UiCloses
<1>5. CASE UiDeletes
  BY <1>5 DEF UiDeletes, UiRemoves, UiClears
<1> QED
  BY <1>2, <1>3, <1>4, <1>5 DEF Next, SavesOf, UiShows, UiDeletes

\* Where no file loses bytes, the sum does not get smaller.
LEMMA TotalGrows ==
  ASSUME TableOK, TableOK', \A u \in Uploads : transferred[u] <= transferred'[u]
  PROVE  Total \in Nat /\ Total' \in Nat /\ Total <= Total'
<1>1. /\ BytesOf(transferred) \in Nat /\ BytesOf(transferred') \in Nat
      /\ BytesOf(transferred) <= BytesOf(transferred')
  BY BytesGrow DEF TableOK
<1>2. Total = BytesOf(transferred) /\ Total' = BytesOf(transferred')
  BY DEF Total, Bytes, BytesOf
<1> QED
  BY <1>1, <1>2

LEMMA TotalSame ==
  ASSUME UNCHANGED transferred
  PROVE  Total' = Total
  BY DEF Total, Bytes

LEMMA SumStep ==
  ASSUME TypeOK, FreshInv, SumInv, TypeOK', Next
  PROVE  SumInv'
<1>1. /\ pc \in [Threads -> Steps] /\ UI \in Threads /\ UI \notin Uploads
      /\ \A u \in Uploads : u \in Threads
  BY ThreadsAssumption DEF TypeOK, Threads
<1>2. TableOK /\ TableOK'
  BY DEF TypeOK, TableOK
<1>3. \A u \in Uploads : pc[u] \in {"idle", "body"} => u \notin completed
  BY DEF FreshInv
<1>4. Total \in Nat
  BY <1>2, TotalType
<1> USE <1>1 DEF Goto, Others, Reporting
<1>5. CASE OffTable
  <2>1. Total' = Total /\ UNCHANGED <<table, received, sum, mixed>>
    BY <1>5, TotalSame DEF OffTable, table
  <2>2. \A u \in Uploads : Unrecorded(u)' => transferred[u] <= received[u]
    <3>1. \A v \in Uploads : Unrecorded(v)' => Unrecorded(v)
      BY StillFresh
    <3> QED
      BY <3>1 DEF SumInv
  <2> QED
    BY <1>5, <2>1, <2>2 DEF OffTable, SumInv, table
<1>6. ASSUME NEW u \in Uploads, UploadReads(u)
      PROVE  SumInv'
  <2>1. received[u] \in Nat /\ received' = [received EXCEPT ![u] = received[u] + 1]
    BY <1>2, <1>6, SizeAssumption DEF UploadReads, TableOK
  <2>2. Unrecorded(u) /\ transferred[u] \in Nat /\ transferred[u] <= received[u]
    BY <1>2, <1>6, SizeAssumption DEF UploadReads, TableOK, Unrecorded, SumInv
  <2>3. UNCHANGED <<completed, doneBytes, sum>>
    BY <1>6 DEF UploadReads
  <2>4. \A v \in Uploads : Unrecorded(v)' => Unrecorded(v)
    BY <1>6, StillFresh
  <2>5. CASE UNCHANGED <<transferred, mixed, pc>>
    <3>1. Total' = Total
      BY <2>5, TotalSame
    <3>2. \A v \in Uploads : Unrecorded(v)' => transferred'[v] <= received'[v]
      BY <1>2, <2>1, <2>2, <2>4, <2>5 DEF SumInv, TableOK
    <3> QED
      BY <2>3, <2>5, <3>1, <3>2 DEF SumInv
  <2>6. CASE SetFileProgress(u, received'[u])
    <3>1. transferred' = [transferred EXCEPT ![u] = received[u] + 1]
      BY <1>2, <2>1, <2>6 DEF SetFileProgress, TableOK
    <3>2. \A v \in Uploads : transferred[v] \in Nat /\ transferred[v] <= transferred'[v]
      BY <1>2, <2>1, <2>2, <3>1, SizeAssumption DEF TableOK
    <3>3. Total' \in Nat /\ Total <= Total'
      BY <1>2, <3>2, TotalGrows
    <3>4. \A v \in Uploads : Unrecorded(v)' => transferred'[v] <= received'[v]
      BY <1>2, <2>1, <2>2, <2>4, <3>1 DEF SumInv, TableOK
    <3>5. doneBytes' <= Total' /\ \A v \in Uploads : sum'[v] <= Total'
      BY <1>2, <1>4, <2>3, <3>3 DEF SumInv, TableOK
    <3>6. pc[u] = "body" /\ pc' = [pc EXCEPT ![u] = "sum"] /\ mixed' = Others(u, Reporting)
      BY <1>6, <2>6 DEF UploadReads, SetFileProgress
    <3> QED
      BY <3>4, <3>5, <3>6 DEF SumInv
  <2> QED
    BY <1>6, <2>5, <2>6 DEF UploadReads
<1>7. ASSUME NEW u \in Uploads, UploadFails(u)
      PROVE  SumInv'
  <2>1. /\ pc[u] = "body" /\ pc' = [pc EXCEPT ![u] = "ended"]
        /\ UNCHANGED <<completed, doneBytes, received, sum>>
    BY <1>7 DEF UploadFails, table
  <2>2. \A v \in Uploads : Unrecorded(v)' => Unrecorded(v) /\ v # u
    BY <2>1, StillFresh DEF Unrecorded
  <2>3. \A v \in Uploads : v # u => transferred'[v] = transferred[v]
    BY <1>2, <1>7 DEF UploadFails, TableOK
  <2>4. \A v \in Uploads : Unrecorded(v)' => transferred'[v] <= received'[v]
    BY <2>1, <2>2, <2>3 DEF SumInv
  <2>5. \A v \in Uploads : transferred[v] <= transferred'[v]
    BY <1>2, <1>7, SizeAssumption DEF UploadFails, TableOK
  <2>6. Total' \in Nat /\ Total <= Total'
    BY <1>2, <2>5, TotalGrows
  <2>7. doneBytes' <= Total' /\ \A v \in Uploads : sum'[v] <= Total'
    BY <1>2, <1>4, <2>1, <2>6 DEF SumInv, TableOK
  <2>8. ~mixed' => UNCHANGED transferred /\ ~mixed /\ Total' = Total
    BY <1>7, TotalSame DEF UploadFails
  <2> QED
    BY <2>1, <2>4, <2>7, <2>8 DEF SumInv
<1>8. ASSUME NEW u \in Uploads, UploadSums(u)
      PROVE  SumInv'
  <2>1. /\ pc[u] = "sum" /\ pc' = [pc EXCEPT ![u] = "store"]
        /\ sum' = [sum EXCEPT ![u] = Total] /\ Total' = Total
        /\ UNCHANGED <<transferred, completed, doneBytes, received, mixed>>
    BY <1>8, TotalSame DEF UploadSums, table
  <2>2. \A v \in Uploads : Unrecorded(v)' => transferred'[v] <= received'[v]
    BY <1>8, <2>1, StillFresh DEF SumInv
  <2>3. \A v \in Uploads : sum'[v] <= Total /\ (v = u => sum'[v] = Total)
    BY <1>2, <1>4, <2>1 DEF SumInv, TableOK
  <2> QED
    BY <2>1, <2>2, <2>3 DEF SumInv
<1>9. ASSUME NEW u \in Uploads, UploadStores(u)
      PROVE  SumInv'
  <2>1. /\ pc[u] = "store" /\ doneBytes' = sum[u] /\ sum' = [sum EXCEPT ![u] = 0] /\ Total' = Total
        /\ \E s \in {"ended", "body"} : pc' = [pc EXCEPT ![u] = s]
        /\ UNCHANGED <<transferred, completed, received, mixed>>
    BY <1>9, TotalSame DEF UploadStores
  <2>2. \A v \in Uploads : Unrecorded(v)' => transferred'[v] <= received'[v]
    BY <1>9, <2>1, StillFresh DEF SumInv
  <2>3. doneBytes' <= Total' /\ \A v \in Uploads : sum'[v] <= Total' /\ (v # u => sum'[v] = sum[v])
    BY <1>2, <1>4, <2>1 DEF SumInv, TableOK
  <2> QED
    BY <2>1, <2>2, <2>3 DEF SumInv
<1>10. ASSUME NEW u \in Uploads, UploadCounts(u)
       PROVE  SumInv'
  <2>1. /\ pc[u] = "count" /\ pc' = [pc EXCEPT ![u] = "sum"] /\ completed' = completed \cup {u}
        /\ transferred' = [transferred EXCEPT ![u] = Size] /\ mixed' = Others(u, Reporting)
        /\ UNCHANGED <<doneBytes, received, sum>>
    BY <1>10 DEF UploadCounts, SetFileProgress
  <2>2. \A v \in Uploads : Unrecorded(v)' => Unrecorded(v) /\ v # u
    BY <2>1, StillFresh DEF Unrecorded
  <2>3. \A v \in Uploads : v # u => transferred'[v] = transferred[v]
    BY <1>2, <2>1 DEF TableOK
  <2>4. \A v \in Uploads : Unrecorded(v)' => transferred'[v] <= received'[v]
    BY <2>1, <2>2, <2>3 DEF SumInv
  <2>5. \A v \in Uploads : transferred[v] <= transferred'[v]
    BY <1>2, <2>1, SizeAssumption DEF TableOK
  <2>6. Total' \in Nat /\ Total <= Total'
    BY <1>2, <2>5, TotalGrows
  <2>7. doneBytes' <= Total' /\ \A v \in Uploads : sum'[v] <= Total'
    BY <1>2, <1>4, <2>1, <2>6 DEF SumInv, TableOK
  <2> QED
    BY <2>1, <2>4, <2>7 DEF SumInv
<1>11. CASE Restart
  <2>1. transferred' = [u \in Uploads |-> 0] /\ doneBytes' = 0
        /\ \A u \in Uploads : received'[u] = 0 /\ sum'[u] = 0
    BY <1>11 DEF Restart
  <2>2. Total' = 0
    BY <2>1, BytesZero DEF Total, Bytes, BytesOf
  <2>3. \A t \in Threads : pc'[t] \notin {"sum", "store"}
    BY <1>11 DEF Restart
  <2> QED
    BY <2>1, <2>2, <2>3 DEF SumInv
<1> QED
  BY <1>5, <1>6, <1>7, <1>8, <1>9, <1>10, <1>11, TableCases

-----------------------------------------------------------------------------
(* The invariant, and what follows from it                                  *)

LEMMA StepInv == IInv /\ [Next]_vars => IInv'
<1> SUFFICES ASSUME IInv, [Next]_vars
             PROVE  IInv'
  OBVIOUS
<1>1. CASE Next
  <2>1. TypeOK'
    BY <1>1, TypeStep DEF IInv
  <2>2. FreshInv' /\ PrefixInv' /\ SaveInv' /\ RowsInv'
    BY <1>1, FreshStep, PrefixStep, SaveStep, RowsStep DEF IInv
  <2>3. SumInv'
    BY <1>1, <2>1, SumStep DEF IInv
  <2> QED
    BY <2>1, <2>2, <2>3 DEF IInv
<1>2. CASE UNCHANGED vars
  <2> USE <1>2 DEF vars
  <2>1. TypeOK'
    BY DEF IInv, TypeOK
  <2>2. FreshInv'
    BY DEF IInv, FreshInv, Unrecorded
  <2>3. PrefixInv' /\ RowsInv' /\ SaveInv'
    BY DEF IInv, PrefixInv, RowsInv, SaveInv
  <2>4. SumInv'
    BY TotalSame DEF IInv, SumInv, Unrecorded
  <2> QED
    BY <2>1, <2>2, <2>3, <2>4 DEF IInv
<1> QED
  BY <1>1, <1>2

THEOREM Invariant == Spec => []IInv
  BY InitInv, StepInv, PTL DEF Spec

\* Every variable has its type: the history (HistoryStore) holds each record
\* once and never more than kMaxHistoryEntries of them, in the list, in every
\* snapshot of it and on the disk.
THEOREM TypeTheorem == Spec => []TypeOK
<1>1. IInv => TypeOK
  BY DEF IInv
<1> QED
  BY <1>1, Invariant, PTL

\* HistoryStore::Save: once no save is under way, and none was cut short or
\* overlapped another one, a restart loads the list that the user has seen.
THEOREM SavedTheorem == Spec => []SavedUnlessRaced
<1>1. IInv => SavedUnlessRaced
  BY DEF IInv, SaveInv, SavedUnlessRaced
<1> QED
  BY <1>1, Invariant, PTL

\* RecomputeDone and UpdateProgress: Transfer::doneBytes never exceeds what the
\* files of the transfer say, and is their sum when no report is under way and
\* none overlapped another one.
THEOREM AddsUpTheorem == Spec => []DoneAddsUp
<1>1. IInv => DoneAddsUp
  BY DEF IInv, SumInv, DoneAddsUp
<1> QED
  BY <1>1, Invariant, PTL

\* The records at some positions of a list: not more than there are rows that
\* name a position, each record at one position only.
LEMMA PickedBound ==
  ASSUME TypeOK
  PROVE  LET hit == {entries[i] : i \in Indexes \cap DOMAIN entries} IN
         IsFiniteSet(picked) /\ IsFiniteSet(hit) /\ Cardinality(hit) <= Cardinality(picked)
<1> DEFINE there == {k \in picked : rows[k].index \in DOMAIN entries}
           hit == {entries[i] : i \in Indexes \cap DOMAIN entries}
           at == [k \in there |-> entries[rows[k].index]]
<1>1. rows \in Seq([record: Records, index: 1..MaxEntries]) /\ picked \subseteq DOMAIN rows
  BY DEF TypeOK
<1>2. Len(rows) \in Nat /\ DOMAIN rows = 1..Len(rows)
  BY <1>1, LenProperties
<1>3. IsFiniteSet(1..Len(rows))
  BY <1>2, FS_Interval
<1>4. IsFiniteSet(picked)
  BY <1>1, <1>2, <1>3, FS_Subset
<1>5. IsFiniteSet(there) /\ Cardinality(there) <= Cardinality(picked)
  BY <1>4, FS_Subset
<1>6. at \in [there -> hit] /\ \A r \in hit : \E k \in there : at[k] = r
  BY DEF Indexes
<1> HIDE DEF at, hit, there
<1>7. at \in Surjection(there, hit)
  BY <1>6 DEF Surjection
<1>8. IsFiniteSet(hit) /\ Cardinality(hit) <= Cardinality(there)
  BY <1>5, <1>7, FS_Surjection
<1>9. Cardinality(hit) \in Nat /\ Cardinality(there) \in Nat /\ Cardinality(picked) \in Nat
  BY <1>4, <1>5, <1>8, FS_CardinalityType
<1>10. Cardinality(hit) <= Cardinality(picked)
  BY <1>5, <1>8, <1>9
<1> QED
  BY <1>4, <1>8, <1>10 DEF hit

\* HistoryStore::Remove: what is gone are the records at these positions.
LEMMA Gone ==
  ASSUME TypeOK, UiRemoves
  PROVE  ToSet(entries) \ ToSet(entries') = {entries[i] : i \in Indexes \cap DOMAIN entries}
<1>1. ToSet(entries') = {entries[i] : i \in DOMAIN entries \ Indexes}
  BY Removed
<1>2. \A i, j \in DOMAIN entries : entries[i] = entries[j] => i = j
  BY TypeParts DEF StoreOK, ListOK, IsInjective
<1>3. ToSet(entries) = {entries[i] : i \in DOMAIN entries}
  BY DEF ToSet
<1> QED
  BY <1>1, <1>2, <1>3

\* The only step from the question to the next fill or save is Remove.
LEMMA RemovesIs ==
  ASSUME TypeOK, Next, pc[UI] = "delete?", pc'[UI] \in {"snap", "count"}
  PROVE  UiRemoves
<1>1. pc \in [Threads -> Steps] /\ UI \in Threads /\ UI \notin Uploads
  BY ThreadsAssumption DEF TypeOK, Threads
<1> USE <1>1 DEF Goto
<1>2. ASSUME NEW u \in Uploads,
             \/ UploadStarts(u) \/ UploadReads(u) \/ UploadFails(u) \/ UploadSums(u)
             \/ UploadStores(u) \/ UploadRecords(u) \/ UploadCounts(u)
      PROVE  pc'[UI] = pc[UI]
  BY <1>2 DEF UploadStarts, UploadReads, UploadFails, UploadSums, UploadStores, UploadRecords,
              UploadCounts, SetFileProgress
<1>3. ASSUME NEW t \in Threads, SavesOf(t)
      PROVE  pc'[UI] = pc[UI] \/ pc[UI] # "delete?"
  BY <1>3 DEF SavesOf, SaveSnaps, SaveOpens, SaveSkips, SaveWrites, SaveCloses
<1>4. CASE UiShows \/ UiClears
  BY <1>4 DEF UiShows, UiOpens, UiCounts, UiGets, UiAsks, UiDeclines, UiCloses, UiClears
<1>5. CASE Restart
  BY <1>5, <1>1, ThreadsAssumption DEF Restart
<1> QED
  BY <1>2, <1>3, <1>4, <1>5 DEF Next, SavesOf, UiShows

\* "Delete the %d selected record(s)": HistoryStore::Remove never deletes more
\* records than were selected, and exactly these unless a record was added
\* since FillHistoryList counted.
THEOREM RemovesTheorem == Spec => RemovesSelected
<1> DEFINE Asked == pc[UI] = "delete?" /\ pc'[UI] \in {"snap", "count"}
           Said == LET gone == ToSet(entries) \ ToSet(entries') IN
                   /\ Cardinality(gone) <= Cardinality(picked)
                   /\ ~moved => gone = {rows[k].record : k \in picked}
<1>1. ASSUME IInv, Next, Asked
      PROVE  Said
  <2>1. TypeOK /\ RowsInv
    BY <1>1 DEF IInv
  <2>2. UiRemoves
    BY <1>1, <2>1, RemovesIs
  <2> DEFINE gone == ToSet(entries) \ ToSet(entries')
  <2>3. gone = {entries[i] : i \in Indexes \cap DOMAIN entries}
    BY <2>1, <2>2, Gone
  <2>4. Cardinality(gone) <= Cardinality(picked)
    BY <2>1, <2>3, PickedBound
  <2>5. ASSUME ~moved
        PROVE  gone = {rows[k].record : k \in picked}
    <3>1. \A k \in picked :
            rows[k].index \in DOMAIN entries /\ entries[rows[k].index] = rows[k].record
      BY <1>1, <2>1, <2>5 DEF RowsInv, Showing, TypeOK
    <3> QED
      BY <2>3, <3>1 DEF Indexes
  <2> QED
    BY <2>4, <2>5
<1>2. IInv /\ [Next]_vars => [Asked => Said]_vars
  BY <1>1
<1> QED
  BY <1>2, Invariant, PTL DEF Spec, RemovesSelected
=============================================================================
