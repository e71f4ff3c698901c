--------------------------- MODULE DownloadProofs ---------------------------
(***************************************************************************)
(* Theorems about Download, for any number of receivers, share sessions    *)
(* and files of any length.                                                *)
(*                                                                         *)
(* A file on disk is tied to the target of the job that created it         *)
(* (DiskInv), and an open one to what its job has received (OpenInv).      *)
(* What is counted stays as it was received as long as its target is       *)
(* nobody else's (CountInv).                                               *)
(***************************************************************************)
EXTENDS Download, TLAPS

\* The steps at which a job has its list, its targets, a file.
WithList   == {"name", "begin", "check", "ask", "read", "spins", "delete", "count",
               "failed", "canceled", "done"}
WithPaths  == WithList \ {"name"}
WithFile   == {"ask", "read", "spins", "delete", "count"}
Receiving  == {"ask", "read", "spins"}

\* The list of a job, and the entry of one of its files.
List(j)     == listing[sess[j]]
EntryOf(j, i) == List(j)[i]

JobOK(j) ==
  /\ xfer[j] = "none" <=> pc[j] = "none"
  /\ xfer[j] = "done" => pc[j] = "ended" /\ DOMAIN path[j] = DOMAIN List(j)
  /\ pc[j] \in WithList \/ xfer[j] = "done" \/ DOMAIN path[j] # {} => sess[j] \in 1..current
  /\ pc[j] \in {"none", "list"} => DOMAIN path[j] = {}
  /\ DOMAIN path[j] # {} => DOMAIN path[j] \subseteq DOMAIN List(j)
  /\ pc[j] \in {"name", "begin"} => left[j] = DOMAIN List(j)
  /\ pc[j] \in WithPaths => DOMAIN path[j] = DOMAIN List(j) /\ left[j] \subseteq DOMAIN List(j)
  /\ pc[j] \in WithFile => fid[j] \in left[j]
  /\ pc[j] = "done" => left[j] = {}

JobInv == \A j \in Jobs : JobOK(j)

\* A file is open for the job that is receiving it, and has what that received.
Opened(j, bytes) ==
  disk[Target(j)] = [job |-> j, id |-> fid[j], bytes |-> bytes,
                     file |-> IF pc[j] = "ask" THEN None ELSE EntryOf(j, fid[j]).file]

OpenOK(j) ==
  pc[j] \in Receiving =>
    /\ handle[Target(j)] = j
    /\ \E n \in 0..MaxSize : Opened(j, n) /\ (IF pc[j] = "ask" THEN n = 0 ELSE n <= avail[j])
    /\ pc[j] = "read" => j \in foreign \/ length[j] = EntryOf(j, fid[j]).size

OpenInv ==
  /\ \A j \in Jobs : OpenOK(j)
  /\ \A p \in Paths : handle[p] # None => pc[handle[p]] \in Receiving /\ Target(handle[p]) = p

\* A file of this program is at the target it was opened for.
DiskOK(p) ==
  disk[p] # None /\ disk[p].job # None =>
    LET k == disk[p].job i == disk[p].id IN
    /\ i \in DOMAIN path[k] /\ path[k][i] = p
    /\ disk[p].file \in {None, EntryOf(k, i).file}

DiskInv ==
  /\ \A p \in Paths : DiskOK(p)
  /\ \A p \in Paths : disk[p] # None /\ disk[p].job = None => disk[p].file = None

\* A file that was received is there.
There(j, i) ==
  \E n \in 0..MaxSize :
    /\ AsListed(j, i, n)
    /\ disk[path[j][i]] = [job |-> j, id |-> i, file |-> EntryOf(j, i).file, bytes |-> n]

Counted(j) ==
  IF pc[j] \in WithFile \cup {"check", "done"} THEN
    (DOMAIN path[j] \ left[j]) \cup (IF pc[j] = "count" THEN {fid[j]} ELSE {})
  ELSE IF xfer[j] = "done" THEN DOMAIN path[j] ELSE {}

CountInv == \A j \in Jobs : \A i \in Counted(j) : Contested(j, i) \/ There(j, i)

IInv == TypeOK /\ JobInv /\ OpenInv /\ DiskInv /\ CountInv /\ NoPartialFile

-----------------------------------------------------------------------------
(* Types                                                                    *)

\* A list is made of entries, a table of targets of paths.
LEMMA ListingIs ==
  ASSUME NEW L \in Listings
  PROVE  /\ DOMAIN L \in SUBSET Ids
         /\ \A i \in DOMAIN L : /\ L[i] \in Entry
                                /\ L[i].file \in Sources /\ L[i].size \in 0..MaxSize
                                /\ L[i].file # None
<1>1. PICK D \in SUBSET Ids : L \in [D -> Entry]
  BY DEF Listings
<1>2. \A i \in D : L[i] \in Entry
  BY <1>1
<1>3. \A e \in Entry : e.file \in Sources /\ e.size \in 0..MaxSize /\ e.file # None
  BY NoneAssumption DEF Entry
<1> QED
  BY <1>1, <1>2, <1>3

LEMMA TargetsIs ==
  ASSUME NEW t \in Targets
  PROVE  /\ DOMAIN t \in SUBSET Ids
         /\ \A i \in DOMAIN t : t[i] \in Paths
  BY DEF Targets

\* The list of a session that was opened is one.
LEMMA ListIs ==
  ASSUME TypeOK, NEW s \in 1..current
  PROVE  s \in Sessions /\ listing[s] \in Listings
<1>1. current \in 0..MaxShares
  BY DEF TypeOK
<1>2. s \in Sessions /\ s <= current
  BY <1>1, BoundsAssumption DEF Sessions
<1> QED
  BY <1>2 DEF TypeOK

\* What a file on disk is.
LEMMA ContentIs ==
  ASSUME NEW c \in Content
  PROVE  /\ c.job \in Jobs \cup {None} /\ c.id \in Ids \cup {None}
         /\ c.file \in Sources \cup {None} /\ c.bytes \in 0..MaxSize
         /\ \A f \in Sources \cup {None} : [c EXCEPT !.file = f] \in Content
         /\ \A n \in 0..MaxSize : [c EXCEPT !.bytes = n] \in Content
  BY DEF Content

\* The target of the file a job is at.
LEMMA TargetIs ==
  ASSUME TypeOK, JobInv, NEW j \in Jobs, pc[j] \in WithFile
  PROVE  /\ sess[j] \in 1..current
         /\ fid[j] \in DOMAIN List(j) /\ fid[j] \in DOMAIN path[j] /\ fid[j] \in left[j]
         /\ Target(j) \in Paths
         /\ EntryOf(j, fid[j]).file \in Sources /\ EntryOf(j, fid[j]).file # None
         /\ EntryOf(j, fid[j]).size \in 0..MaxSize
<1>1. JobOK(j)
  BY DEF JobInv
<1>2. /\ sess[j] \in 1..current
      /\ fid[j] \in left[j] /\ left[j] \subseteq DOMAIN List(j) /\ DOMAIN path[j] = DOMAIN List(j)
  BY <1>1 DEF JobOK, WithFile, WithPaths, WithList
<1>3. path[j] \in Targets
  BY DEF TypeOK
<1>4. listing[sess[j]] \in Listings
  BY <1>2, ListIs
<1> QED
  BY <1>2, <1>3, <1>4, TargetsIs, ListingIs DEF Target, List, EntryOf

\* The listing a sharer makes is a listing.
LEMMA SharedIs ==
  ASSUME TypeOK, NEW l \in Lists,
         NEW D \in SUBSET DOMAIN l, \A i \in D : size[l[i]] # None
  PROVE  [i \in D |-> [file |-> l[i], size |-> size[l[i]]]] \in Listings
<1>1. DOMAIN l \in SUBSET Ids
  BY DEF Ids
<1>2. \A i \in D : l[i] \in Sources /\ size[l[i]] \in 0..MaxSize
  BY ListsAssumption DEF TypeOK
<1>3. [i \in D |-> [file |-> l[i], size |-> size[l[i]]]] \in [D -> Entry]
  BY <1>2 DEF Entry
<1> QED
  BY <1>1, <1>3 DEF Listings

\* Initially.
LEMMA InitTypes == Init => TypeOK
<1> SUFFICES ASSUME Init PROVE TypeOK
  OBVIOUS
<1>1. NoTargets \in Targets
  BY DEF NoTargets, Targets
<1>2. UserFile \in Content
  BY BoundsAssumption DEF UserFile, Content
<1>3. disk \in [Paths -> Content \cup {None}]
  BY <1>2 DEF Init
<1>4. \A s \in Sessions : ~ (s <= current)
  BY BoundsAssumption DEF Init, Sessions
<1> QED
  BY <1>1, <1>3, <1>4, BoundsAssumption DEF Init, TypeOK, States, Steps

\* What UserShares does to the lists.
LEMMA SharesTypes ==
  ASSUME TypeOK, NEW l \in Lists, UserShares(l)
  PROVE  /\ current' = current + 1 /\ current' \in 1..MaxShares
         /\ listing' \in [Sessions -> Listings \cup {None}]
         /\ \A s \in Sessions : IF s <= current' THEN listing'[s] \in Listings ELSE listing'[s] = None
         /\ \A s \in 1..current : listing'[s] = listing[s]
<1> DEFINE there == {i \in DOMAIN l : size[l[i]] # None}
           new == [i \in there |-> [file |-> l[i], size |-> size[l[i]]]]
<1>1. new \in Listings
  BY SharedIs
<1>2. current' = current + 1 /\ current \in 0..MaxShares /\ current < MaxShares
  BY DEF UserShares, TypeOK
<1>3. listing' = [listing EXCEPT ![current'] = new]
  BY DEF UserShares
<1>4. current' \in Sessions /\ current' \in 1..MaxShares
  BY <1>2, BoundsAssumption DEF Sessions
<1>5. listing \in [Sessions -> Listings \cup {None}]
  BY DEF TypeOK
<1>6. listing' \in [Sessions -> Listings \cup {None}]
  BY <1>1, <1>3, <1>4, <1>5
<1>7. ASSUME NEW s \in Sessions
      PROVE  IF s <= current' THEN listing'[s] \in Listings ELSE listing'[s] = None
  <2>1. CASE s = current'
    BY <2>1, <1>1, <1>2, <1>3, <1>4, <1>5
  <2>2. CASE s # current'
    <3>1. listing'[s] = listing[s]
      BY <2>2, <1>3, <1>5
    <3>2. s <= current' <=> s <= current
      BY <2>2, <1>2, BoundsAssumption DEF Sessions
    <3> QED
      BY <3>1, <3>2 DEF TypeOK
  <2> QED
    BY <2>1, <2>2
<1>8. ASSUME NEW s \in 1..current
      PROVE  listing'[s] = listing[s]
  <2>1. s \in Sessions /\ s # current'
    BY <1>2, BoundsAssumption DEF Sessions
  <2> QED
    BY <2>1, <1>3, <1>5
<1> QED
  BY <1>2, <1>4, <1>6, <1>7, <1>8

\* What a worker that names a file adds to its table.
LEMMA NamesTypes ==
  ASSUME TypeOK, JobInv, NEW j \in Jobs, JobNames(j)
  PROVE  /\ path' \in [Jobs -> Targets]
         /\ \A k \in Jobs \ {j} : path'[k] = path[k]
         /\ DOMAIN path[j] \subseteq DOMAIN path'[j] /\ DOMAIN path'[j] \subseteq DOMAIN path[j] \cup left[j]
         /\ \A m \in DOMAIN path[j] : path'[j][m] = path[j][m]
         /\ DOMAIN path'[j] # {}
<1>1. PICK i \in left[j] \ DOMAIN path[j], k \in 0..MaxDup :
        path' = [path EXCEPT ![j] = [m \in DOMAIN @ \cup {i} |->
                   IF m = i THEN <<NameOf[listing[sess[j]][i].file], k>> ELSE @[m]]]
  BY DEF JobNames
<1> DEFINE name == NameOf[listing[sess[j]][i].file]
           new == [m \in DOMAIN path[j] \cup {i} |-> IF m = i THEN <<name, k>> ELSE path[j][m]]
<1>2. path \in [Jobs -> Targets] /\ path[j] \in Targets
  BY DEF TypeOK
<1>3. path' = [path EXCEPT ![j] = new]
  BY <1>1
<1>4. sess[j] \in 1..current /\ left[j] = DOMAIN listing[sess[j]]
  BY DEF JobInv, JobOK, JobNames, WithList, List
<1>5. listing[sess[j]][i].file \in Sources /\ i \in Ids
  BY <1>1, <1>4, ListIs, ListingIs
<1>6. <<name, k>> \in Paths
  BY <1>5 DEF Paths, Names
<1>7. DOMAIN path[j] \in SUBSET Ids /\ \A m \in DOMAIN path[j] : path[j][m] \in Paths
  BY <1>2, TargetsIs
<1>8. new \in [DOMAIN path[j] \cup {i} -> Paths]
  BY <1>6, <1>7
<1>9. new \in Targets
  <2>1. DOMAIN path[j] \cup {i} \in SUBSET Ids
    BY <1>5, <1>7
  <2> HIDE DEF new
  <2> QED
    BY <2>1, <1>8 DEF Targets
<1>10. DOMAIN new = DOMAIN path[j] \cup {i} /\ \A m \in DOMAIN path[j] : new[m] = path[j][m]
  BY <1>1
<1>11. path'[j] = new
  BY <1>2, <1>3
<1> HIDE DEF new
<1>12. path' \in [Jobs -> Targets] /\ \A k2 \in Jobs \ {j} : path'[k2] = path[k2]
  BY <1>2, <1>3, <1>9
<1> QED
  BY <1>1, <1>10, <1>11, <1>12

\* The file of a job that is receiving.
Open(j, file, bytes) == [job |-> j, id |-> fid[j], file |-> file, bytes |-> bytes]

\* What a job opens is a file without content.
LEMMA OpensDisk ==
  ASSUME TypeOK, JobInv, NEW j \in Jobs, JobOpens(j)
  PROVE  /\ pc[j] = "check" /\ pc' = [pc EXCEPT ![j] = "ask"]
         /\ fid'[j] \in left[j] /\ fid'[j] \in DOMAIN path[j] /\ fid'[j] \in Ids
         /\ path[j][fid'[j]] \in Paths /\ handle[path[j][fid'[j]]] = None
         /\ fid' = [fid EXCEPT ![j] = fid'[j]]
         /\ handle' = [handle EXCEPT ![path[j][fid'[j]]] = j]
         /\ disk' = [disk EXCEPT ![path[j][fid'[j]]] =
                       [job |-> j, id |-> fid'[j], file |-> None, bytes |-> 0]]
<1>1. PICK i \in left[j] :
        /\ handle[path[j][i]] = None
        /\ fid' = [fid EXCEPT ![j] = i]
        /\ handle' = [handle EXCEPT ![path[j][i]] = j]
        /\ disk' = [disk EXCEPT ![path[j][i]] = [job |-> j, id |-> i, file |-> None, bytes |-> 0]]
  BY DEF JobOpens
<1>2. pc[j] = "check" /\ pc' = [pc EXCEPT ![j] = "ask"]
  BY DEF JobOpens, Goto
<1>3. i \in DOMAIN path[j] /\ i \in Ids /\ path[j] \in Targets
  BY <1>2 DEF JobInv, JobOK, WithPaths, WithList, TypeOK
<1>4. path[j][i] \in Paths
  BY <1>3, TargetsIs
<1>5. fid'[j] = i
  BY <1>1 DEF TypeOK
<1> QED
  BY <1>1, <1>2, <1>3, <1>4, <1>5

\* The answer names the file this job's session listed, and this sharer gives
\* the length that was listed: a session that is still served is the current one.
LEMMA AnsweredDisk ==
  ASSUME TypeOK, JobInv, OpenInv, NEW j \in Jobs, JobAnswered(j)
  PROVE  /\ pc[j] = "ask" /\ pc' = [pc EXCEPT ![j] = "read"]
         /\ disk' = [disk EXCEPT ![Target(j)] = Open(j, EntryOf(j, fid[j]).file, 0)]
         /\ length' = [length EXCEPT ![j] = length'[j]] /\ length'[j] \in 0..MaxSize
         /\ avail' = [avail EXCEPT ![j] = avail'[j]] /\ avail'[j] \in 0..MaxSize
         /\ j \in foreign \/ length'[j] = EntryOf(j, fid[j]).size
<1> DEFINE e == EntryOf(j, fid[j])
<1>1. pc[j] = "ask" /\ pc[j] \in WithFile /\ pc[j] \in Receiving
  BY DEF JobAnswered, WithFile, Receiving
<1>2. /\ sess[j] \in 1..current /\ Target(j) \in Paths
      /\ e.file \in Sources /\ e.size \in 0..MaxSize
  BY <1>1, TargetIs
<1>3. sess[j] = current /\ Serves(sess[j], fid[j])
  <2>1. Serves(sess[j], fid[j]) /\ current \in 0..MaxShares
    BY DEF JobAnswered, TypeOK
  <2>2. sess[j] \in {0, current}
    BY <2>1 DEF Serves, Has
  <2> QED
    BY <1>2, <2>1, <2>2, BoundsAssumption
<1>4. Served(fid[j]) = e
  BY <1>3 DEF Served, EntryOf, List
<1> HIDE DEF e
<1>6. PICK m \in 0..MaxSize : Opened(j, m) /\ m = 0
  BY <1>1 DEF OpenInv, OpenOK
<1>7. disk[Target(j)] = [job |-> j, id |-> fid[j], bytes |-> 0, file |-> None]
  BY <1>1, <1>6 DEF Opened
<1>8. [disk[Target(j)] EXCEPT !.file = e.file] = Open(j, e.file, 0)
  BY <1>7 DEF Open
<1>9. disk' = [disk EXCEPT ![Target(j)] = [disk[Target(j)] EXCEPT !.file = e.file]]
  BY <1>2, <1>4 DEF JobAnswered, TypeOK
<1>10. PICK n \in 0..MaxSize, a \in 0..MaxSize :
          /\ length' = [length EXCEPT ![j] = n] /\ avail' = [avail EXCEPT ![j] = a]
          /\ j \in foreign \/ n = Announced(Served(fid[j]))
  BY DEF JobAnswered
<1>11. length'[j] = n /\ avail'[j] = a
  BY <1>10 DEF TypeOK
<1>12. j \in foreign \/ length'[j] = e.size
  BY <1>4, <1>10, <1>11 DEF Announced
<1> QED
  BY <1>1, <1>8, <1>9, <1>10, <1>11, <1>12 DEF e, JobAnswered, Goto

\* A unit arrives, of those the sharer still has.
LEMMA ReadsDisk ==
  ASSUME TypeOK, JobInv, OpenInv, NEW j \in Jobs, JobReads(j)
  PROVE  /\ pc[j] = "read"
         /\ \E n \in 0..MaxSize :
              /\ n + 1 <= avail[j] /\ n + 1 \in 0..MaxSize
              /\ disk' = [disk EXCEPT ![Target(j)] = Open(j, EntryOf(j, fid[j]).file, n + 1)]
<1> DEFINE e == EntryOf(j, fid[j])
<1>1. pc[j] = "read" /\ pc[j] \in WithFile /\ pc[j] \in Receiving
  BY DEF JobReads, WithFile, Receiving
<1>2. Target(j) \in Paths
  BY <1>1, TargetIs
<1>3. avail[j] \in 0..MaxSize
  BY DEF TypeOK
<1> HIDE DEF e
<1>4. PICK n \in 0..MaxSize : Opened(j, n) /\ n <= avail[j]
  BY <1>1 DEF OpenInv, OpenOK
<1>5. disk[Target(j)] = [job |-> j, id |-> fid[j], bytes |-> n, file |-> e.file]
  BY <1>1, <1>4 DEF Opened, e
<1>6. Received(j) = n
  BY <1>5 DEF Received
<1>7. n + 1 <= avail[j] /\ n + 1 \in 0..MaxSize
  BY <1>3, <1>4, <1>6, BoundsAssumption DEF JobReads
<1>8. [disk[Target(j)] EXCEPT !.bytes = n + 1] = Open(j, e.file, n + 1)
  BY <1>5 DEF Open
<1>9. disk' = [disk EXCEPT ![Target(j)] = [disk[Target(j)] EXCEPT !.bytes = n + 1]]
  BY <1>2, <1>6 DEF JobReads, TypeOK, Received
<1> QED
  BY <1>1, <1>3, <1>7, <1>8, <1>9 DEF e

\* A file of a job is one of the contents a path may have.
LEMMA OpenIs ==
  ASSUME NEW j \in Jobs, NEW i \in Ids, NEW file \in Sources \cup {None}, NEW n \in 0..MaxSize
  PROVE  [job |-> j, id |-> i, file |-> file, bytes |-> n] \in Content
  BY DEF Content

LEMMA TypeStep ==
  ASSUME TypeOK, JobInv, OpenInv, Next
  PROVE  TypeOK'
<1> USE DEF sharer, table, locals, store
<1> DEFINE disks == [Paths -> Content \cup {None}]
<1>1. ASSUME NEW l \in Lists, UserShares(l)
      PROVE  TypeOK'
  <2>1. current' \in 0..MaxShares
    BY <1>1, SharesTypes, BoundsAssumption
  <2>2. UNCHANGED <<size, foreign, xfer, cancelReq, pc, sess, path, left, fid, length, avail,
                    disk, handle, logged>>
    BY <1>1 DEF UserShares
  <2> QED
    BY <1>1, <2>1, <2>2, SharesTypes DEF TypeOK
<1>2. ASSUME NEW f \in Sources, UserEdits(f)
      PROVE  TypeOK'
  BY <1>2 DEF UserEdits, TypeOK
<1>3. ASSUME NEW j \in Jobs, NEW s \in 0..current, UserReceives(j, s)
      PROVE  TypeOK'
  <2>1. s \in 0..MaxShares
    BY BoundsAssumption DEF TypeOK
  <2>2. foreign' \in SUBSET Jobs
    BY <1>3 DEF UserReceives, TypeOK
  <2>3. xfer' \in [Jobs -> States] /\ pc' \in [Jobs -> Steps]
    BY <1>3 DEF UserReceives, TypeOK, SetState, Goto, States, Final, Steps
  <2> QED
    BY <1>3, <2>1, <2>2, <2>3 DEF UserReceives, TypeOK
<1>4. ASSUME NEW j \in Jobs, UserCancels(j)
      PROVE  TypeOK'
  BY <1>4 DEF UserCancels, TypeOK
<1>5. CASE UserClears
  BY <1>5 DEF UserClears, TypeOK, States
<1>6. ASSUME NEW j \in Jobs, Job(j)
      PROVE  TypeOK'
  <2>1. CASE JobListed(j)
    <3>1. Has(sess[j])
      BY <2>1, NoneAssumption DEF JobListed, Listed
    <3>2. current \in 1..current /\ current \in 0..MaxShares
      BY <3>1, BoundsAssumption DEF Has, TypeOK
    <3>3. DOMAIN listing[current] \in SUBSET Ids
      BY <3>2, ListIs, ListingIs
    <3>4. /\ sess' = [sess EXCEPT ![j] = current]
          /\ left' = [left EXCEPT ![j] = DOMAIN listing[current]]
      BY <2>1, <3>1 DEF JobListed, Listed
    <3> QED
      BY <2>1, <3>2, <3>3, <3>4 DEF JobListed, TypeOK, Goto, Steps
  <2>2. CASE JobUnlisted(j)
    BY <2>2 DEF JobUnlisted, TypeOK, SetState, Goto, States, Final, Steps
  <2>3. CASE JobNames(j)
    <3>1. path' \in [Jobs -> Targets]
      BY <2>3, NamesTypes
    <3> QED
      BY <2>3, <3>1 DEF JobNames, TypeOK, Goto, Steps
  <2>4. CASE JobBegin(j)
    BY <2>4 DEF JobBegin, TypeOK, SetState, Goto, States, Steps
  <2>5. CASE JobLeaves(j)
    BY <2>5 DEF JobLeaves, TypeOK, Goto, Steps
  <2>6. CASE JobOpens(j)
    <3>1. [job |-> j, id |-> fid'[j], file |-> None, bytes |-> 0] \in Content
      BY <2>6, OpensDisk, OpenIs, BoundsAssumption
    <3>2. disk' \in disks
      BY <2>6, <3>1, OpensDisk DEF TypeOK
    <3>3. fid' \in [Jobs -> Ids \cup {None}]
      BY <2>6, OpensDisk DEF TypeOK
    <3>4. handle' \in [Paths -> Jobs \cup {None}]
      <4>1. handle' = [handle EXCEPT ![path[j][fid'[j]]] = j]
        BY <2>6, OpensDisk
      <4>2. handle \in [Paths -> Jobs \cup {None}]
        BY DEF TypeOK
      <4> QED
        BY <4>1, <4>2
    <3>5. pc' \in [Jobs -> Steps]
      BY <2>6, OpensDisk DEF TypeOK, Steps
    <3> QED
      BY <2>6, <3>2, <3>3, <3>4, <3>5 DEF JobOpens, TypeOK
  <2>7. CASE JobOpenFails(j)
    BY <2>7 DEF JobOpenFails, TypeOK, Goto, Steps, Explained
  <2>8. CASE JobAnswered(j)
    <3>1. pc[j] \in WithFile
      BY <2>8 DEF JobAnswered, WithFile
    <3>2. fid[j] \in Ids /\ EntryOf(j, fid[j]).file \in Sources
      BY <3>1, TargetIs DEF TypeOK
    <3> DEFINE file == EntryOf(j, fid[j]).file
    <3>3. Open(j, file, 0) \in Content
      BY <3>2, OpenIs, BoundsAssumption DEF Open
    <3>4. disk' = [disk EXCEPT ![Target(j)] = Open(j, file, 0)]
      BY <2>8, AnsweredDisk
    <3>5. disk' \in disks
      BY <3>3, <3>4 DEF TypeOK
    <3>6. length' \in [Jobs -> 0..MaxSize] /\ avail' \in [Jobs -> 0..MaxSize]
      BY <2>8, AnsweredDisk DEF TypeOK
    <3> QED
      BY <2>8, <3>5, <3>6 DEF JobAnswered, TypeOK, Goto, Steps
  <2>9. CASE JobReads(j)
    <3>1. pc[j] \in WithFile
      BY <2>9 DEF JobReads, WithFile
    <3>2. fid[j] \in Ids /\ EntryOf(j, fid[j]).file \in Sources
      BY <3>1, TargetIs DEF TypeOK
    <3> DEFINE file == EntryOf(j, fid[j]).file
    <3>3. PICK n \in 0..MaxSize :
             n + 1 \in 0..MaxSize /\ disk' = [disk EXCEPT ![Target(j)] = Open(j, file, n + 1)]
      BY <2>9, ReadsDisk
    <3>4. Open(j, file, n + 1) \in Content
      BY <3>2, <3>3, OpenIs DEF Open
    <3>5. disk' \in disks
      BY <3>3, <3>4 DEF TypeOK
    <3> QED
      BY <2>9, <3>5 DEF JobReads, TypeOK
  <2>10. CASE JobReadAll(j)
    <3>1. logged' \in SUBSET (Jobs \X Ids)
      <4>1. fid[j] \in Ids /\ logged \in SUBSET (Jobs \X Ids)
        BY <2>10, TargetIs DEF JobReadAll, WithFile, TypeOK
      <4>2. logged' \in {logged, logged \cup {<<j, fid[j]>>}}
        BY <2>10 DEF JobReadAll
      <4> QED
        BY <4>1, <4>2
    <3> QED
      BY <2>10, <3>1 DEF JobReadAll, TypeOK, Goto, Steps
  <2>10a. CASE JobSpins(j)
    BY <2>10a DEF JobSpins, TypeOK, Goto, Steps
  <2>11. CASE JobStops(j)
    BY <2>11 DEF JobStops, TypeOK, Goto, Steps
  <2>12. CASE JobDeletes(j)
    BY <2>12 DEF JobDeletes, TypeOK, Goto, Steps, Explained
  <2>13. CASE JobCounts(j)
    BY <2>13 DEF JobCounts, TypeOK, Goto, Steps
  <2>14. CASE JobEnds(j)
    BY <2>14, BoundsAssumption DEF JobEnds, TypeOK, SetState, Goto, States, Final, Steps
  <2> QED
    BY <1>6, <2>1, <2>2, <2>3, <2>4, <2>5, <2>6, <2>7, <2>8, <2>9, <2>10, <2>10a, <2>11, <2>12,
       <2>13, <2>14 DEF Job
<1> QED
  BY <1>1, <1>2, <1>3, <1>4, <1>5, <1>6 DEF Next

-----------------------------------------------------------------------------
(* The jobs                                                                 *)

\* What the other jobs know of themselves when one takes a step.
Same(k) ==
  /\ xfer'[k] = xfer[k] /\ pc'[k] = pc[k] /\ sess'[k] = sess[k] /\ path'[k] = path[k]
  /\ left'[k] = left[k] /\ fid'[k] = fid[k] /\ length'[k] = length[k] /\ avail'[k] = avail[k]

LEMMA OthersStay ==
  ASSUME TypeOK, JobInv, NEW j \in Jobs, Job(j)
  PROVE  /\ UNCHANGED <<size, current, listing, foreign, cancelReq>>
         /\ \A k \in Jobs \ {j} : Same(k)
<1> USE DEF sharer, table, locals, store, Same, TypeOK, Goto, SetState
<1>1. CASE JobListed(j)
  BY <1>1 DEF JobListed
<1>2. CASE JobUnlisted(j)
  BY <1>2 DEF JobUnlisted
<1>3. CASE JobNames(j)
  BY <1>3, NamesTypes DEF JobNames
<1>4. CASE JobBegin(j)
  BY <1>4 DEF JobBegin
<1>5. CASE JobLeaves(j)
  BY <1>5 DEF JobLeaves
<1>6. CASE JobOpens(j)
  BY <1>6 DEF JobOpens
<1>7. CASE JobOpenFails(j)
  BY <1>7 DEF JobOpenFails
<1>8. CASE JobAnswered(j)
  BY <1>8 DEF JobAnswered
<1>9. CASE JobReads(j)
  BY <1>9 DEF JobReads
<1>10. CASE JobReadAll(j) \/ JobSpins(j)
  BY <1>10 DEF JobReadAll, JobSpins
<1>11. CASE JobStops(j)
  BY <1>11 DEF JobStops
<1>12. CASE JobDeletes(j)
  BY <1>12 DEF JobDeletes
<1>13. CASE JobCounts(j)
  BY <1>13 DEF JobCounts
<1>14. CASE JobEnds(j)
  BY <1>14 DEF JobEnds
<1> QED
  BY <1>1, <1>2, <1>3, <1>4, <1>5, <1>6, <1>7, <1>8, <1>9, <1>10, <1>11, <1>12, <1>13, <1>14
     DEF Job

\* A job that is not touched keeps its list, also when the sharer shares again.
LEMMA JobStays ==
  ASSUME JobInv, NEW k \in Jobs, Same(k),
         current \in Nat, current' \in Nat, current <= current',
         \A s \in 1..current : listing'[s] = listing[s]
  PROVE  JobOK(k)'
<1>1. JobOK(k)
  BY DEF JobInv
<1>2. sess[k] \in 1..current => sess[k] \in 1..current' /\ listing'[sess[k]] = listing[sess[k]]
  OBVIOUS
<1> QED
  BY <1>1, <1>2 DEF JobOK, Same, List, WithList, WithPaths, WithFile

\* A worker's step leaves it with what its next step needs.
LEMMA JobMoves ==
  ASSUME TypeOK, JobInv, OpenInv, NEW j \in Jobs, Job(j)
  PROVE  JobOK(j)'
<1>1. JobOK(j) /\ listing' = listing /\ current' = current /\ current \in 0..MaxShares
  BY OthersStay DEF JobInv, TypeOK
<1>2. /\ xfer \in [Jobs -> States] /\ pc \in [Jobs -> Steps] /\ sess \in [Jobs -> 0..MaxShares]
      /\ path \in [Jobs -> Targets] /\ left \in [Jobs -> SUBSET Ids]
      /\ fid \in [Jobs -> Ids \cup {None}]
  BY DEF TypeOK
<1> USE <1>1, <1>2 DEF JobOK, WithList, WithPaths, WithFile, Goto, SetState, List, sharer, table,
                       locals, store
<1>3. CASE JobListed(j)
  <2>1. Has(sess[j])
    BY <1>3, NoneAssumption DEF JobListed, Listed
  <2>2. current \in 1..current /\ sess'[j] = current /\ left'[j] = DOMAIN listing[current]
    BY <1>3, <2>1, BoundsAssumption DEF JobListed, Listed, Has
  <2>3. /\ pc[j] = "list" /\ pc'[j] = "name" /\ xfer'[j] = xfer[j] /\ path'[j] = path[j]
    BY <1>3 DEF JobListed
  <2> QED
    BY <2>2, <2>3
<1>4. CASE JobUnlisted(j)
  <2>1. /\ pc[j] = "list" /\ pc'[j] = "ended" /\ xfer'[j] \in {"pin_required", "failed"}
        /\ sess'[j] = sess[j] /\ path'[j] = path[j]
    BY <1>4 DEF JobUnlisted
  <2> QED
    BY <2>1
<1>5. CASE JobNames(j)
  <2>1. /\ pc[j] = "name" /\ pc'[j] = (IF DOMAIN path'[j] = left[j] THEN "begin" ELSE "name")
        /\ xfer'[j] = xfer[j] /\ sess'[j] = sess[j] /\ left'[j] = left[j]
    BY <1>5 DEF JobNames
  <2>2. DOMAIN path'[j] \subseteq DOMAIN path[j] \cup left[j]
    BY <1>5, NamesTypes
  <2> QED
    BY <2>1, <2>2
<1>6. CASE JobBegin(j)
  <2>1. /\ pc[j] = "begin" /\ pc'[j] = "check" /\ xfer'[j] = "transferring"
        /\ sess'[j] = sess[j] /\ path'[j] = path[j] /\ left'[j] = left[j]
    BY <1>6 DEF JobBegin
  <2> QED
    BY <2>1
<1>7. CASE JobLeaves(j)
  <2>1. /\ pc[j] = "check" /\ pc'[j] \in {"done", "canceled"} /\ xfer'[j] = xfer[j]
        /\ sess'[j] = sess[j] /\ path'[j] = path[j] /\ left'[j] = left[j]
        /\ pc'[j] = "done" => left[j] = {}
    BY <1>7 DEF JobLeaves
  <2> QED
    BY <2>1
<1>8. CASE JobOpens(j)
  <2>1. pc[j] = "check" /\ pc'[j] = "ask"
    BY <1>8 DEF JobOpens
  <2>2. fid'[j] \in left[j]
    BY <1>8, OpensDisk
  <2>3. /\ xfer'[j] = xfer[j] /\ sess'[j] = sess[j] /\ path'[j] = path[j] /\ left'[j] = left[j]
    BY <1>8 DEF JobOpens
  <2> QED
    BY <2>1, <2>2, <2>3
<1>9. CASE JobOpenFails(j)
  <2>1. /\ pc[j] = "check" /\ pc'[j] \in {"failed", "canceled"} /\ xfer'[j] = xfer[j]
        /\ sess'[j] = sess[j] /\ path'[j] = path[j] /\ left'[j] = left[j]
    BY <1>9 DEF JobOpenFails, Explained
  <2> QED
    BY <2>1
<1>10. CASE JobAnswered(j) \/ JobReads(j) \/ JobReadAll(j) \/ JobSpins(j) \/ JobStops(j)
  <2>1. /\ pc[j] \in {"ask", "read"} /\ pc'[j] \in {"read", "spins", "count", "delete"}
        /\ xfer'[j] = xfer[j] /\ sess'[j] = sess[j] /\ path'[j] = path[j]
        /\ left'[j] = left[j] /\ fid'[j] = fid[j]
    BY <1>10 DEF JobAnswered, JobReads, JobReadAll, JobSpins, JobStops
  <2> QED
    BY <2>1
<1>11. CASE JobDeletes(j)
  <2>1. /\ pc[j] = "delete" /\ pc'[j] \in {"failed", "canceled"} /\ xfer'[j] = xfer[j]
        /\ sess'[j] = sess[j] /\ path'[j] = path[j] /\ left'[j] = left[j]
    BY <1>11 DEF JobDeletes, Explained
  <2> QED
    BY <2>1
<1>12. CASE JobCounts(j)
  <2>1. /\ pc[j] = "count" /\ pc'[j] = "check" /\ xfer'[j] = xfer[j]
        /\ sess'[j] = sess[j] /\ path'[j] = path[j] /\ left'[j] = left[j] \ {fid[j]}
    BY <1>12 DEF JobCounts
  <2> QED
    BY <2>1
<1>13. CASE JobEnds(j)
  <2>1. /\ pc[j] \in Final /\ pc'[j] = "ended" /\ xfer'[j] = pc[j]
        /\ sess'[j] = sess[j] /\ path'[j] = path[j]
    BY <1>13 DEF JobEnds
  <2> QED
    BY <2>1 DEF Final
<1> QED
  BY <1>3, <1>4, <1>5, <1>6, <1>7, <1>8, <1>9, <1>10, <1>11, <1>12, <1>13 DEF Job

LEMMA JobStep ==
  ASSUME TypeOK, JobInv, OpenInv, Next
  PROVE  JobInv'
<1> USE DEF sharer, table, locals, store
<1>0. current \in Nat
  BY BoundsAssumption DEF TypeOK
<1>1. ASSUME NEW l \in Lists, UserShares(l)
      PROVE  JobInv'
  <2>1. \A k \in Jobs : Same(k)
    BY <1>1 DEF UserShares, Same
  <2>2. current' = current + 1 /\ \A s \in 1..current : listing'[s] = listing[s]
    BY <1>1, SharesTypes
  <2> QED
    BY <1>0, <2>1, <2>2, JobStays DEF JobInv
<1>2. ASSUME NEW f \in Sources, UserEdits(f)
      PROVE  JobInv'
  BY <1>0, <1>2, JobStays DEF UserEdits, Same, JobInv
<1>3. ASSUME NEW j \in Jobs, NEW s \in 0..current, UserReceives(j, s)
      PROVE  JobInv'
  <2>1. /\ xfer[j] = "none"
        /\ UNCHANGED <<size, current, listing, cancelReq, path, left, fid, length, avail, store>>
        /\ sess' = [sess EXCEPT ![j] = s]
        /\ \/ xfer' = [xfer EXCEPT ![j] = "waiting"] /\ pc' = [pc EXCEPT ![j] = "list"]
           \/ xfer' = [xfer EXCEPT ![j] = "failed"] /\ pc' = [pc EXCEPT ![j] = "ended"]
    BY <1>3 DEF UserReceives, SetState, Goto
  <2>2. ASSUME NEW k \in Jobs \ {j}
        PROVE  JobOK(k)'
    <3>1. Same(k)
      BY <2>1 DEF Same, TypeOK
    <3> QED
      BY <1>0, <2>1, <3>1, JobStays
  <2>3. JobOK(j)'
    <3>1. DOMAIN path[j] = {}
      BY <2>1 DEF JobInv, JobOK
    <3>2. /\ path'[j] = path[j] /\ pc'[j] \in {"list", "ended"} /\ xfer'[j] \in {"waiting", "failed"}
      BY <2>1 DEF TypeOK
    <3> QED
      BY <3>1, <3>2 DEF JobOK, WithList, WithPaths, WithFile
  <2> QED
    BY <2>2, <2>3 DEF JobInv
<1>4. ASSUME NEW j \in Jobs, UserCancels(j)
      PROVE  JobInv'
  BY <1>0, <1>4, JobStays DEF UserCancels, Same, JobInv
<1>5. CASE UserClears
  <2> SUFFICES ASSUME NEW k \in Jobs
               PROVE  JobOK(k)'
    BY DEF JobInv
  <2>1. /\ UNCHANGED <<sharer, cancelReq, pc, locals, store>>
        /\ xfer'[k] = (IF Removable(k) THEN "removed" ELSE xfer[k])
    BY <1>5 DEF UserClears
  <2>2. JobOK(k)
    BY DEF JobInv
  <2> QED
    BY <2>1, <2>2 DEF JobOK, Removable, Final, List, WithList, WithPaths, WithFile
<1>6. ASSUME NEW j \in Jobs, Job(j)
      PROVE  JobInv'
  BY <1>0, <1>6, OthersStay, JobMoves, JobStays DEF JobInv
<1> QED
  BY <1>1, <1>2, <1>3, <1>4, <1>5, <1>6 DEF Next

-----------------------------------------------------------------------------
(* The open files                                                           *)

\* A receiving job has its target to itself.
LEMMA Apart ==
  ASSUME TypeOK, JobInv, OpenInv, NEW k \in Jobs, pc[k] \in Receiving
  PROVE  /\ Target(k) \in Paths /\ handle[Target(k)] = k /\ k # None
         /\ \A j \in Jobs \ {k} : pc[j] \in Receiving => Target(j) # Target(k)
<1>1. pc[k] \in WithFile
  BY DEF Receiving, WithFile
<1>2. \A j \in Jobs : pc[j] \in Receiving => handle[Target(j)] = j
  BY DEF OpenInv, OpenOK
<1> QED
  BY <1>1, <1>2, TargetIs, NoneAssumption

\* A job keeps what it has open if nothing is done to it.
LEMMA OpenStays ==
  ASSUME TypeOK, JobInv, OpenInv, NEW k \in Jobs,
         \A s \in 1..current : listing'[s] = listing[s],
         UNCHANGED <<pc[k], sess[k], path[k], fid[k], length[k], avail[k]>>,
         pc[k] \in Receiving => UNCHANGED <<disk[Target(k)], handle[Target(k)]>>,
         foreign \subseteq foreign'
  PROVE  /\ OpenOK(k)'
         /\ Target(k)' = Target(k)
<1>1. Target(k)' = Target(k)
  BY DEF Target
<1>2. CASE pc[k] \notin Receiving
  BY <1>1, <1>2 DEF OpenOK
<1>3. CASE pc[k] \in Receiving
  <2>1. pc[k] \in WithFile
    BY <1>3 DEF Receiving, WithFile
  <2>2. EntryOf(k, fid[k])' = EntryOf(k, fid[k])
    BY <2>1, TargetIs DEF EntryOf, List
  <2>3. OpenOK(k)
    BY DEF OpenInv
  <2>4. disk'[Target(k)] = disk[Target(k)] /\ handle'[Target(k)] = handle[Target(k)]
    BY <1>1, <1>3
  <2>5. \A n : Opened(k, n)' <=> Opened(k, n)
    BY <1>1, <2>2, <2>4 DEF Opened
  <2> QED
    BY <1>1, <1>3, <2>2, <2>3, <2>4, <2>5 DEF OpenOK
<1> QED
  BY <1>1, <1>2, <1>3

\* Steps that open nothing, close nothing and write nothing.
LEMMA OpenRests ==
  ASSUME TypeOK, JobInv, OpenInv,
         \A s \in 1..current : listing'[s] = listing[s],
         UNCHANGED <<disk, handle>>, foreign \subseteq foreign',
         \A k \in Jobs : \/ UNCHANGED <<pc[k], sess[k], path[k], fid[k], length[k], avail[k]>>
                         \/ pc[k] \notin Receiving /\ pc'[k] \notin Receiving
  PROVE  OpenInv'
<1>1. ASSUME NEW k \in Jobs
      PROVE  OpenOK(k)' /\ (pc[k] \in Receiving => pc'[k] \in Receiving /\ Target(k)' = Target(k))
  <2>1. CASE UNCHANGED <<pc[k], sess[k], path[k], fid[k], length[k], avail[k]>>
    BY <2>1, OpenStays DEF Target
  <2>2. CASE pc[k] \notin Receiving /\ pc'[k] \notin Receiving
    BY <2>2 DEF OpenOK
  <2> QED
    BY <2>1, <2>2
<1>2. ASSUME NEW p \in Paths, handle'[p] # None
      PROVE  pc'[handle'[p]] \in Receiving /\ Target(handle[p])' = p
  <2>1. handle[p] \in Jobs /\ handle'[p] = handle[p]
    BY <1>2 DEF TypeOK
  <2>2. pc[handle[p]] \in Receiving /\ Target(handle[p]) = p
    BY <1>2, <2>1 DEF OpenInv
  <2> QED
    BY <1>1, <2>1, <2>2
<1> QED
  BY <1>1, <1>2 DEF OpenInv

\* Steps of one job at one path, which no other job has open.
LEMMA OpenMoves ==
  ASSUME TypeOK, JobInv, OpenInv, NEW j \in Jobs, NEW p \in Paths,
         listing' = listing, foreign \subseteq foreign', \A k \in Jobs \ {j} : Same(k),
         \A q \in Paths \ {p} : disk'[q] = disk[q] /\ handle'[q] = handle[q],
         handle[p] \in {None, j}, \A q \in Paths : handle[q] = j => q = p,
         OpenOK(j)',
         handle'[p] # None => handle'[p] = j /\ pc'[j] \in Receiving /\ Target(j)' = p
  PROVE  OpenInv'
<1>1. ASSUME NEW k \in Jobs \ {j}
      PROVE  /\ OpenOK(k)'
             /\ pc'[k] = pc[k] /\ Target(k)' = Target(k)
  <2>1. Target(k)' = Target(k) /\ UNCHANGED <<pc[k], sess[k], path[k], fid[k], length[k], avail[k]>>
    BY DEF Same, Target
  <2>2. pc[k] \in Receiving => UNCHANGED <<disk[Target(k)], handle[Target(k)]>>
    BY <2>1, Apart
  <2> QED
    BY <2>1, <2>2, OpenStays
<1>2. ASSUME NEW q \in Paths, handle'[q] # None
      PROVE  pc'[handle'[q]] \in Receiving /\ Target(handle[q])' = q
  <2>1. CASE q = p
    BY <1>2, <2>1
  <2>2. CASE q # p
    <3>1. handle'[q] = handle[q] /\ handle[q] \in Jobs \ {j}
      BY <1>2, <2>2 DEF TypeOK
    <3>2. pc[handle[q]] \in Receiving /\ Target(handle[q]) = q
      BY <1>2, <3>1 DEF OpenInv
    <3> QED
      BY <1>1, <3>1, <3>2
  <2> QED
    BY <2>1, <2>2
<1> QED
  BY <1>1, <1>2 DEF OpenInv

LEMMA OpenStep ==
  ASSUME TypeOK, JobInv, OpenInv, Next
  PROVE  OpenInv'
<1> USE DEF sharer, table, locals, store
<1>1. ASSUME NEW l \in Lists, UserShares(l)
      PROVE  OpenInv'
  <2>1. \A s \in 1..current : listing'[s] = listing[s]
    BY <1>1, SharesTypes
  <2> QED
    BY <1>1, <2>1, OpenRests DEF UserShares
<1>2. ASSUME NEW f \in Sources, UserEdits(f)
      PROVE  OpenInv'
  BY <1>2, OpenRests DEF UserEdits
<1>3. ASSUME NEW j \in Jobs, NEW s \in 0..current, UserReceives(j, s)
      PROVE  OpenInv'
  <2>1. /\ xfer[j] = "none"
        /\ UNCHANGED <<size, current, listing, cancelReq, path, left, fid, length, avail, store>>
        /\ sess' = [sess EXCEPT ![j] = s] /\ foreign \subseteq foreign'
        /\ pc' = [pc EXCEPT ![j] = "list"] \/ pc' = [pc EXCEPT ![j] = "ended"]
    BY <1>3 DEF UserReceives, SetState, Goto
  <2>2. pc[j] \notin Receiving /\ pc'[j] \notin Receiving
    BY <2>1 DEF JobInv, JobOK, Receiving, TypeOK
  <2>3. \A k \in Jobs \ {j} : UNCHANGED <<pc[k], sess[k], path[k], fid[k], length[k], avail[k]>>
    BY <2>1 DEF TypeOK
  <2> QED
    BY <2>1, <2>2, <2>3, OpenRests
<1>4. ASSUME NEW j \in Jobs, UserCancels(j)
      PROVE  OpenInv'
  BY <1>4, OpenRests DEF UserCancels
<1>5. CASE UserClears
  BY <1>5, OpenRests DEF UserClears
<1>6. ASSUME NEW j \in Jobs, Job(j)
      PROVE  OpenInv'
  <2> USE DEF Goto
  <2>1. listing' = listing /\ foreign' = foreign /\ \A k \in Jobs \ {j} : Same(k)
    BY <1>6, OthersStay
  <2>2. pc \in [Jobs -> Steps]
    BY DEF TypeOK
  <2>3. CASE JobListed(j) \/ JobUnlisted(j) \/ JobNames(j) \/ JobBegin(j) \/ JobLeaves(j)
             \/ JobOpenFails(j) \/ JobCounts(j) \/ JobEnds(j)
    <3>1. pc[j] \notin Receiving /\ pc'[j] \notin Receiving /\ UNCHANGED <<disk, handle>>
      BY <2>2, <2>3 DEF JobListed, JobUnlisted, JobNames, JobBegin, JobLeaves, JobOpenFails,
                        JobCounts, JobEnds, Explained, Receiving, Final
    <3> QED
      BY <2>1, <3>1, OpenRests DEF Same
  <2>4. CASE JobOpens(j)
    <3> DEFINE p == path[j][fid'[j]]
    <3>1. /\ p \in Paths /\ handle[p] = None
          /\ handle' = [handle EXCEPT ![p] = j]
          /\ disk' = [disk EXCEPT ![p] = [job |-> j, id |-> fid'[j], file |-> None, bytes |-> 0]]
      BY <2>4, OpensDisk
    <3>2. pc[j] = "check" /\ pc'[j] = "ask" /\ path' = path
      BY <2>2, <2>4 DEF JobOpens
    <3>3. Target(j)' = p
      BY <3>2 DEF Target
    <3> HIDE DEF p
    <3>4. handle'[p] = j /\ \A q \in Paths \ {p} : disk'[q] = disk[q] /\ handle'[q] = handle[q]
      BY <3>1 DEF TypeOK
    <3>5. disk'[p] = [job |-> j, id |-> fid'[j], file |-> None, bytes |-> 0]
      BY <3>1 DEF TypeOK
    <3>6. Opened(j, 0)'
      BY <3>2, <3>3, <3>5 DEF Opened
    <3>7. OpenOK(j)'
      BY <3>2, <3>3, <3>4, <3>6, BoundsAssumption DEF OpenOK
    <3>8. \A q \in Paths : handle[q] # j
      BY <3>2, NoneAssumption DEF OpenInv, Receiving
    <3> QED
      BY <2>1, <3>1, <3>2, <3>3, <3>4, <3>7, <3>8, OpenMoves DEF Receiving
  <2>5. CASE JobAnswered(j)
    <3> DEFINE p == Target(j)
               e == EntryOf(j, fid[j])
    <3>1. /\ pc[j] = "ask" /\ pc'[j] = "read" /\ UNCHANGED <<sess, path, fid, handle>>
      BY <2>2, <2>5 DEF JobAnswered
    <3>2. p \in Paths /\ handle[p] = j
      BY <3>1, Apart DEF Receiving
    <3>3. \A q \in Paths : handle[q] = j => q = p
      BY NoneAssumption DEF OpenInv
    <3>4. Target(j)' = p /\ EntryOf(j, fid[j])' = e
      BY <2>1, <3>1 DEF Target, EntryOf, List
    <3>5. /\ disk' = [disk EXCEPT ![p] = Open(j, e.file, 0)] /\ avail'[j] \in 0..MaxSize
          /\ j \in foreign \/ length'[j] = e.size
      BY <2>5, AnsweredDisk
    <3> HIDE DEF p, e
    <3>6. disk'[p] = Open(j, e.file, 0) /\ \A q \in Paths \ {p} : disk'[q] = disk[q]
      BY <3>2, <3>5 DEF TypeOK
    <3>7. Opened(j, 0)'
      BY <3>1, <3>4, <3>6 DEF Opened, Open
    <3>9. OpenOK(j)'
      BY <2>1, <3>1, <3>2, <3>4, <3>5, <3>7, BoundsAssumption DEF OpenOK
    <3> QED
      BY <2>1, <3>1, <3>2, <3>3, <3>4, <3>6, <3>9, OpenMoves DEF Receiving
  <2>6. CASE JobReads(j)
    <3> DEFINE p == Target(j)
               e == EntryOf(j, fid[j])
    <3>1. pc[j] = "read" /\ UNCHANGED <<pc, sess, path, fid, length, avail, handle>>
      BY <2>6 DEF JobReads
    <3>2. p \in Paths /\ handle[p] = j
      BY <3>1, Apart DEF Receiving
    <3>3. \A q \in Paths : handle[q] = j => q = p
      BY NoneAssumption DEF OpenInv
    <3>4. Target(j)' = p /\ EntryOf(j, fid[j])' = e
      BY <2>1, <3>1 DEF Target, EntryOf, List
    <3>5. PICK n \in 0..MaxSize : /\ n + 1 <= avail[j] /\ n + 1 \in 0..MaxSize
                                  /\ disk' = [disk EXCEPT ![p] = Open(j, e.file, n + 1)]
      BY <2>6, ReadsDisk
    <3>6. j \in foreign \/ length[j] = e.size
      BY <3>1 DEF OpenInv, OpenOK, Receiving
    <3> HIDE DEF p, e
    <3>7. disk'[p] = Open(j, e.file, n + 1) /\ \A q \in Paths \ {p} : disk'[q] = disk[q]
      BY <3>2, <3>5 DEF TypeOK
    <3>8. Opened(j, n + 1)'
      BY <3>1, <3>4, <3>7 DEF Opened, Open
    <3>9. OpenOK(j)'
      BY <2>1, <3>1, <3>2, <3>4, <3>5, <3>6, <3>8 DEF OpenOK
    <3> QED
      BY <2>1, <3>1, <3>2, <3>3, <3>4, <3>7, <3>9, OpenMoves DEF Receiving
  <2>6a. CASE JobSpins(j)
    <3> DEFINE p == Target(j)
    <3>1. /\ pc[j] = "read" /\ pc'[j] = "spins"
          /\ UNCHANGED <<sess, path, fid, length, avail, disk, handle>>
      BY <2>2, <2>6a DEF JobSpins
    <3>2. p \in Paths /\ handle[p] = j
      BY <3>1, Apart DEF Receiving
    <3>3. \A q \in Paths : handle[q] = j => q = p
      BY NoneAssumption DEF OpenInv
    <3>4. Target(j)' = p /\ EntryOf(j, fid[j])' = EntryOf(j, fid[j])
      BY <2>1, <3>1 DEF Target, EntryOf, List
    <3>5. PICK n \in 0..MaxSize : Opened(j, n) /\ n <= avail[j]
      BY <3>1 DEF OpenInv, OpenOK, Receiving
    <3> HIDE DEF p
    <3>6. Opened(j, n)'
      BY <3>1, <3>4, <3>5 DEF Opened, p
    <3>7. OpenOK(j)'
      BY <3>1, <3>2, <3>4, <3>5, <3>6 DEF OpenOK
    <3> QED
      BY <2>1, <3>1, <3>2, <3>3, <3>4, <3>7, OpenMoves DEF Receiving
  <2>7. CASE JobReadAll(j) \/ JobStops(j)
    <3> DEFINE p == Target(j)
    <3>1. /\ pc[j] \in Receiving /\ pc'[j] \notin Receiving /\ disk' = disk
          /\ handle' = [handle EXCEPT ![p] = None]
      BY <2>2, <2>7 DEF JobReadAll, JobStops, Receiving
    <3>2. p \in Paths /\ handle[p] = j
      BY <3>1, Apart
    <3>3. \A q \in Paths : handle[q] = j => q = p
      BY NoneAssumption DEF OpenInv
    <3> HIDE DEF p
    <3>4. handle'[p] = None /\ \A q \in Paths \ {p} : handle'[q] = handle[q]
      BY <3>1, <3>2 DEF TypeOK
    <3>5. OpenOK(j)'
      BY <3>1 DEF OpenOK
    <3> QED
      BY <2>1, <3>1, <3>2, <3>3, <3>4, <3>5, OpenMoves
  <2>8. CASE JobDeletes(j)
    <3> DEFINE p == Target(j)
    <3>1. /\ pc[j] = "delete" /\ pc'[j] \notin Receiving /\ handle' = handle
          /\ disk' = IF handle[p] = None THEN [disk EXCEPT ![p] = None] ELSE disk
      BY <2>2, <2>8 DEF JobDeletes, Receiving, Explained
    <3>2. p \in Paths
      BY <3>1, TargetIs DEF WithFile
    <3>3. \A q \in Paths : handle[q] # j
      BY <3>1, NoneAssumption DEF OpenInv, Receiving
    <3>4. OpenOK(j)'
      BY <3>1 DEF OpenOK
    <3> HIDE DEF p
    <3>5. CASE handle[p] = None
      <4>1. \A q \in Paths \ {p} : disk'[q] = disk[q]
        BY <3>1, <3>2, <3>5 DEF TypeOK
      <4> QED
        BY <2>1, <3>1, <3>2, <3>3, <3>4, <3>5, <4>1, OpenMoves
    <3>6. CASE handle[p] # None
      <4>1. disk' = disk /\ pc[j] \notin Receiving
        BY <3>1, <3>6 DEF Receiving
      <4> QED
        BY <2>1, <3>1, <4>1, OpenRests DEF Same
    <3> QED
      BY <3>5, <3>6
  <2> QED
    BY <1>6, <2>3, <2>4, <2>5, <2>6, <2>6a, <2>7, <2>8 DEF Job
<1> QED
  BY <1>1, <1>2, <1>3, <1>4, <1>5, <1>6 DEF Next

-----------------------------------------------------------------------------
(* The files on disk                                                        *)

\* A target that was chosen stays, and so does the entry it was chosen for.
LEMMA TargetsStay ==
  ASSUME TypeOK, JobInv, OpenInv, Next, NEW k \in Jobs, NEW i \in DOMAIN path[k]
  PROVE  /\ i \in DOMAIN path'[k] /\ path'[k][i] = path[k][i] /\ path[k][i] \in Paths
         /\ EntryOf(k, i)' = EntryOf(k, i)
<1> USE DEF sharer, table, locals, store
<1>1. sess[k] \in 1..current /\ pc[k] \notin {"none", "list"} /\ xfer[k] # "none"
  BY DEF JobInv, JobOK
<1>2. path \in [Jobs -> Targets] /\ sess \in [Jobs -> 0..MaxShares] /\ left \in [Jobs -> SUBSET Ids]
  BY DEF TypeOK
<1>3. path[k][i] \in Paths
  BY <1>2, TargetsIs
<1> SUFFICES /\ i \in DOMAIN path'[k] /\ path'[k][i] = path[k][i]
             /\ sess'[k] = sess[k] /\ listing'[sess[k]] = listing[sess[k]]
  BY <1>3 DEF EntryOf, List
<1>4. ASSUME NEW l \in Lists, UserShares(l)
      PROVE  UNCHANGED <<path, sess>> /\ listing'[sess[k]] = listing[sess[k]]
  BY <1>1, <1>4, SharesTypes DEF UserShares
<1>5. ASSUME NEW f \in Sources, UserEdits(f)
      PROVE  UNCHANGED <<path, sess, listing>>
  BY <1>5 DEF UserEdits
<1>6. ASSUME NEW j \in Jobs, NEW s \in 0..current, UserReceives(j, s)
      PROVE  UNCHANGED <<path, listing>> /\ sess'[k] = sess[k]
  BY <1>1, <1>2, <1>6 DEF UserReceives
<1>7. ASSUME NEW j \in Jobs, UserCancels(j)
      PROVE  UNCHANGED <<path, sess, listing>>
  BY <1>7 DEF UserCancels
<1>8. CASE UserClears
  BY <1>8 DEF UserClears
<1>9. ASSUME NEW j \in Jobs, Job(j)
      PROVE  /\ i \in DOMAIN path'[k] /\ path'[k][i] = path[k][i]
             /\ sess'[k] = sess[k] /\ listing' = listing
  <2>1. listing' = listing /\ (k # j => Same(k))
    BY <1>9, OthersStay
  <2>2. CASE k # j
    BY <2>1, <2>2 DEF Same
  <2>3. CASE k = j /\ JobNames(j)
    <3>1. sess' = sess
      BY <2>3 DEF JobNames
    <3> QED
      BY <2>1, <2>3, <3>1, NamesTypes
  <2>4. CASE k = j /\ ~JobNames(j)
    BY <1>1, <1>9, <2>1, <2>4
       DEF Job, JobListed, JobUnlisted, JobBegin, JobLeaves, JobOpens, JobOpenFails, JobAnswered,
           JobReads, JobReadAll, JobSpins, JobStops, JobDeletes, JobCounts, JobEnds
  <2> QED
    BY <2>2, <2>3, <2>4
<1> QED
  BY <1>4, <1>5, <1>6, <1>7, <1>8, <1>9 DEF Next

\* What steps do to the disk: nothing, or one job does something at the target
\* of a file it has not counted: it opens that file, goes on with it, or
\* deletes it.
Touches(j, i) ==
  /\ pc[j] \in {"check", "ask", "read", "delete"} /\ i \in left[j] /\ i \in DOMAIN path[j]
  /\ path[j][i] \in Paths
  /\ \A q \in Paths \ {path[j][i]} : disk'[q] = disk[q]
  /\ \/ /\ disk'[path[j][i]].job = j /\ disk'[path[j][i]].id = i
        /\ disk'[path[j][i]].file \in {None, EntryOf(j, i).file}
        /\ handle'[path[j][i]] = j
        /\ \A q \in Paths \ {path[j][i]} : handle'[q] = handle[q]
     \/ disk'[path[j][i]] = None /\ handle' = handle

LEMMA DiskChanges ==
  ASSUME TypeOK, JobInv, OpenInv, NEW j \in Jobs, Job(j)
  PROVE  \/ disk' = disk
         \/ \E i \in left[j] : Touches(j, i)
<1> USE DEF sharer, table, locals, store
<1>1. CASE JobOpens(j)
  <2> DEFINE i == fid'[j]
             p == path[j][i]
  <2>1. /\ pc[j] = "check" /\ i \in left[j] /\ i \in DOMAIN path[j] /\ p \in Paths
        /\ handle' = [handle EXCEPT ![p] = j]
        /\ disk' = [disk EXCEPT ![p] = [job |-> j, id |-> i, file |-> None, bytes |-> 0]]
    BY <1>1, OpensDisk
  <2> HIDE DEF i
  <2>2. handle'[p] = j /\ \A q \in Paths \ {p} : disk'[q] = disk[q] /\ handle'[q] = handle[q]
    BY <2>1 DEF TypeOK
  <2>3. disk'[p] = [job |-> j, id |-> i, file |-> None, bytes |-> 0]
    BY <2>1 DEF TypeOK
  <2> QED
    BY <2>1, <2>2, <2>3 DEF Touches
<1>2. CASE JobAnswered(j) \/ JobReads(j)
  <2> DEFINE i == fid[j]
             p == path[j][i]
             e == EntryOf(j, i)
  <2>1. pc[j] \in Receiving /\ pc[j] \in WithFile /\ pc[j] \in {"ask", "read"} /\ handle' = handle
    BY <1>2 DEF JobAnswered, JobReads, Receiving, WithFile
  <2>2. i \in left[j] /\ i \in DOMAIN path[j] /\ p \in Paths /\ handle[p] = j
    BY <2>1, TargetIs, Apart DEF Target
  <2>3. \E n \in Nat : disk' = [disk EXCEPT ![p] = Open(j, e.file, n)]
    BY <1>2, AnsweredDisk, ReadsDisk, BoundsAssumption DEF Target
  <2> HIDE DEF e
  <2>4. PICK n \in Nat : disk' = [disk EXCEPT ![p] = [job |-> j, id |-> i, file |-> e.file, bytes |-> n]]
    BY <2>3 DEF Open
  <2> HIDE DEF i
  <2>5. /\ disk'[p] = [job |-> j, id |-> i, file |-> e.file, bytes |-> n]
        /\ \A q \in Paths \ {p} : disk'[q] = disk[q]
    BY <2>2, <2>4 DEF TypeOK
  <2> QED
    BY <2>1, <2>2, <2>5 DEF Touches, e
<1>3. CASE JobDeletes(j)
  <2> DEFINE i == fid[j]
             p == path[j][i]
  <2>1. /\ pc[j] = "delete" /\ handle' = handle
        /\ disk' = IF handle[p] = None THEN [disk EXCEPT ![p] = None] ELSE disk
    BY <1>3 DEF JobDeletes, Target
  <2>2. i \in left[j] /\ i \in DOMAIN path[j] /\ p \in Paths
    BY <2>1, TargetIs DEF Target, WithFile
  <2> HIDE DEF i
  <2>3. CASE handle[p] = None
    <3>1. disk'[p] = None /\ \A q \in Paths \ {p} : disk'[q] = disk[q]
      BY <2>1, <2>2, <2>3 DEF TypeOK
    <3> QED
      BY <2>1, <2>2, <3>1 DEF Touches
  <2> QED
    BY <2>1, <2>3
<1>4. CASE ~(JobOpens(j) \/ JobAnswered(j) \/ JobReads(j) \/ JobDeletes(j))
  BY <1>4 DEF Job, JobListed, JobUnlisted, JobNames, JobBegin, JobLeaves, JobOpenFails,
              JobReadAll, JobSpins, JobStops, JobCounts, JobEnds
<1> QED
  BY <1>1, <1>2, <1>3, <1>4

LEMMA NextChanges ==
  ASSUME TypeOK, JobInv, OpenInv, Next
  PROVE  \/ disk' = disk
         \/ \E j \in Jobs : \E i \in left[j] : Job(j) /\ Touches(j, i)
<1> USE DEF store
<1>1. ASSUME NEW j \in Jobs, Job(j)
      PROVE  disk' = disk \/ \E i \in left[j] : Touches(j, i)
  BY <1>1, DiskChanges
<1> QED
  BY <1>1 DEF Next, UserShares, UserEdits, UserReceives, UserCancels, UserClears

LEMMA DiskStep ==
  ASSUME TypeOK, JobInv, OpenInv, DiskInv, Next
  PROVE  DiskInv'
<1>1. ASSUME NEW p \in Paths, disk'[p] = disk[p]
      PROVE  /\ DiskOK(p)'
             /\ disk'[p] # None /\ disk'[p].job = None => disk'[p].file = None
  <2>1. DiskOK(p) /\ (disk[p] # None /\ disk[p].job = None => disk[p].file = None)
    BY DEF DiskInv
  <2>2. CASE disk[p] # None /\ disk[p].job # None
    <3>1. disk[p].job \in Jobs
      BY <2>2, ContentIs DEF TypeOK
    <3>2. disk[p].id \in DOMAIN path[disk[p].job]
      BY <2>1, <2>2 DEF DiskOK
    <3> QED
      BY <1>1, <2>1, <2>2, <3>1, <3>2, TargetsStay DEF DiskOK
  <2>3. CASE ~(disk[p] # None /\ disk[p].job # None)
    BY <1>1, <2>1, <2>3 DEF DiskOK
  <2> QED
    BY <2>2, <2>3
<1>2. ASSUME NEW j \in Jobs, NEW i \in left[j], Touches(j, i)
      PROVE  DiskInv'
  <2>1. PICK p \in Paths : p = path[j][i]
    BY <1>2 DEF Touches
  <2>2. DiskOK(p)' /\ (disk'[p] # None /\ disk'[p].job = None => disk'[p].file = None)
    BY <1>2, <2>1, TargetsStay, NoneAssumption DEF Touches, DiskOK
  <2>3. \A q \in Paths \ {p} : disk'[q] = disk[q]
    BY <1>2, <2>1 DEF Touches
  <2> QED
    BY <1>1, <2>1, <2>2, <2>3 DEF DiskInv
<1> QED
  BY <1>1, <1>2, NextChanges DEF DiskInv

-----------------------------------------------------------------------------
(* What was counted                                                         *)

LEMMA CountedIs ==
  ASSUME JobInv, NEW k \in Jobs, NEW m \in Counted(k)
  PROVE  m \in DOMAIN path[k]
<1>1. JobOK(k)
  BY DEF JobInv
<1> QED
  BY <1>1 DEF JobOK, Counted, WithFile, WithPaths, WithList

\* Two files that have one target go on having it.
LEMMA ContestedStays ==
  ASSUME TypeOK, JobInv, OpenInv, Next, NEW k \in Jobs, NEW m \in DOMAIN path[k], Contested(k, m)
  PROVE  Contested(k, m)'
<1>1. PICK j \in Jobs :
        \E i \in DOMAIN path[j] : <<j, i>> # <<k, m>> /\ path[j][i] = path[k][m]
  BY DEF Contested
<1>2. PICK i \in DOMAIN path[j] : <<j, i>> # <<k, m>> /\ path[j][i] = path[k][m]
  BY <1>1
<1>3. i \in DOMAIN path'[j] /\ path'[j][i] = path'[k][m]
  BY <1>2, TargetsStay
<1> QED
  BY <1>2, <1>3 DEF Contested

\* What is counted was counted before, or was read to its end just now.
LEMMA CountedGrows ==
  ASSUME TypeOK, JobInv, OpenInv, Next, NEW k \in Jobs, NEW m \in Counted(k)'
  PROVE  m \in Counted(k) \/ (JobReadAll(k) /\ m = fid[k])
<1> USE DEF sharer, table, locals, store, Goto, SetState
<1>1. JobOK(k) /\ pc \in [Jobs -> Steps] /\ xfer \in [Jobs -> States] /\ left \in [Jobs -> SUBSET Ids]
  BY DEF JobInv, TypeOK
<1>2. CASE UNCHANGED <<pc[k], path[k], left[k], fid[k], xfer[k]>>
  BY <1>2 DEF Counted
<1>3. ASSUME NEW l \in Lists, UserShares(l)
      PROVE  UNCHANGED <<pc[k], path[k], left[k], fid[k], xfer[k]>>
  BY <1>3 DEF UserShares
<1>4. ASSUME NEW f \in Sources, UserEdits(f)
      PROVE  UNCHANGED <<pc[k], path[k], left[k], fid[k], xfer[k]>>
  BY <1>4 DEF UserEdits
<1>5. ASSUME NEW j \in Jobs, NEW s \in 0..current, UserReceives(j, s)
      PROVE  m \in Counted(k)
  <2>1. CASE k = j
    <3>1. pc'[k] \in {"list", "ended"} /\ xfer'[k] \in {"waiting", "failed"}
      BY <1>1, <1>5, <2>1 DEF UserReceives
    <3>2. Counted(k)' = {}
      BY <3>1 DEF Counted, WithFile
    <3> QED
      BY <3>2
  <2>2. CASE k # j
    <3>1. UNCHANGED <<pc[k], path[k], left[k], fid[k], xfer[k]>>
      BY <1>1, <1>5, <2>2 DEF UserReceives
    <3> QED
      BY <3>1 DEF Counted
  <2> QED
    BY <2>1, <2>2
<1>6. ASSUME NEW j \in Jobs, UserCancels(j)
      PROVE  UNCHANGED <<pc[k], path[k], left[k], fid[k], xfer[k]>>
  BY <1>6 DEF UserCancels
<1>7. CASE UserClears
  <2>1. UNCHANGED <<pc[k], path[k], left[k], fid[k]>> /\ xfer'[k] \in {"removed", xfer[k]}
    BY <1>7 DEF UserClears
  <2> QED
    BY <2>1 DEF Counted
<1>8. ASSUME NEW j \in Jobs \ {k}, Job(j)
      PROVE  UNCHANGED <<pc[k], path[k], left[k], fid[k], xfer[k]>>
  BY <1>8, OthersStay DEF Same
<1>9. CASE JobListed(k) \/ JobUnlisted(k) \/ JobNames(k) \/ JobOpenFails(k) \/ JobDeletes(k)
  <2>1. /\ pc'[k] \in {"name", "begin", "ended", "failed", "canceled"}
        /\ xfer'[k] = "done" => pc[k] = "ended"
    BY <1>1, <1>9 DEF JobListed, JobUnlisted, JobNames, JobOpenFails, JobDeletes, Explained, JobOK
  <2>2. pc[k] # "ended"
    BY <1>9 DEF JobListed, JobUnlisted, JobNames, JobOpenFails, JobDeletes
  <2>3. Counted(k)' = {}
    BY <2>1, <2>2 DEF Counted, WithFile
  <2> QED
    BY <2>3
<1>10. CASE JobBegin(k)
  <2>1. /\ pc[k] = "begin" /\ pc'[k] = "check" /\ path'[k] = path[k] /\ left'[k] = left[k]
    BY <1>1, <1>10 DEF JobBegin
  <2>2. DOMAIN path[k] = left[k]
    BY <1>1, <2>1 DEF JobOK, WithPaths, WithList
  <2>3. Counted(k)' = {}
    BY <2>1, <2>2 DEF Counted, WithFile
  <2> QED
    BY <2>3
<1>11. CASE JobLeaves(k)
  <2>1. /\ pc[k] = "check" /\ pc'[k] \in {"done", "canceled"} /\ xfer'[k] = xfer[k]
        /\ path'[k] = path[k] /\ left'[k] = left[k] /\ xfer[k] # "done"
    BY <1>1, <1>11 DEF JobLeaves, JobOK
  <2> QED
    BY <2>1 DEF Counted, WithFile
<1>12. CASE JobOpens(k) \/ JobAnswered(k) \/ JobReads(k) \/ JobSpins(k) \/ JobStops(k)
  <2>1. /\ pc[k] \in {"check", "ask", "read"} /\ pc'[k] \in {"ask", "read", "spins", "delete"}
        /\ path'[k] = path[k] /\ left'[k] = left[k]
    BY <1>1, <1>12 DEF JobOpens, JobAnswered, JobReads, JobSpins, JobStops
  <2> QED
    BY <2>1 DEF Counted, WithFile
<1>13. CASE JobReadAll(k)
  <2>1. /\ pc[k] = "read" /\ pc'[k] = "count"
        /\ path'[k] = path[k] /\ left'[k] = left[k] /\ fid'[k] = fid[k]
    BY <1>1, <1>13 DEF JobReadAll
  <2> QED
    BY <1>13, <2>1 DEF Counted, WithFile
<1>14. CASE JobCounts(k)
  <2>1. /\ pc[k] = "count" /\ pc'[k] = "check"
        /\ path'[k] = path[k] /\ left'[k] = left[k] \ {fid[k]}
    BY <1>1, <1>14 DEF JobCounts
  <2> QED
    BY <2>1 DEF Counted, WithFile
<1>15. CASE JobEnds(k)
  <2>1. /\ pc[k] \in Final /\ pc'[k] = "ended" /\ xfer'[k] = pc[k] /\ path'[k] = path[k]
        /\ pc[k] = "done" => left[k] = {}
    BY <1>1, <1>15 DEF JobEnds, JobOK
  <2> QED
    BY <2>1 DEF Counted, WithFile, Final
<1> QED
  BY <1>2, <1>3, <1>4, <1>5, <1>6, <1>7, <1>8, <1>9, <1>10, <1>11, <1>12, <1>13, <1>14, <1>15
     DEF Next, Job

\* A file that is read to its end is there: if it is not as long as it was
\* listed, the mismatch is in the log now.
LEMMA ReadAllThere ==
  ASSUME TypeOK, JobInv, OpenInv, NEW k \in Jobs, JobReadAll(k)
  PROVE  fid'[k] = fid[k] /\ There(k, fid[k])'
<1> USE DEF sharer, table, locals, store
<1>1. pc[k] = "read" /\ UNCHANGED <<disk, path, sess, listing, fid, foreign>>
  BY DEF JobReadAll
<1>2. PICK n \in 0..MaxSize : Opened(k, n)
  BY <1>1 DEF OpenInv, OpenOK, Receiving
<1>3. disk[path[k][fid[k]]] = [job |-> k, id |-> fid[k], bytes |-> n, file |-> EntryOf(k, fid[k]).file]
  BY <1>1, <1>2 DEF Opened, Target
<1>4. Received(k) = n /\ n = length[k]
  BY <1>3 DEF JobReadAll, Received, Target
<1>5. k \in foreign \/ n = EntryOf(k, fid[k]).size
  BY <1>1, <1>4 DEF OpenInv, OpenOK, Receiving
<1>6. ASSUME n = EntryOf(k, fid[k]).size \/ EntryOf(k, fid[k]).size = 0
      PROVE  AsListed(k, fid[k], n)'
  BY <1>1, <1>5, <1>6 DEF AsListed, EntryOf, List
<1>7. ASSUME n # EntryOf(k, fid[k]).size, EntryOf(k, fid[k]).size # 0
      PROVE  AsListed(k, fid[k], n)'
  <2>1. logged' = logged \cup {<<k, fid[k]>>}
    BY <1>4, <1>7 DEF JobReadAll, EntryOf, List
  <2>2. <<k, fid[k]>> \in logged'
    BY <2>1
  <2> QED
    BY <1>1, <1>5, <1>7, <2>2 DEF AsListed
<1>8. AsListed(k, fid[k], n)'
  BY <1>6, <1>7
<1>9. There(k, fid[k])'
  BY <1>1, <1>3, <1>8 DEF There, EntryOf, List
<1> QED
  BY <1>1, <1>9

\* Nothing is taken out of the log, and a link leads where it led.
LEMMA LogGrows ==
  ASSUME Next
  PROVE  foreign \subseteq foreign' /\ logged \subseteq logged'
<1> USE DEF sharer, table, locals, store
<1>1. ASSUME NEW j \in Jobs, Job(j)
      PROVE  foreign' = foreign /\ logged \subseteq logged'
  BY <1>1 DEF Job, JobListed, JobUnlisted, JobNames, JobBegin, JobLeaves, JobOpens, JobOpenFails,
              JobAnswered, JobReads, JobReadAll, JobSpins, JobStops, JobDeletes, JobCounts, JobEnds
<1> QED
  BY <1>1 DEF Next, UserShares, UserEdits, UserReceives, UserCancels, UserClears

\* What is as it was listed stays so.
LEMMA ListedStays ==
  ASSUME TypeOK, JobInv, OpenInv, Next, NEW k \in Jobs, NEW i \in DOMAIN path[k], NEW n,
         AsListed(k, i, n)
  PROVE  AsListed(k, i, n)'
<1>1. EntryOf(k, i)' = EntryOf(k, i)
  BY TargetsStay
<1> QED
  BY <1>1, LogGrows DEF AsListed, EntryOf, List

\* A job that touches a target is not at a file it has counted.
LEMMA CountedRests ==
  ASSUME NEW j \in Jobs, NEW i \in left[j], Touches(j, i)
  PROVE  i \notin Counted(j)
  BY DEF Touches, Counted, WithFile

LEMMA CountStep ==
  ASSUME TypeOK, JobInv, OpenInv, CountInv, Next
  PROVE  CountInv'
<1> SUFFICES ASSUME NEW k \in Jobs, NEW m \in Counted(k)'
             PROVE  (Contested(k, m) \/ There(k, m))'
  BY DEF CountInv
<1>1. CASE JobReadAll(k) /\ m = fid[k]
  BY <1>1, ReadAllThere
<1>2. CASE m \in Counted(k)
  <2>1. m \in DOMAIN path[k]
    BY <1>2, CountedIs
  <2>2. Contested(k, m) \/ There(k, m)
    BY <1>2 DEF CountInv
  <2>3. CASE Contested(k, m)
    BY <2>1, <2>3, ContestedStays
  <2>4. CASE There(k, m) /\ disk'[path[k][m]] = disk[path[k][m]]
    BY <2>1, <2>4, TargetsStay, ListedStays DEF There
  <2>5. ASSUME NEW j \in Jobs, NEW i \in left[j], Touches(j, i)
        PROVE  Contested(k, m) \/ disk'[path[k][m]] = disk[path[k][m]]
    <3>1. CASE path[k][m] # path[j][i]
      BY <2>1, <2>5, <3>1, TargetsStay DEF Touches
    <3>2. CASE path[k][m] = path[j][i]
      <4>1. i \in DOMAIN path[j] /\ i \notin Counted(j)
        BY <2>5, CountedRests DEF Touches
      <4>2. <<j, i>> # <<k, m>>
        BY <1>2, <4>1
      <4> QED
        BY <3>2, <4>1, <4>2 DEF Contested
    <3> QED
      BY <3>1, <3>2
  <2> QED
    BY <2>2, <2>3, <2>4, <2>5, NextChanges
<1> QED
  BY <1>1, <1>2, CountedGrows

-----------------------------------------------------------------------------
(* What stays behind                                                        *)

\* A file at rest is complete, or about to be deleted.
Deleting(p) == \E j \in Jobs : pc[j] = "delete" /\ Target(j) = p

Whole(p) == AsListed(disk[p].job, disk[p].id, disk[p].bytes)

RestOK(p) == disk[p] # None /\ disk[p].job # None => handle[p] # None \/ Deleting(p) \/ Whole(p)

LEMMA RestIs == NoPartialFile <=> \A p \in Paths : RestOK(p)
  BY DEF NoPartialFile, RestOK, Deleting, Whole

\* A whole file stays whole.
LEMMA WholeStays ==
  ASSUME TypeOK, JobInv, OpenInv, DiskInv, Next, NEW p \in Paths,
         disk'[p] = disk[p], disk[p] # None, disk[p].job # None, Whole(p)
  PROVE  Whole(p)'
<1>1. disk[p].job \in Jobs
  BY ContentIs DEF TypeOK
<1>2. disk[p].id \in DOMAIN path[disk[p].job]
  BY DEF DiskInv, DiskOK
<1> QED
  BY <1>1, <1>2, ListedStays DEF Whole

\* A job that is about to delete a file does so, and nothing else.
LEMMA DeletingStays ==
  ASSUME TypeOK, JobInv, OpenInv, Next, NEW j \in Jobs, pc[j] = "delete"
  PROVE  JobDeletes(j) \/ (pc'[j] = "delete" /\ Target(j)' = Target(j))
<1> USE DEF sharer, table, locals, store
<1>1. fid[j] \in DOMAIN path[j]
  BY TargetIs DEF WithFile
<1>2. ASSUME UNCHANGED <<pc[j], fid[j]>>
      PROVE  pc'[j] = "delete" /\ Target(j)' = Target(j)
  BY <1>1, <1>2, TargetsStay DEF Target
<1>3. ASSUME NEW k \in Jobs, NEW s \in 0..current, UserReceives(k, s)
      PROVE  UNCHANGED <<pc[j], fid[j]>>
  BY <1>3 DEF UserReceives, Goto, JobInv, JobOK, TypeOK
<1>4. ASSUME NEW k \in Jobs \ {j}, Job(k)
      PROVE  UNCHANGED <<pc[j], fid[j]>>
  BY <1>4, OthersStay DEF Same
<1>5. CASE Job(j)
  BY <1>5 DEF Job, JobListed, JobUnlisted, JobNames, JobBegin, JobLeaves, JobOpens, JobOpenFails,
              JobAnswered, JobReads, JobReadAll, JobSpins, JobStops, JobCounts, JobEnds, Final
<1> QED
  BY <1>2, <1>3, <1>4, <1>5 DEF Next, UserShares, UserEdits, UserCancels, UserClears

\* A file is closed by the job that had it open.
LEMMA ClosedBy ==
  ASSUME TypeOK, JobInv, OpenInv, Next, NEW p \in Paths, handle'[p] = None
  PROVE  \/ handle[p] = None
         \/ \E j \in Jobs : JobReadAll(j) /\ p = Target(j)
         \/ \E j \in Jobs : JobStops(j) /\ p = Target(j)
<1> USE DEF sharer, table, locals, store
<1>1. ASSUME NEW j \in Jobs, Job(j), handle[p] # None
      PROVE  (JobReadAll(j) \/ JobStops(j)) /\ p = Target(j)
  <2>1. CASE JobOpens(j)
    <3>1. handle' = [handle EXCEPT ![path[j][fid'[j]]] = j]
      BY <2>1, OpensDisk
    <3> QED
      BY <1>1, <3>1, NoneAssumption DEF TypeOK
  <2>2. CASE JobReadAll(j) \/ JobStops(j)
    <3>1. handle' = [handle EXCEPT ![Target(j)] = None]
      BY <2>2 DEF JobReadAll, JobStops
    <3> QED
      BY <1>1, <2>2, <3>1 DEF TypeOK
  <2> QED
    BY <1>1, <2>1, <2>2
       DEF Job, JobListed, JobUnlisted, JobNames, JobBegin, JobLeaves, JobOpenFails, JobAnswered,
           JobReads, JobSpins, JobDeletes, JobCounts, JobEnds
<1> QED
  BY <1>1 DEF Next, UserShares, UserEdits, UserReceives, UserCancels, UserClears

LEMMA RestStep ==
  ASSUME TypeOK, JobInv, OpenInv, DiskInv, NoPartialFile, Next
  PROVE  NoPartialFile'
<1> SUFFICES ASSUME NEW p \in Paths, disk'[p] # None, disk'[p].job # None
             PROVE  (handle[p] # None \/ Deleting(p) \/ Whole(p))'
  BY RestIs DEF NoPartialFile, RestOK, Deleting, Whole
<1>1. CASE \E j \in Jobs : JobReadAll(j) /\ p = Target(j)
  <2>1. PICK j \in Jobs : JobReadAll(j) /\ p = path[j][fid[j]]
    BY <1>1 DEF Target
  <2>2. There(j, fid[j])' /\ fid'[j] = fid[j] /\ path' = path
    BY <2>1, ReadAllThere DEF JobReadAll, locals
  <2>3. PICK n \in 0..MaxSize :
           /\ AsListed(j, fid[j], n)'
           /\ disk'[p] = [job |-> j, id |-> fid[j], file |-> EntryOf(j, fid[j])'.file, bytes |-> n]
    BY <2>1, <2>2 DEF There
  <2>4. Whole(p)'
    BY <2>2, <2>3 DEF Whole
  <2> QED
    BY <2>4
<1>2. CASE \E j \in Jobs : JobStops(j) /\ p = Target(j)
  <2>1. PICK j \in Jobs : JobStops(j) /\ p = Target(j)
    BY <1>2
  <2>2. pc'[j] = "delete" /\ Target(j)' = p
    BY <2>1 DEF JobStops, Goto, TypeOK, Target, table, locals
  <2> QED
    BY <2>2 DEF Deleting
<1>3. CASE handle'[p] = None /\ handle[p] = None
  <2>1. ASSUME NEW j \in Jobs, NEW i \in left[j], Touches(j, i)
        PROVE  disk'[p] = disk[p]
    BY <1>3, <2>1, NoneAssumption DEF Touches
  <2>2. disk'[p] = disk[p]
    BY <2>1, NextChanges
  <2>3. Deleting(p) \/ Whole(p)
    BY <1>3, <2>2, RestIs DEF RestOK
  <2>4. CASE Whole(p)
    BY <2>2, <2>4, WholeStays
  <2>5. ASSUME NEW j \in Jobs, pc[j] = "delete", Target(j) = p
        PROVE  Deleting(p)'
    <3>1. ~JobDeletes(j)
      <4>1. ASSUME JobDeletes(j)
            PROVE  FALSE
        <5>1. disk' = [disk EXCEPT ![p] = None]
          BY <1>3, <2>5, <4>1 DEF JobDeletes
        <5> QED
          BY <5>1 DEF TypeOK
      <4> QED
        BY <4>1
    <3> QED
      BY <2>5, <3>1, DeletingStays DEF Deleting
  <2> QED
    BY <2>3, <2>4, <2>5 DEF Deleting
<1> QED
  BY <1>1, <1>2, <1>3, ClosedBy

-----------------------------------------------------------------------------
(* The theorems                                                             *)

LEMMA InitInv == Init => IInv
<1> SUFFICES ASSUME Init
             PROVE  IInv
  OBVIOUS
<1>1. TypeOK
  BY InitTypes
<1>2. ASSUME NEW j \in Jobs
      PROVE  /\ pc[j] = "none" /\ xfer[j] = "none" /\ left[j] = {} /\ sess[j] = 0
             /\ DOMAIN path[j] = {}
  BY DEF Init, NoTargets
<1>3. JobInv
  BY <1>2 DEF JobInv, JobOK, WithList, WithPaths, WithFile
<1>4. \A p \in Paths : handle[p] = None
  BY DEF Init
<1>5. OpenInv
  BY <1>2, <1>4 DEF OpenInv, OpenOK, Receiving
<1>6. \A p \in Paths : disk[p] \in {UserFile, None}
  BY DEF Init
<1>7. \A p \in Paths : disk[p] # None => disk[p].job = None /\ disk[p].file = None
  BY <1>6 DEF UserFile
<1>8. DiskInv /\ NoPartialFile
  BY <1>7 DEF DiskInv, DiskOK, NoPartialFile
<1>9. CountInv
  BY <1>2 DEF CountInv, Counted, WithFile
<1> QED
  BY <1>1, <1>3, <1>5, <1>8, <1>9 DEF IInv

LEMMA StepInv == IInv /\ [Next]_vars => IInv'
<1> SUFFICES ASSUME IInv, [Next]_vars
             PROVE  IInv'
  OBVIOUS
<1>1. CASE Next
  BY <1>1, TypeStep, JobStep, OpenStep, DiskStep, CountStep, RestStep DEF IInv
<1>2. CASE UNCHANGED vars
  <2> USE <1>2 DEF vars
  <2>1. TypeOK'
    BY DEF IInv, TypeOK
  <2>2. JobInv'
    BY DEF IInv, JobInv, JobOK, List
  <2>3. OpenInv'
    BY DEF IInv, OpenInv, OpenOK, Opened, Target, EntryOf, List
  <2>4. DiskInv'
    BY DEF IInv, DiskInv, DiskOK, EntryOf, List
  <2>5. CountInv'
    BY DEF IInv, CountInv, Counted, Contested, There, AsListed, EntryOf, List
  <2>6. NoPartialFile'
    BY DEF IInv, NoPartialFile, Target, AsListed
  <2> QED
    BY <2>1, <2>2, <2>3, <2>4, <2>5, <2>6 DEF IInv
<1> QED
  BY <1>1, <1>2

LEMMA Invariant == Spec => []IInv
  BY InitInv, StepInv, PTL DEF Spec

\* Every variable keeps its type, the lists and the tables of targets among them.
THEOREM TypeTheorem == Spec => []TypeOK
<1>1. IInv => TypeOK
  BY DEF IInv
<1> QED
  BY <1>1, Invariant, PTL

\* Whoever asks for an entry of a session gets the file that this session
\* listed under that id, however often something else was shared since
\* (ShareManager::Get, HandleDownload).
THEOREM ServedTheorem == Spec => []ServedAsListed
<1>1. IInv => ServedAsListed
  <2> SUFFICES ASSUME IInv, NEW p \in Paths, disk[p] # None, disk[p].file # None
               PROVE  disk[p].file = EntryOf(disk[p].job, disk[p].id).file
    BY DEF ServedAsListed, EntryOf, List
  <2>1. disk[p].job # None
    BY DEF IInv, DiskInv
  <2> QED
    BY <2>1 DEF IInv, DiskInv, DiskOK
<1> QED
  BY <1>1, Invariant, PTL

\* No half-received file stays behind, wherever workers open, fail and delete
\* at the same target (DownloadSharedFile).
THEOREM PartialTheorem == Spec => []NoPartialFile
<1>1. IInv => NoPartialFile
  BY DEF IInv
<1> QED
  BY <1>1, Invariant, PTL

\* A transfer reported DONE has every listed file on disk, in the length that
\* was listed or, from a sharer of another make, in one that the log says was
\* not or whose listing said 0; but for targets that were given twice
\* (RunReceiveJob, DownloadSharedFile).
THEOREM ListedTheorem == Spec => []DoneMeansListed
<1>1. IInv => DoneMeansListed
  <2> SUFFICES ASSUME IInv, NEW j \in Jobs, xfer[j] = "done", NEW i \in DOMAIN List(j)
               PROVE  Contested(j, i) \/ There(j, i)
    BY DEF DoneMeansListed, There, EntryOf, List
  <2>1. pc[j] = "ended" /\ DOMAIN path[j] = DOMAIN List(j)
    BY DEF IInv, JobInv, JobOK
  <2>2. i \in Counted(j)
    BY <2>1 DEF Counted, WithFile
  <2> QED
    BY <2>2 DEF IInv, CountInv
<1> QED
  BY <1>1, Invariant, PTL
=============================================================================
