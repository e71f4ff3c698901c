--------------------------- MODULE IncomingProofs ---------------------------
(***************************************************************************)
(* The structural invariant of Incoming, StructInv, is inductive.          *)
(*                                                                         *)
(* One lemma per action (Struct<Action>).  Steps that share their shape    *)
(* share a proof: StructStep for the threads that are not preparing a      *)
(* session, StructForget for refused requests, StructPrompts for the UI    *)
(* thread and the user, StructTable for what only changes the table.       *)
(*                                                                         *)
(* The safety theorems each rest on it and on one more inductive           *)
(* invariant: CleanInv for the transfers reported DONE, DiskInv for the    *)
(* files on disk, UserInv for the user's files, DialogInv for the dialogs, *)
(* the property itself for the history.  That Incoming implements Receiver *)
(* rests on CleanInv and on CountInv; its lemmas are named Promise<...>,   *)
(* one for each kind of step a sender sees.                                *)
(***************************************************************************)
EXTENDS Incoming, TLAPS

USE BoundsAssumption, NoneAssumption, AskAssumption, OffersAssumption
    DEF Sessions, slot, maps, requests, dialogs, table, store, locals, Id

\* A thread whose handler returns is back in a state of the right type.
LEMMA ReturnTypes ==
  ASSUME NEW w \in Workers, ThreadTypeOK, Return(w) PROVE ThreadTypeOK'
BY DEF ThreadTypeOK, Return, Steps

\* The session of a thread at work on prepare-upload has an offer of its own.
LEMMA OwnerTypes ==
  ASSUME StructInv, NEW w \in Workers, pc[w] \in Preparing
  PROVE  /\ job[w] \in Sessions
         /\ offer[job[w]] \in Offers
         /\ DOMAIN offer[job[w]] \subseteq Files
         /\ accepted[job[w]] \subseteq DOMAIN offer[job[w]]
<1>1. job[w] \in Sessions
  BY DEF StructInv, TypeOK, ThreadTypeOK, OwnInv, OwnOK
<1>2. offer[job[w]] \in Offers
  BY <1>1 DEF StructInv, TypeOK, RequestTypeOK, JobInv
<1>3. accepted[job[w]] \subseteq DOMAIN offer[job[w]]
  BY <1>1, <1>2 DEF StructInv, OfferInv
<1>4. QED
  BY <1>1, <1>2, <1>3

\* So has the session whose token an upload carried, and the file is in it.
LEMMA UploadTypes ==
  ASSUME StructInv, NEW w \in Workers, pc[w] \in Uploading
  PROVE  /\ job[w] \in Sessions
         /\ src[w] \in Sessions
         /\ offer[src[w]] \in Offers
         /\ fid[w] \in Files
         /\ fid[w] \in accepted[src[w]]
         /\ fid[w] \in DOMAIN offer[src[w]]
         /\ tgt[w] \in Paths
<1>1. job[w] \in Sessions /\ src[w] \in Sessions
  BY DEF StructInv, TypeOK, ThreadTypeOK, UploadInv, UploadOK
<1>2. offer[src[w]] \in Offers
  BY <1>1 DEF StructInv, TypeOK, RequestTypeOK, JobInv
<1>3. fid[w] \in accepted[src[w]] /\ tgt[w] \in Paths
  BY DEF StructInv, UploadInv, UploadOK
<1>4. accepted[src[w]] \subseteq DOMAIN offer[src[w]]
  BY <1>1, <1>2 DEF StructInv, OfferInv
<1>5. DOMAIN offer[src[w]] \subseteq Files
  BY <1>2
<1>6. QED
  BY <1>1, <1>2, <1>3, <1>4, <1>5

\* Before it takes the slot, a prepare-upload request is the only one that
\* refers to its session.
LEMMA EarlyAlone ==
  ASSUME StructInv, NEW w \in Workers, pc[w] \in Early
  PROVE  /\ Unknown(job[w])
         /\ \A x \in Workers : x # w => job[x] # job[w] /\ src[x] # job[w]
BY DEF StructInv, OwnInv, OwnOK, AloneInv, AloneOK, Early, Preparing

\* A step of thread w leaves what the other threads hold alone.
Kept(w) ==
  \A x \in Workers \ {w} :
    /\ pc'[x] = pc[x] /\ job'[x] = job[x] /\ src'[x] = src[x] /\ fid'[x] = fid[x]
    /\ tgt'[x] = tgt[x] /\ got'[x] = got[x] /\ good'[x] = good[x] /\ todo'[x] = todo[x]

\* Returning touches the returning thread alone.
LEMMA ReturnKept ==
  ASSUME NEW w \in Workers, ThreadTypeOK, Return(w)
  PROVE  Kept(w) /\ pc'[w] = "idle" /\ job'[w] = 0 /\ src'[w] = 0 /\ got'[w] = 0
BY DEF ThreadTypeOK, Return, Kept

\* So does going to the next step.
LEMMA GotoKept ==
  ASSUME NEW w \in Workers, ThreadTypeOK, NEW step, Goto(w, step), UNCHANGED <<job, locals, todo>>
  PROVE  Kept(w) /\ pc'[w] = step
BY DEF ThreadTypeOK, Goto, Kept

\* A step of a thread that is not preparing a session: it may release the slot,
\* end its transfer, record a file of its session, and nothing else that
\* another thread depends on.
LEMMA StructStep ==
  ASSUME StructInv, TypeOK', NEW w \in Workers,
         pc[w] \notin Preparing, pc'[w] \notin Preparing \cup {"flag"},
         job'[w] \in {0, job[w]}, src'[w] \in {0, src[w]}, UploadOK(w)', HandleInv', Kept(w),
         active' => active,
         UNCHANGED <<cur, token, entry, target, requests, prompt>>,
         \A s \in Sessions : xfer'[s] = "none" <=> xfer[s] = "none",
         history \subseteq history',
         \A h \in history' \ history : xfer[h.sess] # "none"
  PROVE  StructInv'
<1>1. \A s \in Sessions : Unknown(s) => Unknown(s)'
  BY DEF Unknown
<1>2. SlotInv'
  BY DEF StructInv, SlotInv
<1>3. OfferInv'
  BY <1>1 DEF StructInv, OfferInv
<1>4. TokenInv'
  BY DEF StructInv, TokenInv
<1>5. JobInv'
  BY DEF StructInv, JobInv, Kept
<1>6. OwnInv'
  <2> SUFFICES ASSUME NEW x \in Workers, pc'[x] \in Preparing PROVE OwnOK(x)'
    BY DEF OwnInv, OwnOK
  <2>1. x # w /\ pc'[x] = pc[x] /\ job'[x] = job[x] /\ todo'[x] = todo[x]
    BY DEF Kept
  <2>2. job[x] \in Sessions /\ OwnOK(x)
    BY <2>1, OwnerTypes DEF StructInv, OwnInv
  <2>3. QED
    BY <2>1, <2>2, <1>1 DEF OwnOK
<1>7. AloneInv'
  <2> SUFFICES ASSUME NEW x \in Workers, NEW y \in Workers, x # y, pc'[x] \in Preparing
               PROVE  AloneOK(x, y)'
    BY DEF AloneInv, AloneOK
  <2>1. x # w /\ pc'[x] = pc[x] /\ job'[x] = job[x] /\ job[x] # 0
    BY DEF Kept, StructInv, OwnInv, OwnOK
  <2>2. AloneOK(x, y)
    BY DEF StructInv, AloneInv
  <2>3. CASE y = w
    BY <2>1, <2>2, <2>3 DEF AloneOK
  <2>4. CASE y # w
    BY <2>1, <2>2, <2>4 DEF AloneOK, Kept
  <2>5. QED
    BY <2>3, <2>4
<1>8. PromptInv'
  <2>1. \A x \in Workers : PromptOK(x)'
    BY DEF StructInv, PromptInv, PromptOK, Kept, Preparing
  <2>2. ASSUME NEW t \in Sessions, prompt[t] \in {"queued", "batched", "shown", "no"}
        PROVE  \E x \in Workers : pc'[x] = "wait" /\ job'[x] = t
    <3>1. PICK x \in Workers : pc[x] = "wait" /\ job[x] = t
      BY <2>2 DEF StructInv, PromptInv, WaitInv
    <3>2. QED
      BY <3>1 DEF Kept, Preparing
  <2>3. QED
    BY <2>1, <2>2 DEF PromptInv, WaitInv
<1>9. UploadInv'
  <2> SUFFICES ASSUME NEW x \in Workers, x # w, pc'[x] \in Uploading PROVE UploadOK(x)'
    BY DEF UploadInv, UploadOK
  <2>1. /\ pc'[x] = pc[x] /\ job'[x] = job[x] /\ src'[x] = src[x] /\ fid'[x] = fid[x]
        /\ tgt'[x] = tgt[x] /\ got'[x] = got[x] /\ good'[x] = good[x]
    BY DEF Kept
  <2>2. src[x] \in Sessions /\ UploadOK(x)
    BY <2>1, UploadTypes DEF StructInv, UploadInv
  <2>3. QED
    BY <2>1, <2>2 DEF UploadOK, Recorded, PassesChecks
<1>10. QED
  BY <1>2, <1>3, <1>4, <1>5, <1>6, <1>7, <1>8, <1>9 DEF StructInv

\* An open file stays as it is while its thread does not move.
LEMMA HandleKept ==
  ASSUME StructInv, NEW w \in Workers, Kept(w), pc'[w] # "read",
         pc'[w] \in {"idle", "open"} => got'[w] = 0,
         \A p \in Paths : handle[p] \notin {None, w} => handle'[p] = handle[p] /\ disk'[p] = disk[p]
  PROVE  HandleInv'
<1> SUFFICES ASSUME NEW x \in Workers, x # w, pc'[x] = "read" PROVE HandleOK(x)'
  <2>1. \A x \in Workers : pc'[x] \in {"idle", "open"} => got'[x] = 0
    BY DEF Kept, StructInv, HandleInv, HandleOK
  <2>2. QED
    BY <2>1 DEF HandleInv, HandleOK
<1>1. pc[x] = "read" /\ tgt'[x] = tgt[x] /\ src'[x] = src[x] /\ fid'[x] = fid[x] /\ got'[x] = got[x]
  BY DEF Kept
<1>2. tgt[x] \in Paths /\ HandleOK(x)
  BY <1>1, UploadTypes DEF StructInv, HandleInv, Uploading
<1>3. handle[tgt[x]] = x /\ x # None
  BY <1>1, <1>2 DEF HandleOK, Holds
<1>4. QED
  BY <1>1, <1>2, <1>3 DEF HandleOK, Holds

\* SetState never adds a transfer to the table, nor forgets one.
LEMMA WithStateKeeps ==
  ASSUME StoreTypeOK, NEW s, NEW state \in {"done", "failed", "canceled"}
  PROVE  /\ WithState(s, state) \in [Sessions -> XferStates]
         /\ \A t \in Sessions : WithState(s, state)[t] = "none" <=> xfer[t] = "none"
BY DEF StoreTypeOK, WithState, XferStates

\* Deleting a file leaves a download directory.
LEMMA DeletedType ==
  ASSUME StoreTypeOK, NEW p \in Paths
  PROVE  Deleted(p) \in [Paths -> Content \cup {None}]
BY DEF StoreTypeOK, Deleted

\* What a thread reads into is the file it opened.
LEMMA ReadContent ==
  ASSUME StructInv, NEW w \in Workers, pc[w] = "read"
  PROVE  disk[tgt[w]] \in Content
<1>1. tgt[w] \in Paths /\ disk[tgt[w]] # None
  BY UploadTypes DEF Uploading, StructInv, HandleInv, HandleOK
<1>2. QED
  BY <1>1 DEF StructInv, TypeOK, StoreTypeOK

\* An upload opens its target: the handle was free, so no reader loses its file.
LEMMA StructUploadOpen ==
  ASSUME NEW w \in Workers, StructInv, UploadOpen(w) PROVE StructInv'
<1> USE DEF UploadOpen
<1>1. pc[w] \in Uploading /\ UploadOK(w) /\ ThreadTypeOK
  BY DEF StructInv, TypeOK, UploadInv, Uploading
<1>2. Kept(w) /\ pc'[w] = "read"
  BY <1>1, GotoKept
<1>3. TypeOK'
  <2>1. [sess |-> src[w], file |-> fid[w], bytes |-> 0, good |-> FALSE] \in Content
    BY <1>1, UploadTypes DEF Content
  <2>2. StoreTypeOK'
    BY <2>1 DEF StructInv, TypeOK, StoreTypeOK
  <2>3. ThreadTypeOK'
    BY DEF StructInv, TypeOK, ThreadTypeOK, Goto, Steps
  <2>4. QED
    BY <2>2, <2>3 DEF StructInv, TypeOK, SlotTypeOK, RequestTypeOK
<1>4. UploadOK(w)'
  BY <1>1, <1>2 DEF UploadOK
<1>5. HandleInv'
  <2> SUFFICES ASSUME NEW x \in Workers, pc'[x] = "read" PROVE HandleOK(x)'
    BY <1>2 DEF Kept, StructInv, HandleInv, HandleOK
  <2>1. CASE x = w
    <3>1. tgt[w] \in Paths /\ got[w] = 0
      BY <1>1, UploadTypes DEF StructInv, HandleInv, HandleOK
    <3>2. disk'[tgt[w]] = [sess |-> src[w], file |-> fid[w], bytes |-> 0, good |-> FALSE]
      BY <3>1 DEF StructInv, TypeOK, StoreTypeOK
    <3>3. disk'[tgt[w]] # None
      <4>1. [sess |-> src[w], file |-> fid[w], bytes |-> 0, good |-> FALSE] \in Content
        BY <1>1, UploadTypes DEF Content
      <4>2. QED
        BY <3>2, <4>1
    <3>4. handle'[tgt[w]] = w
      BY <3>1 DEF StructInv, TypeOK, StoreTypeOK
    <3>5. QED
      BY <2>1, <3>1, <3>2, <3>3, <3>4, <1>2 DEF HandleOK, Holds
  <2>2. CASE x # w
    <3>1. pc[x] = "read" /\ tgt'[x] = tgt[x] /\ src'[x] = src[x] /\ fid'[x] = fid[x] /\ got'[x] = got[x]
      BY <2>2, <1>2 DEF Kept
    <3>2. tgt[x] \in Paths /\ HandleOK(x)
      BY <3>1, UploadTypes DEF StructInv, HandleInv, Uploading
    <3>3. tgt[x] # tgt[w]
      BY <3>1, <3>2 DEF HandleOK, Holds
    <3>4. QED
      BY <3>1, <3>2, <3>3 DEF HandleOK, Holds, StructInv, TypeOK, StoreTypeOK
  <2>3. QED
    BY <2>1, <2>2
<1>6. QED
  BY <1>1, <1>2, <1>3, <1>4, <1>5, StructStep DEF Uploading, Preparing

\* An upload that cannot open its target returns at once.
LEMMA StructUploadOpenFails ==
  ASSUME NEW w \in Workers, StructInv, UploadOpenFails(w) PROVE StructInv'
<1> USE DEF UploadOpenFails
<1>1. /\ Kept(w) /\ pc'[w] = "idle" /\ job'[w] = 0 /\ src'[w] = 0 /\ got'[w] = 0
      /\ ThreadTypeOK'
  BY ReturnKept, ReturnTypes DEF StructInv, TypeOK
<1>2. TypeOK'
  BY <1>1 DEF StructInv, TypeOK, SlotTypeOK, RequestTypeOK, StoreTypeOK
<1>3. HandleInv'
  BY <1>1, HandleKept
<1>4. QED
  BY <1>1, <1>2, <1>3, StructStep DEF UploadOK, Uploading, Preparing

\* A chunk is written to the file the thread has open, and only there.
LEMMA StructUploadChunk ==
  ASSUME NEW w \in Workers, StructInv, UploadChunk(w) PROVE StructInv'
<1> USE DEF UploadChunk
<1>1. /\ pc[w] \in Uploading /\ UploadOK(w) /\ HandleOK(w)
      /\ got[w] \in 0..MaxBytes /\ tgt[w] \in Paths
  BY UploadTypes DEF StructInv, TypeOK, ThreadTypeOK, UploadInv, HandleInv, Uploading
<1>2. Kept(w) /\ pc'[w] = "read"
  BY DEF StructInv, TypeOK, ThreadTypeOK, Kept
<1>3. TypeOK'
  <2>1. got[w] + 1 \in 0..MaxBytes
    BY <1>1
  <2>2. disk[tgt[w]] \in Content
    BY <1>1, ReadContent
  <2>3. disk' \in [Paths -> Content \cup {None}]
    BY <1>1, <2>1, <2>2 DEF StructInv, TypeOK, StoreTypeOK, Content
  <2>4. StoreTypeOK'
    BY <2>3 DEF StructInv, TypeOK, StoreTypeOK
  <2>5. ThreadTypeOK'
    BY <2>1 DEF StructInv, TypeOK, ThreadTypeOK
  <2>6. QED
    BY <2>4, <2>5 DEF StructInv, TypeOK, SlotTypeOK, RequestTypeOK
<1>4. UploadOK(w)'
  BY <1>1, <1>2 DEF UploadOK
<1>5. HandleInv'
  <2> SUFFICES ASSUME NEW x \in Workers, pc'[x] = "read" PROVE HandleOK(x)'
    BY <1>2 DEF Kept, StructInv, HandleInv, HandleOK
  <2>1. CASE x = w
    <3>1. got'[w] = got[w] + 1 /\ handle[tgt[w]] = w
      BY <1>1 DEF HandleOK, Holds, StructInv, TypeOK, ThreadTypeOK
    <3>2. disk'[tgt[w]] = [disk[tgt[w]] EXCEPT !.bytes = got[w] + 1]
      BY <1>1 DEF StructInv, TypeOK, StoreTypeOK
    <3>3. disk[tgt[w]] \in Content /\ Holds(tgt[w], src[w], fid[w], got[w])
      BY <1>1, ReadContent DEF HandleOK
    <3>4. /\ disk'[tgt[w]] \in Content
          /\ disk'[tgt[w]].sess = src[w] /\ disk'[tgt[w]].file = fid[w]
          /\ disk'[tgt[w]].bytes = got[w] + 1
      BY <3>1, <3>2, <3>3, <1>1, <1>3 DEF Content, Holds, TypeOK, ThreadTypeOK
    <3>5. disk'[tgt[w]] # None
      BY <3>4
    <3>6. QED
      BY <2>1, <3>1, <3>4, <3>5, <1>2 DEF HandleOK, Holds
  <2>2. CASE x # w
    <3>1. pc[x] = "read" /\ tgt'[x] = tgt[x] /\ src'[x] = src[x] /\ fid'[x] = fid[x] /\ got'[x] = got[x]
      BY <2>2, <1>2 DEF Kept
    <3>2. tgt[x] \in Paths /\ HandleOK(x)
      BY <3>1, UploadTypes DEF StructInv, HandleInv, Uploading
    <3>3. tgt[x] # tgt[w]
      BY <2>2, <3>1, <3>2, <1>1 DEF HandleOK, Holds
    <3>4. QED
      BY <3>1, <3>2, <3>3, <1>1 DEF HandleOK, Holds, StructInv, TypeOK, StoreTypeOK
  <2>3. QED
    BY <2>1, <2>2
<1>6. QED
  BY <1>1, <1>2, <1>3, <1>4, <1>5, StructStep DEF Uploading, Preparing

\* A request that is turned down leaves nothing behind.
LEMMA StructForget ==
  ASSUME NEW w \in Workers, StructInv, pc[w] \in {"ask", "wait"},
         Forget(job[w]), Return(w), UNCHANGED <<slot, maps, modalActive, table, store, overlap>>
  PROVE  StructInv'
<1> DEFINE s == job[w]
<1> USE DEF Forget
<1>1. s \in Sessions /\ Unknown(s) /\ (\A x \in Workers : x # w => job[x] # s /\ src[x] # s)
  BY OwnerTypes, EarlyAlone DEF Early, Preparing
<1>2. TypeOK'
  <2>1. SlotTypeOK' /\ StoreTypeOK'
    BY DEF StructInv, TypeOK, SlotTypeOK, StoreTypeOK
  <2>2. RequestTypeOK'
    BY <1>1 DEF StructInv, TypeOK, RequestTypeOK, PromptStates
  <2>3. ThreadTypeOK'
    BY ReturnTypes DEF StructInv, TypeOK
  <2>4. QED
    BY <2>1, <2>2, <2>3 DEF TypeOK
<1>3. Kept(w)
  BY ReturnKept DEF StructInv, TypeOK
<1>4. pc'[w] = "idle" /\ job'[w] = 0 /\ src'[w] = 0 /\ got'[w] = 0
  BY ReturnKept DEF StructInv, TypeOK
<1>5. \A t \in Sessions : t # s => /\ offer'[t] = offer[t] /\ accepted'[t] = accepted[t]
                                   /\ prompt'[t] = prompt[t]
  BY <1>1 DEF StructInv, TypeOK, RequestTypeOK
<1>6. offer'[s] = None /\ accepted'[s] = {} /\ prompt'[s] = "none"
  BY <1>1 DEF StructInv, TypeOK, RequestTypeOK
<1>7. \A t \in Sessions : Unknown(t) => Unknown(t)'
  BY DEF Unknown
<1>8. SlotInv'
  BY <1>1, <1>5 DEF StructInv, SlotInv, TypeOK, SlotTypeOK, Unknown
<1>9. OfferInv'
  BY <1>1, <1>5, <1>6, <1>7 DEF StructInv, OfferInv
<1>10. TokenInv'
  BY <1>1, <1>5 DEF StructInv, TokenInv, TypeOK, SlotTypeOK, Unknown
<1>11. JobInv'
  <2> SUFFICES ASSUME NEW x \in Workers
               PROVE  /\ (job[x] # 0 => offer[job[x]] # None)'
                      /\ (src[x] # 0 => offer[src[x]] # None)'
                      /\ (pc[x] = "flag" => job[x] # 0)'
    BY DEF JobInv
  <2>1. job[x] \in 0..MaxSessions /\ src[x] \in 0..MaxSessions
    BY DEF StructInv, TypeOK, ThreadTypeOK
  <2>2. CASE x = w
    BY <2>2, <1>4
  <2>3. CASE x # w
    BY <2>1, <2>3, <1>1, <1>3, <1>5 DEF StructInv, JobInv, Kept
  <2>4. QED
    BY <2>2, <2>3
<1>12. OwnInv'
  <2> SUFFICES ASSUME NEW x \in Workers, pc'[x] \in Preparing PROVE OwnOK(x)'
    BY DEF OwnInv, OwnOK
  <2>1. x # w /\ pc'[x] = pc[x] /\ job'[x] = job[x] /\ todo'[x] = todo[x]
    BY <1>3, <1>4 DEF Kept, Preparing
  <2>2. job[x] \in Sessions /\ OwnOK(x) /\ job[x] # s
    BY <2>1, <1>1, OwnerTypes DEF StructInv, OwnInv
  <2>3. QED
    BY <2>1, <2>2, <1>5, <1>7 DEF OwnOK
<1>13. AloneInv'
  <2> SUFFICES ASSUME NEW x \in Workers, NEW y \in Workers, x # y, pc'[x] \in Preparing
               PROVE  AloneOK(x, y)'
    BY DEF AloneInv, AloneOK
  <2>1. /\ x # w /\ pc'[x] = pc[x] /\ job'[x] = job[x] /\ job[x] # 0
        /\ AloneOK(x, y)
    BY <1>3, <1>4 DEF Kept, Preparing, StructInv, OwnInv, OwnOK, AloneInv
  <2>2. CASE y = w
    BY <2>1, <2>2, <1>4 DEF AloneOK, Preparing
  <2>3. CASE y # w
    BY <2>1, <2>3, <1>3 DEF AloneOK, Kept
  <2>4. QED
    BY <2>2, <2>3
<1>14. PromptInv'
  <2>1. ASSUME NEW x \in Workers PROVE PromptOK(x)'
    <3>1. CASE x = w
      BY <3>1, <1>4 DEF PromptOK
    <3>2. CASE x # w
      <4>1. pc[x] \in Preparing => job[x] \in Sessions /\ job[x] # s
        BY <3>2, <1>1, OwnerTypes
      <4>2. PromptOK(x) /\ pc'[x] = pc[x] /\ job'[x] = job[x]
        BY <3>2, <1>3 DEF StructInv, PromptInv, Kept
      <4>3. QED
        BY <4>1, <4>2, <1>5 DEF PromptOK, Preparing
    <3>3. QED
      BY <3>1, <3>2
  <2>2. ASSUME NEW t \in Sessions, prompt'[t] \in {"queued", "batched", "shown", "no"}
        PROVE  \E x \in Workers : pc'[x] = "wait" /\ job'[x] = t
    <3>1. t # s /\ prompt'[t] = prompt[t]
      BY <2>2, <1>5, <1>6
    <3>2. PICK x \in Workers : pc[x] = "wait" /\ job[x] = t
      BY <2>2, <3>1 DEF StructInv, PromptInv, WaitInv
    <3>3. QED
      BY <3>1, <3>2, <1>3 DEF Kept
  <2>3. QED
    BY <2>1, <2>2 DEF PromptInv, WaitInv
<1>15. UploadInv'
  <2> SUFFICES ASSUME NEW x \in Workers, pc'[x] \in Uploading PROVE UploadOK(x)'
    BY DEF UploadInv, UploadOK
  <2>1. /\ pc'[x] = pc[x] /\ job'[x] = job[x] /\ src'[x] = src[x] /\ fid'[x] = fid[x]
        /\ tgt'[x] = tgt[x] /\ got'[x] = got[x] /\ good'[x] = good[x] /\ x # w
    BY <1>3, <1>4 DEF Kept, Uploading
  <2>2. src[x] \in Sessions /\ src[x] # s /\ UploadOK(x)
    BY <2>1, <1>1, UploadTypes DEF StructInv, UploadInv
  <2>3. QED
    BY <2>1, <2>2, <1>5 DEF UploadOK, Recorded, PassesChecks
<1>16. HandleInv'
  BY <1>3, <1>4, HandleKept
<1>17. QED
  BY <1>2, <1>8, <1>9, <1>10, <1>11, <1>12, <1>13, <1>14, <1>15, <1>16 DEF StructInv

\* A wrong certificate ends the request.
LEMMA StructPrepareMismatch ==
  ASSUME NEW w \in Workers, StructInv, PrepareMismatch(w) PROVE StructInv'
BY StructForget DEF PrepareMismatch

\* A refusal by the user ends the request.
LEMMA StructPrepareRejected ==
  ASSUME NEW w \in Workers, StructInv, PrepareRejected(w) PROVE StructInv'
BY StructForget DEF PrepareRejected
\* The end of the receive loop closes the file.
LEMMA StructUploadLeaves ==
  ASSUME NEW w \in Workers, StructInv, pc[w] = "read",
         NEW step \in {"canceled", "failed"}, Goto(w, step),
         handle' = [handle EXCEPT ![tgt[w]] = None],
         UNCHANGED <<slot, maps, requests, dialogs, table, disk, history, overlap, job, locals, todo>>
  PROVE  StructInv'
<1>1. /\ pc[w] \in Uploading /\ UploadOK(w) /\ HandleOK(w) /\ ThreadTypeOK /\ tgt[w] \in Paths
  BY UploadTypes DEF StructInv, TypeOK, UploadInv, HandleInv, Uploading
<1>2. Kept(w) /\ pc'[w] = step
  BY <1>1, GotoKept
<1>3. TypeOK'
  <2>1. StoreTypeOK'
    BY DEF StructInv, TypeOK, StoreTypeOK
  <2>2. ThreadTypeOK'
    BY DEF StructInv, TypeOK, ThreadTypeOK, Goto, Steps
  <2>3. QED
    BY <2>1, <2>2 DEF StructInv, TypeOK, SlotTypeOK, RequestTypeOK
<1>4. UploadOK(w)'
  BY <1>1, <1>2 DEF UploadOK, Uploading
<1>5. \A p \in Paths : handle[p] \notin {None, w} => handle'[p] = handle[p]
  BY <1>1 DEF HandleOK, StructInv, TypeOK, StoreTypeOK
<1>6. HandleInv'
  BY <1>2, <1>5, HandleKept
<1>7. QED
  BY <1>1, <1>2, <1>3, <1>4, <1>6, StructStep DEF Uploading, Preparing

\* The receive loop sees a canceled or removed transfer.
LEMMA StructUploadStopped ==
  ASSUME NEW w \in Workers, StructInv, UploadStopped(w) PROVE StructInv'
BY StructUploadLeaves DEF UploadStopped

\* The receive loop sees the connection or the disk fail.
LEMMA StructUploadBreaks ==
  ASSUME NEW w \in Workers, StructInv, UploadBreaks(w) PROVE StructInv'
BY StructUploadLeaves DEF UploadBreaks

\* The body ends: the digest decides between recording and giving up.
LEMMA StructUploadEnd ==
  ASSUME NEW w \in Workers, StructInv, UploadEnd(w) PROVE StructInv'
<1> USE DEF UploadEnd
<1>0. PICK ok \in BOOLEAN :
        /\ good' = [good EXCEPT ![w] = ok]
        /\ disk' = [disk EXCEPT ![tgt[w]].good = ok]
        /\ Goto(w, IF PassesChecks(src[w], fid[w], ok) THEN "record" ELSE "failed")
  OBVIOUS
<1>1. /\ pc[w] \in Uploading /\ UploadOK(w) /\ HandleOK(w) /\ tgt[w] \in Paths
      /\ got[w] \in 0..MaxBytes
  BY UploadTypes DEF StructInv, TypeOK, ThreadTypeOK, UploadInv, HandleInv, Uploading
<1>2. Kept(w) /\ pc'[w] = IF PassesChecks(src[w], fid[w], ok) THEN "record" ELSE "failed"
  BY <1>0 DEF StructInv, TypeOK, ThreadTypeOK, Goto, Kept
<1>3. TypeOK'
  <2>1. disk[tgt[w]] \in Content
    BY ReadContent
  <2>2. disk' \in [Paths -> Content \cup {None}]
    BY <1>0, <1>1, <2>1 DEF StructInv, TypeOK, StoreTypeOK, Content
  <2>3. StoreTypeOK'
    BY <2>2 DEF StructInv, TypeOK, StoreTypeOK
  <2>4. ThreadTypeOK'
    BY <1>0 DEF StructInv, TypeOK, ThreadTypeOK, Goto, Steps
  <2>5. QED
    BY <2>3, <2>4 DEF StructInv, TypeOK, SlotTypeOK, RequestTypeOK
<1>4. UploadOK(w)'
  <2>1. good'[w] = ok
    BY <1>0 DEF StructInv, TypeOK, ThreadTypeOK
  <2>2. CASE PassesChecks(src[w], fid[w], ok)
    BY <1>1, <1>2, <2>1, <2>2 DEF UploadOK, Uploading, PassesChecks
  <2>3. CASE ~PassesChecks(src[w], fid[w], ok)
    BY <1>1, <1>2, <2>3 DEF UploadOK, Uploading
  <2>4. QED
    BY <2>2, <2>3
<1>5. \A p \in Paths : handle[p] \notin {None, w} => handle'[p] = handle[p] /\ disk'[p] = disk[p]
  BY <1>0, <1>1 DEF HandleOK, StructInv, TypeOK, StoreTypeOK
<1>6. HandleInv'
  BY <1>2, <1>5, HandleKept
<1>7. QED
  BY <1>1, <1>2, <1>3, <1>4, <1>6, StructStep DEF Uploading, Preparing

\* The upload is given up: the file is deleted and the transfer marked.
LEMMA StructUploadGivesUp ==
  ASSUME NEW w \in Workers, StructInv, pc[w] \in {"canceled", "failed"},
         NEW state \in {"canceled", "failed"},
         disk' = Deleted(tgt[w]), xfer' = WithState(job[w], state), Return(w),
         UNCHANGED <<slot, maps, requests, dialogs, cancelReq, handle, history, overlap>>
  PROVE  StructInv'
<1>1. tgt[w] \in Paths /\ StoreTypeOK
  BY UploadTypes DEF StructInv, TypeOK, Uploading
<1>2. /\ Kept(w) /\ pc'[w] = "idle" /\ job'[w] = 0 /\ src'[w] = 0 /\ got'[w] = 0
      /\ ThreadTypeOK'
  BY ReturnKept, ReturnTypes DEF StructInv, TypeOK
<1>3. /\ xfer' \in [Sessions -> XferStates]
      /\ \A s \in Sessions : xfer'[s] = "none" <=> xfer[s] = "none"
  BY <1>1, WithStateKeeps
<1>4. TypeOK'
  <2>1. StoreTypeOK'
    BY <1>1, <1>3, DeletedType DEF StoreTypeOK
  <2>2. QED
    BY <1>2, <2>1 DEF StructInv, TypeOK, SlotTypeOK, RequestTypeOK
<1>5. \A p \in Paths : handle[p] \notin {None, w} => disk'[p] = disk[p]
  BY <1>1 DEF Deleted, StoreTypeOK
<1>6. HandleInv'
  BY <1>2, <1>5, HandleKept
<1>7. QED
  BY <1>2, <1>3, <1>4, <1>6, StructStep DEF UploadOK, Uploading, Preparing

\* The canceled upload deletes its file.
LEMMA StructUploadCanceled ==
  ASSUME NEW w \in Workers, StructInv, UploadCanceled(w) PROVE StructInv'
BY StructUploadGivesUp DEF UploadCanceled

\* The failed upload deletes its file.
LEMMA StructUploadFailed ==
  ASSUME NEW w \in Workers, StructInv, UploadFailed(w) PROVE StructInv'
BY StructUploadGivesUp DEF UploadFailed

\* The history gets the file, which is what "finish" relies on.
LEMMA StructUploadRecord ==
  ASSUME NEW w \in Workers, StructInv, UploadRecord(w) PROVE StructInv'
<1> USE DEF UploadRecord
<1> DEFINE saved == [sess |-> src[w], file |-> fid[w], path |-> tgt[w], bytes |-> got[w], good |-> good[w]]
<1>1. pc[w] \in Uploading /\ UploadOK(w) /\ ThreadTypeOK
  BY DEF StructInv, TypeOK, UploadInv, Uploading
<1>2. Kept(w) /\ pc'[w] = "finish"
  BY <1>1, GotoKept
<1>3. TypeOK'
  <2>1. saved \in [sess: Sessions, file: Files, path: Paths, bytes: 0..MaxBytes, good: BOOLEAN]
    BY <1>1, UploadTypes DEF ThreadTypeOK
  <2>2. StoreTypeOK'
    BY <2>1 DEF StructInv, TypeOK, StoreTypeOK
  <2>3. ThreadTypeOK'
    BY DEF StructInv, TypeOK, ThreadTypeOK, Goto, Steps
  <2>4. QED
    BY <2>2, <2>3 DEF StructInv, TypeOK, SlotTypeOK, RequestTypeOK
<1>4. UploadOK(w)'
  <2>1. saved \in history' /\ PassesChecks(src[w], fid[w], good[w])
    BY <1>1 DEF UploadOK
  <2>2. Recorded(src[w], fid[w], got[w])'
    BY <2>1 DEF Recorded, PassesChecks
  <2>3. QED
    BY <1>1, <1>2, <2>1, <2>2 DEF UploadOK, Uploading, PassesChecks, Recorded
<1>5. HandleInv'
  BY <1>2, HandleKept
<1>6. \A h \in history' \ history : xfer[h.sess] # "none"
  BY <1>1 DEF UploadOK
<1>7. QED
  BY <1>1, <1>2, <1>3, <1>4, <1>5, <1>6, StructStep DEF Uploading, Preparing

\* The last file of a session releases the slot; any other just counts.
LEMMA StructUploadFinish ==
  ASSUME NEW w \in Workers, StructInv, UploadFinish(w) PROVE StructInv'
<1> USE DEF UploadFinish
<1>1. pc[w] \in Uploading /\ UploadOK(w) /\ ThreadTypeOK /\ fid[w] \in Files
  BY UploadTypes DEF StructInv, TypeOK, UploadInv, Uploading
<1>2. SlotTypeOK'
  <2>1. got[w] \in -1..MaxBytes
    BY DEF StructInv, TypeOK, ThreadTypeOK
  <2>2. received' \in [Files -> -1..MaxBytes]
    BY <2>1 DEF StructInv, TypeOK, SlotTypeOK
  <2>3. active' \in BOOLEAN
    BY DEF StructInv, TypeOK, SlotTypeOK
  <2>4. QED
    BY <2>2, <2>3 DEF StructInv, TypeOK, SlotTypeOK
<1>3. CASE AllDone(received')
  <2>1. Kept(w) /\ pc'[w] = "report"
    BY <1>1, <1>3, GotoKept
  <2>2. ThreadTypeOK'
    BY <1>3 DEF StructInv, TypeOK, ThreadTypeOK, Goto, Steps
  <2>3. TypeOK'
    BY <1>2, <2>2 DEF StructInv, TypeOK, StoreTypeOK, RequestTypeOK
  <2>4. UploadOK(w)'
    BY <1>1, <1>3, <2>1 DEF UploadOK, Uploading
  <2>5. HandleInv'
    BY <2>1, HandleKept
  <2>6. QED
    BY <1>1, <1>3, <2>1, <2>3, <2>4, <2>5, StructStep DEF Uploading, Preparing
<1>4. CASE ~AllDone(received')
  <2>1. Kept(w) /\ pc'[w] = "idle" /\ job'[w] = 0 /\ src'[w] = 0 /\ got'[w] = 0 /\ ThreadTypeOK'
    BY <1>1, <1>4, ReturnKept, ReturnTypes
  <2>2. TypeOK'
    BY <1>2, <2>1 DEF StructInv, TypeOK, StoreTypeOK, RequestTypeOK
  <2>3. HandleInv'
    BY <2>1, HandleKept
  <2>4. QED
    BY <1>1, <1>4, <2>1, <2>2, <2>3, StructStep DEF UploadOK, Uploading, Preparing
<1>5. QED
  BY <1>3, <1>4

\* A thread that marks a transfer and returns.
LEMMA StructMarks ==
  ASSUME NEW w \in Workers, StructInv, pc[w] \in {"report", "flag"},
         NEW state \in {"done", "canceled"}, xfer' = WithState(job[w], state), Return(w),
         cancelReq' \subseteq Sessions,
         UNCHANGED <<slot, maps, requests, dialogs, store, overlap>>
  PROVE  StructInv'
<1>1. /\ Kept(w) /\ pc'[w] = "idle" /\ job'[w] = 0 /\ src'[w] = 0 /\ got'[w] = 0
      /\ ThreadTypeOK'
  BY ReturnKept, ReturnTypes DEF StructInv, TypeOK
<1>2. /\ xfer' \in [Sessions -> XferStates]
      /\ \A s \in Sessions : xfer'[s] = "none" <=> xfer[s] = "none"
  BY WithStateKeeps DEF StructInv, TypeOK
<1>3. TypeOK'
  BY <1>1, <1>2 DEF StructInv, TypeOK, SlotTypeOK, RequestTypeOK, StoreTypeOK
<1>4. HandleInv'
  BY <1>1, HandleKept
<1>5. QED
  BY <1>1, <1>2, <1>3, <1>4, StructStep DEF UploadOK, Uploading, Preparing

\* SetState(TS_DONE).
LEMMA StructUploadReport ==
  ASSUME NEW w \in Workers, StructInv, UploadReport(w) PROVE StructInv'
<1>1. cancelReq \subseteq Sessions
  BY DEF StructInv, TypeOK, StoreTypeOK
<1>2. QED
  BY <1>1, StructMarks DEF UploadReport

\* A cancel request flags the transfer of the session it found.
LEMMA StructCancelFlag ==
  ASSUME NEW w \in Workers, StructInv, CancelFlag(w) PROVE StructInv'
<1>1. cancelReq' \subseteq Sessions
  <2>1. job[w] \in Sessions /\ cancelReq \subseteq Sessions
    BY DEF CancelFlag, StructInv, TypeOK, StoreTypeOK, ThreadTypeOK, JobInv
  <2>2. QED
    BY <2>1 DEF CancelFlag
<1>2. QED
  BY <1>1, StructMarks DEF CancelFlag

\* The request asks the user, or accepts for him.
LEMMA StructPreparePrompt ==
  ASSUME NEW w \in Workers, StructInv, PreparePrompt(w) PROVE StructInv'
<1> DEFINE s == job[w]
<1> USE DEF PreparePrompt
<1>1. /\ s \in Sessions /\ offer[s] \in Offers /\ DOMAIN offer[s] \subseteq Files
      /\ Unknown(s) /\ prompt[s] = "none"
      /\ \A x \in Workers : x # w => job[x] # s /\ src[x] # s
  BY OwnerTypes, EarlyAlone DEF Early, Preparing, StructInv, PromptInv, PromptOK
<1>2. Kept(w) /\ pc'[w] \in {"wait", "install"} /\ job'[w] = s /\ src'[w] = src[w]
  BY DEF StructInv, TypeOK, ThreadTypeOK, Goto, Kept
<1>3. \A t \in Sessions : t # s => accepted'[t] = accepted[t] /\ prompt'[t] = prompt[t]
  BY <1>1 DEF StructInv, TypeOK, RequestTypeOK
<1>4. \/ pc'[w] = "wait" /\ accepted'[s] = accepted[s] /\ prompt'[s] = "queued"
      \/ pc'[w] = "install" /\ accepted'[s] = DOMAIN offer[s] /\ prompt'[s] = "none"
  <2>0. RequestTypeOK /\ ThreadTypeOK
    BY DEF StructInv, TypeOK
  <2>1. CASE Goto(w, "wait") /\ prompt' = [prompt EXCEPT ![s] = "queued"] /\ accepted' = accepted
    BY <2>0, <2>1, <1>1 DEF RequestTypeOK, ThreadTypeOK, Goto
  <2>2. CASE Goto(w, "install") /\ accepted' = [accepted EXCEPT ![s] = DOMAIN offer[s]] /\ prompt' = prompt
    BY <2>0, <2>2, <1>1 DEF RequestTypeOK, ThreadTypeOK, Goto
  <2>3. QED
    BY <2>1, <2>2
<1>5. TypeOK'
  <2>1. RequestTypeOK'
    <3>1. prompt' \in [Sessions -> PromptStates]
      BY DEF StructInv, TypeOK, RequestTypeOK, PromptStates
    <3>2. accepted' \in [Sessions -> SUBSET Files]
      BY <1>1 DEF StructInv, TypeOK, RequestTypeOK
    <3>3. QED
      BY <3>1, <3>2 DEF StructInv, TypeOK, RequestTypeOK
  <2>2. ThreadTypeOK'
    BY DEF StructInv, TypeOK, ThreadTypeOK, Goto, Steps
  <2>3. QED
    BY <2>1, <2>2 DEF StructInv, TypeOK, SlotTypeOK, StoreTypeOK
<1>6. \A t \in Sessions : Unknown(t) => Unknown(t)'
  BY DEF Unknown
<1>7. SlotInv'
  BY DEF StructInv, SlotInv
<1>8. OfferInv'
  <2> SUFFICES ASSUME NEW t \in Sessions
               PROVE  /\ (offer[t] = None => Unknown(t) /\ accepted[t] = {} /\ prompt[t] = "none")'
                      /\ (offer[t] # None => accepted[t] \subseteq DOMAIN offer[t])'
    BY DEF OfferInv
  <2>1. CASE t = s
    BY <2>1, <1>1, <1>4 DEF StructInv, OfferInv
  <2>2. CASE t # s
    BY <2>2, <1>3, <1>6 DEF StructInv, OfferInv
  <2>3. QED
    BY <2>1, <2>2
<1>9. TokenInv'
  BY <1>1, <1>3 DEF StructInv, TokenInv, TypeOK, SlotTypeOK, Unknown
<1>10. JobInv'
  BY <1>2 DEF StructInv, JobInv, Kept
<1>11. OwnInv'
  <2> SUFFICES ASSUME NEW x \in Workers, pc'[x] \in Preparing PROVE OwnOK(x)'
    BY DEF OwnInv, OwnOK
  <2>1. CASE x = w
    BY <2>1, <1>1, <1>2, <1>6 DEF OwnOK, Preparing, Early, Unknown
  <2>2. CASE x # w
    <3>1. pc'[x] = pc[x] /\ job'[x] = job[x] /\ todo'[x] = todo[x]
      BY <2>2, <1>2 DEF Kept
    <3>2. job[x] \in Sessions /\ OwnOK(x) /\ job[x] # s
      BY <2>2, <3>1, <1>1, OwnerTypes DEF StructInv, OwnInv
    <3>3. QED
      BY <3>1, <3>2, <1>3, <1>6 DEF OwnOK
  <2>3. QED
    BY <2>1, <2>2
<1>12. AloneInv'
  <2> SUFFICES ASSUME NEW x \in Workers, NEW y \in Workers, x # y, pc'[x] \in Preparing
               PROVE  AloneOK(x, y)'
    BY DEF AloneInv, AloneOK
  <2>1. CASE x = w
    BY <2>1, <1>1, <1>2 DEF AloneOK, Kept
  <2>2. CASE y = w
    <3>1. AloneOK(x, w) /\ pc'[x] = pc[x] /\ job'[x] = job[x]
      BY <2>2, <1>2 DEF StructInv, AloneInv, Kept
    <3>2. QED
      BY <2>2, <3>1, <1>2 DEF AloneOK, Preparing
  <2>3. CASE x # w /\ y # w
    BY <2>3, <1>2 DEF StructInv, AloneInv, AloneOK, Kept
  <2>4. QED
    BY <2>1, <2>2, <2>3
<1>13. PromptInv'
  <2>1. ASSUME NEW x \in Workers PROVE PromptOK(x)'
    <3>1. CASE x = w
      BY <3>1, <1>2, <1>4 DEF PromptOK
    <3>2. CASE x # w
      <4>1. pc[x] \in Preparing => job[x] \in Sessions /\ job[x] # s
        BY <3>2, <1>1, OwnerTypes
      <4>2. PromptOK(x) /\ pc'[x] = pc[x] /\ job'[x] = job[x]
        BY <3>2, <1>2 DEF StructInv, PromptInv, Kept
      <4>3. QED
        BY <4>1, <4>2, <1>3 DEF PromptOK, Preparing
    <3>3. QED
      BY <3>1, <3>2
  <2>2. ASSUME NEW t \in Sessions, prompt'[t] \in {"queued", "batched", "shown", "no"}
        PROVE  \E x \in Workers : pc'[x] = "wait" /\ job'[x] = t
    <3>1. CASE t = s
      BY <3>1, <2>2, <1>2, <1>4
    <3>2. CASE t # s
      <4>1. PICK x \in Workers : pc[x] = "wait" /\ job[x] = t
        BY <2>2, <3>2, <1>3 DEF StructInv, PromptInv, WaitInv
      <4>2. QED
        BY <4>1, <1>2, <3>2 DEF Kept
    <3>3. QED
      BY <3>1, <3>2
  <2>3. QED
    BY <2>1, <2>2 DEF PromptInv, WaitInv
<1>14. UploadInv'
  <2> SUFFICES ASSUME NEW x \in Workers, pc'[x] \in Uploading PROVE UploadOK(x)'
    BY DEF UploadInv, UploadOK
  <2>1. /\ pc'[x] = pc[x] /\ job'[x] = job[x] /\ src'[x] = src[x] /\ fid'[x] = fid[x]
        /\ tgt'[x] = tgt[x] /\ got'[x] = got[x] /\ good'[x] = good[x] /\ x # w
    BY <1>2 DEF Kept, Uploading
  <2>2. src[x] \in Sessions /\ src[x] # s /\ UploadOK(x)
    BY <2>1, <1>1, UploadTypes DEF StructInv, UploadInv
  <2>3. QED
    BY <2>1, <2>2, <1>3 DEF UploadOK, Recorded, PassesChecks
<1>15. HandleInv'
  BY <1>2, HandleKept
<1>16. QED
  BY <1>5, <1>7, <1>8, <1>9, <1>10, <1>11, <1>12, <1>13, <1>14, <1>15 DEF StructInv

\* The session takes the slot: from here on other threads may know it.
LEMMA StructPrepareInstall ==
  ASSUME NEW w \in Workers, StructInv, PrepareInstall(w) PROVE StructInv'
<1> DEFINE s == job[w]
<1> USE DEF PrepareInstall
<1>1. /\ s \in Sessions /\ offer[s] \in Offers /\ accepted[s] \subseteq Files
      /\ Unknown(s) /\ prompt[s] \in {"none", "yes"} /\ pc[w] \in Early
      /\ \A x \in Workers : x # w => job[x] # s /\ src[x] # s
  BY OwnerTypes, EarlyAlone DEF Early, Preparing, StructInv, PromptInv, PromptOK
<1>2. Kept(w) /\ pc'[w] = "entries" /\ job'[w] = s /\ src'[w] = src[w] /\ todo'[w] = accepted[s]
  BY DEF StructInv, TypeOK, ThreadTypeOK, Goto, Kept
<1>3. \A f \in Files : token'[f] = 0
  OBVIOUS
<1>4. TypeOK'
  <2>1. SlotTypeOK'
    <3>1. -1 \in -1..MaxBytes
      OBVIOUS
    <3>2. received' \in [Files -> -1..MaxBytes]
      BY <3>1
    <3>3. 0 \in 0..MaxSessions /\ s \in 0..MaxSessions
      BY <1>1
    <3>4. token' \in [Files -> 0..MaxSessions]
      BY <3>3
    <3>5. entry' \in [Files -> Files \cup {None}] /\ target' \in [Files -> Paths \cup {None}]
      OBVIOUS
    <3>6. QED
      BY <3>2, <3>3, <3>4, <3>5 DEF SlotTypeOK
  <2>2. StoreTypeOK'
    <3>1. OtherWork(w) \subseteq Sessions
      <4> SUFFICES ASSUME NEW x \in Workers \ {w}, pc[x] \in AtWork PROVE job[x] \in Sessions
        BY DEF OtherWork
      <4>1. pc[x] \in Preparing \/ pc[x] \in Uploading
        BY DEF AtWork, Preparing, Uploading
      <4>2. QED
        BY <4>1, OwnerTypes, UploadTypes
    <3>2. QED
      BY <1>1, <3>1 DEF StructInv, TypeOK, StoreTypeOK
  <2>3. ThreadTypeOK'
    BY <1>1 DEF StructInv, TypeOK, ThreadTypeOK, Goto, Steps
  <2>4. QED
    BY <2>1, <2>2, <2>3 DEF StructInv, TypeOK, RequestTypeOK
<1>5. \A t \in Sessions : t # s /\ Unknown(t) => Unknown(t)'
  BY <1>3 DEF Unknown
<1>6. SlotInv'
  BY <1>1 DEF SlotInv
<1>7. OfferInv'
  BY <1>1, <1>5 DEF StructInv, OfferInv
<1>8. TokenInv'
  BY <1>3 DEF TokenInv
<1>9. JobInv'
  BY <1>1, <1>2 DEF StructInv, JobInv, Kept
<1>10. OwnInv'
  <2> SUFFICES ASSUME NEW x \in Workers, pc'[x] \in Preparing PROVE OwnOK(x)'
    BY DEF OwnInv, OwnOK
  <2>1. CASE x = w
    BY <2>1, <1>1, <1>2 DEF OwnOK, Early, Unknown
  <2>2. CASE x # w
    <3>1. pc'[x] = pc[x] /\ job'[x] = job[x] /\ todo'[x] = todo[x]
      BY <2>2, <1>2 DEF Kept
    <3>2. job[x] \in Sessions /\ OwnOK(x) /\ job[x] # s
      BY <2>2, <3>1, <1>1, OwnerTypes DEF StructInv, OwnInv
    <3>3. QED
      BY <3>1, <3>2, <1>5 DEF OwnOK
  <2>3. QED
    BY <2>1, <2>2
<1>11. AloneInv'
  <2> SUFFICES ASSUME NEW x \in Workers, NEW y \in Workers, x # y, pc'[x] \in Preparing
               PROVE  AloneOK(x, y)'
    BY DEF AloneInv, AloneOK
  <2>1. CASE x = w
    BY <2>1, <1>1, <1>2 DEF AloneOK, Kept
  <2>2. CASE y = w
    <3>1. AloneOK(x, w) /\ pc'[x] = pc[x] /\ job'[x] = job[x]
      BY <2>2, <1>2 DEF StructInv, AloneInv, Kept
    <3>2. QED
      BY <2>2, <3>1, <1>1, <1>2 DEF AloneOK, Preparing, Early
  <2>3. CASE x # w /\ y # w
    BY <2>3, <1>2 DEF StructInv, AloneInv, AloneOK, Kept
  <2>4. QED
    BY <2>1, <2>2, <2>3
<1>12. PromptInv'
  <2>1. \A x \in Workers : PromptOK(x)'
    BY <1>1, <1>2 DEF StructInv, PromptInv, PromptOK, Kept
  <2>2. ASSUME NEW t \in Sessions, prompt[t] \in {"queued", "batched", "shown", "no"}
        PROVE  \E x \in Workers : pc'[x] = "wait" /\ job'[x] = t
    <3>1. PICK x \in Workers : pc[x] = "wait" /\ job[x] = t
      BY <2>2 DEF StructInv, PromptInv, WaitInv
    <3>2. QED
      BY <2>2, <3>1, <1>1, <1>2 DEF Kept
  <2>3. QED
    BY <2>1, <2>2 DEF PromptInv, WaitInv
<1>13. UploadInv'
  BY <1>2 DEF StructInv, UploadInv, UploadOK, Kept, Uploading, Recorded, PassesChecks
<1>14. HandleInv'
  BY <1>2, HandleKept
<1>15. QED
  BY <1>4, <1>6, <1>7, <1>8, <1>9, <1>10, <1>11, <1>12, <1>13, <1>14 DEF StructInv

\* A file of the session gets its token and target.
LEMMA StructPrepareEntry ==
  ASSUME NEW w \in Workers, StructInv, PrepareEntry(w) PROVE StructInv'
<1> DEFINE s == job[w]
<1>0. PICK f \in todo[w], k \in 0..MaxDup :
        /\ token' = [token EXCEPT ![offer[s][f].id] = s]
        /\ entry' = [entry EXCEPT ![offer[s][f].id] = f]
        /\ target' = [target EXCEPT ![offer[s][f].id] = <<offer[s][f].name, k>>]
        /\ received' = [received EXCEPT ![offer[s][f].id] = 0]
        /\ todo' = [todo EXCEPT ![w] = @ \ {f}]
        /\ Goto(w, IF todo[w] = {f} THEN "publish" ELSE "entries")
  BY DEF PrepareEntry
<1> DEFINE i == offer[s][f].id
<1>1. /\ pc[w] = "entries" /\ s \in Sessions /\ offer[s] \in Offers /\ s # 0
      /\ f \in accepted[s] /\ f \in DOMAIN offer[s] /\ f \in Files
      /\ offer[s][f].name \in Names /\ i \in Files
      /\ \A x \in Workers : x # w /\ pc[x] \in Early => job[x] # s
  <2>1. pc[w] = "entries" /\ OwnOK(w)
    BY DEF PrepareEntry, StructInv, OwnInv
  <2>2. s \in Sessions /\ offer[s] \in Offers /\ DOMAIN offer[s] \subseteq Files
        /\ accepted[s] \subseteq DOMAIN offer[s]
    BY <2>1, OwnerTypes DEF Preparing
  <2>3. f \in accepted[s]
    BY <2>1, <1>0 DEF OwnOK, Preparing
  <2>4. offer[s][f] \in FileInfo
    BY <2>2, <2>3
  <2>5. \A x \in Workers : x # w /\ pc[x] \in Early => job[x] # s
    BY <2>1, EarlyAlone
  <2>6. QED
    BY <2>1, <2>2, <2>3, <2>4, <2>5 DEF FileInfo
<1>2. Kept(w) /\ pc'[w] \in {"entries", "publish"} /\ job'[w] = s /\ src'[w] = src[w]
      /\ todo'[w] \subseteq todo[w]
  BY <1>0 DEF PrepareEntry, StructInv, TypeOK, ThreadTypeOK, Goto, Kept
<1>i. /\ token' = [token EXCEPT ![i] = s]
      /\ entry' = [entry EXCEPT ![i] = f]
      /\ target' = [target EXCEPT ![i] = <<offer[s][f].name, k>>]
      /\ received' = [received EXCEPT ![i] = 0]
      /\ offer[s][f].id = i
  BY <1>0
<1> HIDE DEF i
<1>3. \A g \in Files : /\ token'[g] = IF g = i THEN s ELSE token[g]
                       /\ entry'[g] = IF g = i THEN f ELSE entry[g]
  BY <1>i, <1>1 DEF StructInv, TypeOK, SlotTypeOK
<1>4. TypeOK'
  <2>1. SlotTypeOK'
    <3>1. 0 \in -1..MaxBytes
      OBVIOUS
    <3>2. <<offer[s][f].name, k>> \in Paths
      BY <1>1 DEF Paths
    <3>3. received' \in [Files -> -1..MaxBytes]
      BY <1>i, <1>1, <3>1 DEF StructInv, TypeOK, SlotTypeOK
    <3>4. QED
      BY <1>i, <1>1, <3>2, <3>3 DEF PrepareEntry, StructInv, TypeOK, SlotTypeOK
  <2>2. ThreadTypeOK'
    BY <1>0 DEF PrepareEntry, StructInv, TypeOK, ThreadTypeOK, Goto, Steps
  <2>3. QED
    BY <2>1, <2>2 DEF PrepareEntry, StructInv, TypeOK, StoreTypeOK, RequestTypeOK
<1> USE DEF PrepareEntry
<1>5. \A t \in Sessions : t # s /\ Unknown(t) => Unknown(t)'
  BY <1>3 DEF Unknown
<1>6. SlotInv'
  BY DEF StructInv, SlotInv
<1>7. OfferInv'
  BY <1>1, <1>5 DEF StructInv, OfferInv
<1>8. TokenInv'
  <2> SUFFICES ASSUME NEW g \in Files, token'[g] # 0
               PROVE  (/\ offer[token[g]] # None /\ entry[g] \in accepted[token[g]]
                       /\ offer[token[g]][entry[g]].id = g /\ target[g] \in Paths)'
    BY DEF TokenInv
  <2>1. CASE g = i
    <3>1. target'[i] \in Paths
      BY <1>i, <1>1 DEF StructInv, TypeOK, SlotTypeOK, Paths
    <3>2. token'[g] = s /\ entry'[g] = f
      BY <2>1, <1>3
    <3>3. QED
      BY <2>1, <3>1, <3>2, <1>1, <1>i
  <2>2. CASE g # i
    <3>1. target'[g] = target[g] /\ token'[g] = token[g] /\ entry'[g] = entry[g]
      BY <2>2, <1>i, <1>3 DEF StructInv, TypeOK, SlotTypeOK
    <3>2. QED
      BY <3>1 DEF StructInv, TokenInv
  <2>3. QED
    BY <2>1, <2>2
<1>9. JobInv'
  BY <1>1, <1>2 DEF StructInv, JobInv, Kept
<1>10. OwnInv'
  <2> SUFFICES ASSUME NEW x \in Workers, pc'[x] \in Preparing PROVE OwnOK(x)'
    BY DEF OwnInv, OwnOK
  <2>1. CASE x = w
    BY <2>1, <1>1, <1>2 DEF OwnOK, Early, Preparing, StructInv, OwnInv
  <2>2. CASE x # w
    <3>1. pc'[x] = pc[x] /\ job'[x] = job[x] /\ todo'[x] = todo[x]
      BY <2>2, <1>2 DEF Kept
    <3>2. job[x] \in Sessions /\ OwnOK(x) /\ (pc[x] \in Early => job[x] # s)
      BY <2>2, <3>1, <1>1, OwnerTypes DEF StructInv, OwnInv
    <3>3. QED
      BY <3>1, <3>2, <1>5 DEF OwnOK
  <2>3. QED
    BY <2>1, <2>2
<1>11. AloneInv'
  <2> SUFFICES ASSUME NEW x \in Workers, NEW y \in Workers, x # y, pc'[x] \in Preparing
               PROVE  AloneOK(x, y)'
    BY DEF AloneInv, AloneOK
  <2>0. AloneOK(x, y)
    BY DEF StructInv, AloneInv
  <2>1. CASE x = w
    BY <2>0, <2>1, <1>1, <1>2 DEF AloneOK, Kept, Early, Preparing
  <2>2. CASE y = w
    BY <2>0, <2>2, <1>1, <1>2 DEF AloneOK, Kept, Preparing, Early
  <2>3. CASE x # w /\ y # w
    BY <2>0, <2>3, <1>2 DEF AloneOK, Kept
  <2>4. QED
    BY <2>1, <2>2, <2>3
<1>12. PromptInv'
  <2>1. \A x \in Workers : PromptOK(x)'
    BY <1>1, <1>2 DEF StructInv, PromptInv, PromptOK, Kept
  <2>2. ASSUME NEW t \in Sessions, prompt[t] \in {"queued", "batched", "shown", "no"}
        PROVE  \E x \in Workers : pc'[x] = "wait" /\ job'[x] = t
    <3>1. PICK x \in Workers : pc[x] = "wait" /\ job[x] = t
      BY <2>2 DEF StructInv, PromptInv, WaitInv
    <3>2. QED
      BY <2>2, <3>1, <1>1, <1>2 DEF Kept
  <2>3. QED
    BY <2>1, <2>2 DEF PromptInv, WaitInv
<1>13. UploadInv'
  BY <1>2 DEF StructInv, UploadInv, UploadOK, Kept, Uploading, Recorded, PassesChecks
<1>14. HandleInv'
  BY <1>2, HandleKept
<1>15. QED
  BY <1>4, <1>6, <1>7, <1>8, <1>9, <1>10, <1>11, <1>12, <1>13, <1>14 DEF StructInv

\* The transfer enters the table, and its tokens are out.
LEMMA StructPreparePublish ==
  ASSUME NEW w \in Workers, StructInv, PreparePublish(w) PROVE StructInv'
<1> DEFINE s == job[w]
<1> USE DEF PreparePublish
<1>1. /\ s \in Sessions /\ offer[s] # None /\ prompt[s] \in {"none", "yes"}
      /\ \A x \in Workers : x # w /\ pc[x] \in Preparing => job[x] # s
  <2>1. s \in Sessions /\ offer[s] # None
    BY OwnerTypes DEF Preparing
  <2>2. QED
    BY <2>1 DEF Preparing, StructInv, PromptInv, PromptOK, AloneInv, AloneOK
<1>2. /\ Kept(w) /\ pc'[w] = "idle" /\ job'[w] = 0 /\ src'[w] = 0 /\ got'[w] = 0
      /\ ThreadTypeOK'
  BY ReturnKept, ReturnTypes DEF StructInv, TypeOK
<1>3. \A t \in Sessions : t # s => prompt'[t] = prompt[t] /\ xfer'[t] = xfer[t]
  BY DEF StructInv, TypeOK, RequestTypeOK, StoreTypeOK
<1>4. prompt'[s] = "none" /\ xfer'[s] = "transferring"
  BY <1>1 DEF StructInv, TypeOK, RequestTypeOK, StoreTypeOK
<1>5. TypeOK'
  BY <1>2 DEF StructInv, TypeOK, SlotTypeOK, RequestTypeOK, StoreTypeOK, PromptStates, XferStates
<1>6. \A t \in Sessions : t # s /\ Unknown(t) => Unknown(t)'
  BY <1>3 DEF Unknown
<1>7. SlotInv'
  BY DEF StructInv, SlotInv
<1>8. OfferInv'
  BY <1>1, <1>3, <1>6 DEF StructInv, OfferInv
<1>9. TokenInv'
  BY DEF StructInv, TokenInv
<1>10. JobInv'
  BY <1>2 DEF StructInv, JobInv, Kept
<1>11. OwnInv'
  <2> SUFFICES ASSUME NEW x \in Workers, pc'[x] \in Preparing PROVE OwnOK(x)'
    BY DEF OwnInv, OwnOK
  <2>1. x # w /\ pc'[x] = pc[x] /\ job'[x] = job[x] /\ todo'[x] = todo[x]
    BY <1>2 DEF Kept, Preparing
  <2>2. job[x] \in Sessions /\ OwnOK(x) /\ job[x] # s
    BY <2>1, <1>1, OwnerTypes DEF StructInv, OwnInv
  <2>3. QED
    BY <2>1, <2>2, <1>3, <1>6 DEF OwnOK
<1>12. AloneInv'
  <2> SUFFICES ASSUME NEW x \in Workers, NEW y \in Workers, x # y, pc'[x] \in Preparing
               PROVE  AloneOK(x, y)'
    BY DEF AloneInv, AloneOK
  <2>1. x # w /\ pc'[x] = pc[x] /\ job'[x] = job[x] /\ job[x] # 0 /\ AloneOK(x, y)
    BY <1>2 DEF Kept, Preparing, StructInv, OwnInv, OwnOK, AloneInv
  <2>2. CASE y = w
    BY <2>1, <2>2, <1>2 DEF AloneOK, Preparing
  <2>3. CASE y # w
    BY <2>1, <2>3, <1>2 DEF AloneOK, Kept
  <2>4. QED
    BY <2>2, <2>3
<1>13. PromptInv'
  <2>1. ASSUME NEW x \in Workers PROVE PromptOK(x)'
    <3>1. CASE x = w
      BY <3>1, <1>2 DEF PromptOK
    <3>2. CASE x # w
      <4>1. pc[x] \in Preparing => job[x] \in Sessions /\ job[x] # s
        BY <3>2, <1>1, OwnerTypes
      <4>2. PromptOK(x) /\ pc'[x] = pc[x] /\ job'[x] = job[x]
        BY <3>2, <1>2 DEF StructInv, PromptInv, Kept
      <4>3. QED
        BY <4>1, <4>2, <1>3 DEF PromptOK, Preparing
    <3>3. QED
      BY <3>1, <3>2
  <2>2. ASSUME NEW t \in Sessions, prompt'[t] \in {"queued", "batched", "shown", "no"}
        PROVE  \E x \in Workers : pc'[x] = "wait" /\ job'[x] = t
    <3>1. t # s /\ prompt'[t] = prompt[t]
      BY <2>2, <1>3, <1>4
    <3>2. PICK x \in Workers : pc[x] = "wait" /\ job[x] = t
      BY <2>2, <3>1 DEF StructInv, PromptInv, WaitInv
    <3>3. QED
      BY <3>1, <3>2, <1>2 DEF Kept
  <2>3. QED
    BY <2>1, <2>2 DEF PromptInv, WaitInv
<1>14. UploadInv'
  <2> SUFFICES ASSUME NEW x \in Workers, pc'[x] \in Uploading PROVE UploadOK(x)'
    BY DEF UploadInv, UploadOK
  <2>1. /\ pc'[x] = pc[x] /\ job'[x] = job[x] /\ src'[x] = src[x] /\ fid'[x] = fid[x]
        /\ tgt'[x] = tgt[x] /\ got'[x] = got[x] /\ good'[x] = good[x] /\ x # w
    BY <1>2 DEF Kept, Uploading
  <2>2. src[x] \in Sessions /\ UploadOK(x)
    BY <2>1, UploadTypes DEF StructInv, UploadInv
  <2>3. QED
    BY <2>1, <2>2, <1>3, <1>4 DEF UploadOK, Recorded, PassesChecks
<1>15. HandleInv'
  BY <1>2, HandleKept
<1>16. QED
  BY <1>5, <1>7, <1>8, <1>9, <1>10, <1>11, <1>12, <1>13, <1>14, <1>15 DEF StructInv

\* A request arrives with a session number nobody has seen.
LEMMA StructPrepareArrive ==
  ASSUME NEW w \in Workers, StructInv, PrepareArrive(w) PROVE StructInv'
<1>0. PICK s \in Sessions, p \in Peers, o \in Offers :
        /\ Fresh(s)
        /\ peer' = [peer EXCEPT ![s] = p]
        /\ offer' = [offer EXCEPT ![s] = o]
        /\ job' = [job EXCEPT ![w] = s]
  BY DEF PrepareArrive
<1> USE DEF PrepareArrive
<1>1. /\ Unknown(s) /\ prompt[s] = "none" /\ accepted[s] = {}
      /\ \A x \in Workers : job[x] # s /\ src[x] # s
  BY <1>0 DEF Fresh, StructInv, OfferInv, JobInv
<1>2. Kept(w) /\ pc'[w] \in {"drop", "ask"} /\ job'[w] = s /\ src'[w] = src[w] /\ got'[w] = got[w]
  BY <1>0 DEF StructInv, TypeOK, ThreadTypeOK, Goto, Kept
<1>3. offer'[s] = o /\ o # None /\ \A t \in Sessions : t # s => offer'[t] = offer[t]
  BY <1>0 DEF StructInv, TypeOK, RequestTypeOK
<1>4. TypeOK'
  <2>1. RequestTypeOK'
    <3>1. peer' \in [Sessions -> Peers \cup {None}]
      BY <1>0 DEF StructInv, TypeOK, RequestTypeOK
    <3>2. offer' \in [Sessions -> Offers \cup {None}]
      BY <1>0 DEF StructInv, TypeOK, RequestTypeOK
    <3>3. QED
      BY <3>1, <3>2 DEF StructInv, TypeOK, RequestTypeOK
  <2>2. ThreadTypeOK'
    <3>1. pc' \in [Workers -> Steps]
      BY DEF StructInv, TypeOK, ThreadTypeOK, Goto, Steps
    <3>2. job' \in [Workers -> 0..MaxSessions]
      BY <1>0 DEF StructInv, TypeOK, ThreadTypeOK
    <3>3. QED
      BY <3>1, <3>2 DEF StructInv, TypeOK, ThreadTypeOK
  <2>3. QED
    BY <2>1, <2>2 DEF StructInv, TypeOK, SlotTypeOK, StoreTypeOK
<1>5. \A t \in Sessions : Unknown(t) => Unknown(t)'
  BY DEF Unknown
<1>6. SlotInv'
  BY <1>1, <1>3 DEF StructInv, SlotInv, TypeOK, SlotTypeOK
<1>7. OfferInv'
  BY <1>1, <1>3, <1>5 DEF StructInv, OfferInv
<1>8. TokenInv'
  <2>1. \A i \in Files : token[i] # 0 => offer'[token[i]] = offer[token[i]]
    BY <1>1, <1>3 DEF Unknown, StructInv, TypeOK, SlotTypeOK
  <2>2. QED
    BY <2>1 DEF StructInv, TokenInv
<1>9. JobInv'
  <2> SUFFICES ASSUME NEW x \in Workers
               PROVE  /\ (job[x] # 0 => offer[job[x]] # None)'
                      /\ (src[x] # 0 => offer[src[x]] # None)'
                      /\ (pc[x] = "flag" => job[x] # 0)'
    BY DEF JobInv
  <2>1. job[x] \in 0..MaxSessions /\ src[x] \in 0..MaxSessions
    BY DEF StructInv, TypeOK, ThreadTypeOK
  <2>2. CASE x = w
    BY <2>1, <2>2, <1>1, <1>2, <1>3 DEF StructInv, JobInv
  <2>3. CASE x # w
    BY <2>1, <2>3, <1>2, <1>3 DEF StructInv, JobInv, Kept
  <2>4. QED
    BY <2>2, <2>3
<1>10. OwnInv'
  <2> SUFFICES ASSUME NEW x \in Workers, pc'[x] \in Preparing PROVE OwnOK(x)'
    BY DEF OwnInv, OwnOK
  <2>1. CASE x = w
    BY <2>1, <1>1, <1>2, <1>5 DEF OwnOK, Unknown
  <2>2. CASE x # w
    <3>1. pc'[x] = pc[x] /\ job'[x] = job[x] /\ todo'[x] = todo[x]
      BY <2>2, <1>2 DEF Kept
    <3>2. job[x] \in Sessions /\ OwnOK(x)
      BY <3>1, OwnerTypes DEF StructInv, OwnInv
    <3>3. QED
      BY <3>1, <3>2, <1>5 DEF OwnOK
  <2>3. QED
    BY <2>1, <2>2
<1>11. AloneInv'
  <2> SUFFICES ASSUME NEW x \in Workers, NEW y \in Workers, x # y, pc'[x] \in Preparing
               PROVE  AloneOK(x, y)'
    BY DEF AloneInv, AloneOK
  <2>1. CASE x = w
    BY <2>1, <1>1, <1>2 DEF AloneOK, Kept
  <2>2. CASE y = w
    BY <2>2, <1>1, <1>2 DEF AloneOK, Kept, StructInv, AloneInv
  <2>3. CASE x # w /\ y # w
    BY <2>3, <1>2 DEF StructInv, AloneInv, AloneOK, Kept
  <2>4. QED
    BY <2>1, <2>2, <2>3
<1>12. PromptInv'
  <2>1. \A x \in Workers : PromptOK(x)'
    BY <1>1, <1>2 DEF StructInv, PromptInv, PromptOK, Kept
  <2>2. ASSUME NEW t \in Sessions, prompt[t] \in {"queued", "batched", "shown", "no"}
        PROVE  \E x \in Workers : pc'[x] = "wait" /\ job'[x] = t
    <3>1. PICK x \in Workers : pc[x] = "wait" /\ job[x] = t
      BY <2>2 DEF StructInv, PromptInv, WaitInv
    <3>2. QED
      BY <3>1, <1>2 DEF Kept
  <2>3. QED
    BY <2>1, <2>2 DEF PromptInv, WaitInv
<1>13. UploadInv'
  <2> SUFFICES ASSUME NEW x \in Workers, pc'[x] \in Uploading PROVE UploadOK(x)'
    BY DEF UploadInv, UploadOK
  <2>1. /\ pc'[x] = pc[x] /\ job'[x] = job[x] /\ src'[x] = src[x] /\ fid'[x] = fid[x]
        /\ tgt'[x] = tgt[x] /\ got'[x] = got[x] /\ good'[x] = good[x] /\ x # w
    BY <1>2 DEF Kept, Uploading
  <2>2. src[x] \in Sessions /\ src[x] # s /\ UploadOK(x)
    BY <2>1, <1>1, UploadTypes DEF StructInv, UploadInv
  <2>3. QED
    BY <2>1, <2>2, <1>3 DEF UploadOK, Recorded, PassesChecks
<1>14. HandleInv'
  BY <1>2, HandleKept
<1>15. QED
  BY <1>4, <1>6, <1>7, <1>8, <1>9, <1>10, <1>11, <1>12, <1>13, <1>14 DEF StructInv

\* The stale session loses the slot.
LEMMA StructPrepareDrop ==
  ASSUME NEW w \in Workers, StructInv, PrepareDrop(w) PROVE StructInv'
<1> USE DEF PrepareDrop
<1>1. Kept(w) /\ pc'[w] = "ask" /\ job'[w] = job[w] /\ src'[w] = src[w]
  BY GotoKept DEF StructInv, TypeOK
<1>2. TypeOK'
  BY DEF StructInv, TypeOK, SlotTypeOK, RequestTypeOK, StoreTypeOK, ThreadTypeOK, Goto, Steps
<1>3. SlotInv' /\ OfferInv' /\ TokenInv'
  BY DEF StructInv, SlotInv, OfferInv, Unknown, TokenInv
<1>4. JobInv'
  BY <1>1 DEF StructInv, JobInv, Kept
<1>5. OwnInv'
  BY <1>1 DEF StructInv, OwnInv, OwnOK, Unknown, Preparing, Early, Kept
<1>6. AloneInv'
  BY <1>1 DEF StructInv, AloneInv, AloneOK, Preparing, Early, Kept
<1>7. PromptInv'
  BY <1>1 DEF StructInv, PromptInv, PromptOK, WaitInv, Kept
<1>8. UploadInv'
  BY <1>1 DEF StructInv, UploadInv, UploadOK, Uploading, PassesChecks, Recorded, Kept
<1>9. HandleInv'
  BY <1>1, HandleKept
<1>10. QED
  BY <1>2, <1>3, <1>4, <1>5, <1>6, <1>7, <1>8, <1>9 DEF StructInv

\* An upload request is admitted: its token names a session of the table.
LEMMA StructUploadValidate ==
  ASSUME NEW w \in Workers, StructInv, UploadValidate(w) PROVE StructInv'
<1>0. PICK s \in {t \in Sessions : Granted(t)} : \E i \in Files, v1 \in BOOLEAN :
        /\ MayUpload(s, i, v1)
        /\ job' = [job EXCEPT ![w] = cur]
        /\ src' = [src EXCEPT ![w] = s]
        /\ fid' = [fid EXCEPT ![w] = entry[i]]
        /\ tgt' = [tgt EXCEPT ![w] = target[i]]
  BY DEF UploadValidate
<1>1. PICK i \in Files :
        /\ active /\ token[i] = s
        /\ job' = [job EXCEPT ![w] = cur]
        /\ src' = [src EXCEPT ![w] = s]
        /\ fid' = [fid EXCEPT ![w] = entry[i]]
        /\ tgt' = [tgt EXCEPT ![w] = target[i]]
  BY <1>0 DEF MayUpload
<1> DEFINE f == entry[i]
<1> USE DEF UploadValidate
<1>2. /\ s \in Sessions /\ xfer[s] # "none" /\ f \in Files /\ target[i] \in Paths
      /\ f \in accepted[s]
      /\ cur \in Sessions /\ offer[cur] # None /\ offer[s] # None
  <2>1. s \in Sessions /\ xfer[s] # "none"
    BY <1>0 DEF Granted
  <2>2. f \in accepted[s] /\ target[i] \in Paths /\ offer[s] # None
    BY <1>1, <2>1 DEF StructInv, TokenInv
  <2>3. f \in Files
    BY <2>1, <2>2 DEF StructInv, TypeOK, RequestTypeOK
  <2>4. cur \in Sessions /\ offer[cur] # None
    BY <1>1 DEF StructInv, SlotInv, TypeOK, SlotTypeOK
  <2>5. QED
    BY <2>1, <2>2, <2>3, <2>4
<1>3. /\ Kept(w) /\ pc'[w] = "open" /\ job'[w] = cur /\ src'[w] = s /\ fid'[w] = f
      /\ tgt'[w] = target[i] /\ got'[w] = 0
  BY <1>1 DEF StructInv, TypeOK, ThreadTypeOK, HandleInv, HandleOK, Goto, Kept
<1>4. TypeOK'
  <2>1. SlotTypeOK'
    BY DEF StructInv, TypeOK, SlotTypeOK
  <2>2. ThreadTypeOK'
    <3>1. pc' \in [Workers -> Steps]
      BY DEF StructInv, TypeOK, ThreadTypeOK, Goto, Steps
    <3>2. job' \in [Workers -> 0..MaxSessions] /\ src' \in [Workers -> 0..MaxSessions]
      BY <1>1, <1>2 DEF StructInv, TypeOK, ThreadTypeOK
    <3>3. fid' \in [Workers -> Files \cup {None}] /\ tgt' \in [Workers -> Paths \cup {None}]
      BY <1>1, <1>2 DEF StructInv, TypeOK, ThreadTypeOK
    <3>4. QED
      BY <3>1, <3>2, <3>3 DEF StructInv, TypeOK, ThreadTypeOK
  <2>3. QED
    BY <2>1, <2>2 DEF StructInv, TypeOK, RequestTypeOK, StoreTypeOK
<1>5. SlotInv' /\ OfferInv' /\ TokenInv'
  BY DEF StructInv, SlotInv, OfferInv, Unknown, TokenInv
<1>6. JobInv'
  BY <1>2, <1>3 DEF StructInv, JobInv, Kept
<1>7. OwnInv'
  BY <1>3 DEF StructInv, OwnInv, OwnOK, Unknown, Preparing, Kept
<1>8. AloneInv'
  <2> SUFFICES ASSUME NEW x \in Workers, NEW y \in Workers, x # y, pc'[x] \in Preparing
               PROVE  AloneOK(x, y)'
    BY DEF AloneInv, AloneOK
  <2>1. x # w /\ pc'[x] = pc[x] /\ job'[x] = job[x] /\ AloneOK(x, y) /\ OwnOK(x)
    BY <1>3 DEF Kept, Preparing, StructInv, OwnInv, AloneInv
  <2>2. CASE y = w
    BY <2>1, <2>2, <1>2, <1>3 DEF AloneOK, OwnOK, Preparing, Unknown
  <2>3. CASE y # w
    BY <2>1, <2>3, <1>3 DEF AloneOK, Kept
  <2>4. QED
    BY <2>2, <2>3
<1>9. PromptInv'
  <2>1. \A x \in Workers : PromptOK(x)'
    BY <1>3 DEF StructInv, PromptInv, PromptOK, Kept
  <2>2. WaitInv'
    BY <1>3 DEF StructInv, PromptInv, WaitInv, Kept
  <2>3. QED
    BY <2>1, <2>2 DEF PromptInv
<1>10. UploadInv'
  <2> SUFFICES ASSUME NEW x \in Workers, pc'[x] \in Uploading PROVE UploadOK(x)'
    BY DEF UploadInv, UploadOK
  <2>1. CASE x = w
    BY <2>1, <1>2, <1>3 DEF UploadOK
  <2>2. CASE x # w
    BY <2>2, <1>3 DEF StructInv, UploadInv, UploadOK, Kept, Recorded, PassesChecks
  <2>3. QED
    BY <2>1, <2>2
<1>11. HandleInv'
  BY <1>3, HandleKept
<1>12. QED
  BY <1>4, <1>5, <1>6, <1>7, <1>8, <1>9, <1>10, <1>11 DEF StructInv

\* A cancel request releases the slot.
LEMMA StructCancelMark ==
  ASSUME NEW w \in Workers, StructInv, CancelMark(w) PROVE StructInv'
<1> USE DEF CancelMark
<1>1. cur \in Sessions /\ offer[cur] # None
  BY DEF StructInv, SlotInv, TypeOK, SlotTypeOK
<1>2. Kept(w) /\ pc'[w] = "flag" /\ job'[w] = cur /\ src'[w] = src[w]
  BY DEF StructInv, TypeOK, ThreadTypeOK, Goto, Kept
<1>3. TypeOK'
  BY <1>1 DEF StructInv, TypeOK, SlotTypeOK, RequestTypeOK, StoreTypeOK, ThreadTypeOK, Goto, Steps
<1>4. SlotInv' /\ OfferInv' /\ TokenInv'
  BY DEF StructInv, SlotInv, OfferInv, Unknown, TokenInv
<1>5. JobInv'
  BY <1>1, <1>2 DEF StructInv, JobInv, Kept
<1>6. OwnInv'
  BY <1>2 DEF StructInv, OwnInv, OwnOK, Unknown, Preparing, Kept
<1>7. AloneInv'
  <2> SUFFICES ASSUME NEW x \in Workers, NEW y \in Workers, x # y, pc'[x] \in Preparing
               PROVE  AloneOK(x, y)'
    BY DEF AloneInv, AloneOK
  <2>1. x # w /\ pc'[x] = pc[x] /\ job'[x] = job[x] /\ AloneOK(x, y) /\ OwnOK(x)
    BY <1>2 DEF Kept, Preparing, StructInv, OwnInv, AloneInv
  <2>2. CASE y = w
    BY <2>1, <2>2, <1>2 DEF AloneOK, OwnOK, Preparing, Unknown
  <2>3. CASE y # w
    BY <2>1, <2>3, <1>2 DEF AloneOK, Kept
  <2>4. QED
    BY <2>2, <2>3
<1>8. PromptInv'
  <2>1. \A x \in Workers : PromptOK(x)'
    BY <1>2 DEF StructInv, PromptInv, PromptOK, Kept
  <2>2. WaitInv'
    BY <1>2 DEF StructInv, PromptInv, WaitInv, Kept
  <2>3. QED
    BY <2>1, <2>2 DEF PromptInv
<1>9. UploadInv'
  BY <1>2 DEF StructInv, UploadInv, UploadOK, Kept, Uploading, Recorded, PassesChecks
<1>10. HandleInv'
  BY <1>2, HandleKept
<1>11. QED
  BY <1>3, <1>4, <1>5, <1>6, <1>7, <1>8, <1>9, <1>10 DEF StructInv

\* The UI thread and the user move only prompts whose thread waits for them.
LEMMA StructPrompts ==
  ASSUME StructInv,
         prompt' \in [Sessions -> PromptStates], accepted' \in [Sessions -> SUBSET Files],
         modalActive' \in BOOLEAN,
         \A s \in Sessions :
           \/ prompt'[s] = prompt[s] /\ accepted'[s] = accepted[s]
           \/ /\ prompt[s] \in {"queued", "batched", "shown"}
              /\ prompt'[s] # "none"
              /\ accepted'[s] \subseteq DOMAIN offer[s],
         UNCHANGED <<slot, maps, peer, offer, table, store, overlap, pc, job, locals, todo>>
  PROVE  StructInv'
<1> DEFINE moved(t) == prompt'[t] # prompt[t] \/ accepted'[t] # accepted[t]
<1>1. ASSUME NEW s \in Sessions, moved(s)
      PROVE  \E v \in Workers : pc[v] = "wait" /\ job[v] = s
  BY <1>1 DEF StructInv, PromptInv, WaitInv
<1>2. ASSUME NEW s \in Sessions, moved(s)
      PROVE  /\ Unknown(s) /\ offer[s] # None
             /\ \A x \in Workers : /\ pc[x] \in Uploading => src[x] # s
                                   /\ pc[x] \in Preparing \ {"wait"} => job[x] # s
  <2>1. PICK v \in Workers : pc[v] = "wait" /\ job[v] = s
    BY <1>1, <1>2
  <2>2. Unknown(s) /\ \A x \in Workers : x # v => job[x] # s /\ src[x] # s
    BY <2>1, EarlyAlone DEF Early
  <2>3. offer[s] # None
    BY <2>1, OwnerTypes DEF Preparing
  <2>4. QED
    BY <2>1, <2>2, <2>3 DEF Preparing, Uploading
<1>3. TypeOK'
  BY DEF StructInv, TypeOK, SlotTypeOK, RequestTypeOK, StoreTypeOK, ThreadTypeOK
<1>4. \A t \in Sessions : Unknown(t) => Unknown(t)'
  BY DEF Unknown
<1>5. SlotInv' /\ JobInv' /\ AloneInv'
  BY DEF StructInv, SlotInv, JobInv, AloneInv, AloneOK
<1>6. OfferInv'
  <2> SUFFICES ASSUME NEW t \in Sessions
               PROVE  /\ (offer[t] = None => Unknown(t) /\ accepted[t] = {} /\ prompt[t] = "none")'
                      /\ (offer[t] # None => accepted[t] \subseteq DOMAIN offer[t])'
    BY DEF OfferInv
  <2>1. CASE moved(t)
    BY <2>1, <1>2
  <2>2. CASE ~moved(t)
    BY <2>2, <1>4 DEF StructInv, OfferInv
  <2>3. QED
    BY <2>1, <2>2
<1>7. TokenInv'
  <2> SUFFICES ASSUME NEW f \in Files, token[f] # 0 PROVE entry[f] \in accepted'[token[f]]
    BY DEF StructInv, TokenInv
  <2>1. token[f] \in Sessions /\ entry[f] \in accepted[token[f]]
    BY DEF StructInv, TokenInv, TypeOK, SlotTypeOK
  <2>2. accepted'[token[f]] = accepted[token[f]]
    BY <2>1, <1>2 DEF Unknown
  <2>3. QED
    BY <2>1, <2>2
<1>8. OwnInv'
  <2> SUFFICES ASSUME NEW x \in Workers, pc[x] \in Preparing PROVE OwnOK(x)'
    BY DEF OwnInv, OwnOK
  <2>1. job[x] \in Sessions /\ OwnOK(x)
    BY OwnerTypes DEF StructInv, OwnInv
  <2>2. pc[x] = "entries" => accepted'[job[x]] = accepted[job[x]]
    BY <2>1, <1>2 DEF Preparing
  <2>3. QED
    BY <2>1, <2>2, <1>4 DEF OwnOK
<1>9. PromptInv'
  <2>1. ASSUME NEW x \in Workers PROVE PromptOK(x)'
    <3>1. pc[x] \in Preparing \ {"wait"} => prompt'[job[x]] = prompt[job[x]]
      BY <1>2, OwnerTypes
    <3>2. QED
      BY <3>1 DEF StructInv, PromptInv, PromptOK, Preparing
  <2>2. WaitInv'
    BY <1>1 DEF StructInv, PromptInv, WaitInv
  <2>3. QED
    BY <2>1, <2>2 DEF PromptInv
<1>10. UploadInv'
  <2> SUFFICES ASSUME NEW x \in Workers, pc[x] \in Uploading PROVE UploadOK(x)'
    BY DEF UploadInv, UploadOK
  <2>1. src[x] \in Sessions /\ UploadOK(x)
    BY UploadTypes DEF StructInv, UploadInv
  <2>2. accepted'[src[x]] = accepted[src[x]]
    BY <2>1, <1>2
  <2>3. QED
    BY <2>1, <2>2 DEF UploadOK, Recorded, PassesChecks
<1>11. HandleInv'
  BY DEF StructInv, HandleInv, HandleOK, Holds
<1>12. QED
  BY <1>3, <1>5, <1>6, <1>7, <1>8, <1>9, <1>10, <1>11 DEF StructInv

\* The three steps of the UI thread.
LEMMA StructUi ==
  ASSUME StructInv, UiDrain \/ UiDeclineQueued \/ \E s \in Sessions : UiShow(s)
  PROVE  StructInv'
<1>1. \A s \in Sessions : prompt'[s] = prompt[s] \/ (prompt[s] \in {"queued", "batched"} /\ prompt'[s] # "none")
  BY DEF UiDrain, UiDeclineQueued, UiShow, StructInv, TypeOK, RequestTypeOK
<1>2. prompt' \in [Sessions -> PromptStates]
  BY DEF UiDrain, UiDeclineQueued, UiShow, StructInv, TypeOK, RequestTypeOK, PromptStates
<1>3. UNCHANGED <<slot, maps, requests, table, store, overlap, pc, job, locals, todo>>
  BY DEF UiDrain, UiDeclineQueued, UiShow
<1>4. accepted' \in [Sessions -> SUBSET Files]
  BY <1>3 DEF StructInv, TypeOK, RequestTypeOK
<1>5. \A s \in Sessions :
           \/ prompt'[s] = prompt[s] /\ accepted'[s] = accepted[s]
           \/ /\ prompt[s] \in {"queued", "batched", "shown"}
              /\ prompt'[s] # "none"
              /\ accepted'[s] \subseteq DOMAIN offer[s]
  <2> SUFFICES ASSUME NEW s \in Sessions, prompt'[s] # prompt[s]
               PROVE  accepted'[s] \subseteq DOMAIN offer[s]
    BY <1>1, <1>3
  <2>1. offer[s] # None
    BY <1>1 DEF StructInv, OfferInv
  <2>2. QED
    BY <2>1, <1>3 DEF StructInv, OfferInv
<1>6. modalActive' \in BOOLEAN
  BY DEF UiDrain, UiDeclineQueued, UiShow, StructInv, TypeOK, RequestTypeOK
<1>7. QED
  BY <1>2, <1>3, <1>4, <1>5, <1>6, StructPrompts

\* The answer of the user goes to the thread that waits for it.
LEMMA StructUserAnswer ==
  ASSUME StructInv, NEW s \in Sessions, UserAnswer(s) PROVE StructInv'
<1>1. PICK ticked \in SUBSET DOMAIN offer[s] :
        /\ accepted' = [accepted EXCEPT ![s] = ticked]
        /\ prompt' = [prompt EXCEPT ![s] = IF ticked = {} THEN "no" ELSE "yes"]
  BY DEF UserAnswer
<1>2. prompt[s] = "shown" /\ offer[s] \in Offers
  BY DEF UserAnswer, StructInv, OfferInv, TypeOK, RequestTypeOK
<1>3. ticked \subseteq Files
  BY <1>1, <1>2
<1>4. accepted' \in [Sessions -> SUBSET Files] /\ prompt' \in [Sessions -> PromptStates]
  BY <1>1, <1>3 DEF StructInv, TypeOK, RequestTypeOK, PromptStates
<1>5. \A t \in Sessions :
           \/ prompt'[t] = prompt[t] /\ accepted'[t] = accepted[t]
           \/ /\ prompt[t] \in {"queued", "batched", "shown"}
              /\ prompt'[t] # "none"
              /\ accepted'[t] \subseteq DOMAIN offer[t]
  BY <1>1, <1>2 DEF StructInv, TypeOK, RequestTypeOK
<1>6. QED
  BY <1>4, <1>5, StructPrompts DEF UserAnswer

\* What the user does to the table, and time to the slot, moves no thread.
LEMMA StructTable ==
  ASSUME StructInv, UserClear \/ IdleTimeout \/ \E s \in Sessions : UserCancel(s)
  PROVE  StructInv'
<1> USE DEF UserClear, IdleTimeout, UserCancel
<1>1. \A s \in Sessions : xfer'[s] = "none" <=> xfer[s] = "none"
  BY DEF StructInv, TypeOK, StoreTypeOK
<1>2. TypeOK'
  <2>1. StoreTypeOK'
    BY DEF StructInv, TypeOK, StoreTypeOK, XferStates
  <2>2. QED
    BY <2>1 DEF StructInv, TypeOK, SlotTypeOK, RequestTypeOK, ThreadTypeOK
<1>3. UNCHANGED <<active, cur, maps, requests, dialogs, store, overlap, pc, job, locals, todo>>
  OBVIOUS
<1>4. \A s \in Sessions : Unknown(s) => Unknown(s)'
  BY <1>1, <1>3 DEF Unknown
<1>5. SlotInv' /\ JobInv' /\ AloneInv' /\ PromptInv' /\ TokenInv'
  BY <1>3 DEF StructInv, SlotInv, JobInv, AloneInv, AloneOK, PromptInv, PromptOK, WaitInv, TokenInv
<1>6. OfferInv'
  BY <1>3, <1>4 DEF StructInv, OfferInv
<1>7. OwnInv'
  <2> SUFFICES ASSUME NEW x \in Workers, pc[x] \in Preparing PROVE OwnOK(x)'
    BY <1>3 DEF OwnInv, OwnOK
  <2>1. QED
    BY <1>1, <1>3, <1>4, OwnerTypes DEF OwnOK, StructInv, OwnInv
<1>8. UploadInv'
  <2> SUFFICES ASSUME NEW x \in Workers, pc[x] \in Uploading PROVE UploadOK(x)'
    BY <1>3 DEF UploadInv, UploadOK
  <2>1. QED
    BY <1>1, <1>3, UploadTypes DEF UploadOK, StructInv, UploadInv, Recorded, PassesChecks
<1>9. HandleInv'
  BY <1>3 DEF StructInv, HandleInv, HandleOK, Holds
<1>10. QED
  BY <1>2, <1>5, <1>6, <1>7, <1>8, <1>9 DEF StructInv

\* The structural invariant holds before the first request.
LEMMA StructInit == Init => StructInv
<1> SUFFICES ASSUME Init PROVE StructInv
  OBVIOUS
<1> USE DEF Init
<1>1. TypeOK
  <2>1. SlotTypeOK
    <3>1. 0 \in 0..MaxSessions /\ -1 \in -1..MaxBytes
      OBVIOUS
    <3>2. received \in [Files -> -1..MaxBytes]
      BY <3>1
    <3>3. token \in [Files -> 0..MaxSessions] /\ entry \in [Files -> Files \cup {None}]
          /\ target \in [Files -> Paths \cup {None}]
      BY <3>1
    <3>4. QED
      BY <3>1, <3>2, <3>3 DEF SlotTypeOK
  <2>2. RequestTypeOK
    BY DEF RequestTypeOK, PromptStates
  <2>3. StoreTypeOK
    <3>1. UserFile \in Content
      BY FilesAssumption DEF UserFile, Content
    <3>2. disk \in [Paths -> Content \cup {None}]
      BY <3>1
    <3>3. QED
      BY <3>2 DEF StoreTypeOK, XferStates
  <2>4. ThreadTypeOK
    BY DEF ThreadTypeOK, Steps
  <2>5. QED
    BY <2>1, <2>2, <2>3, <2>4 DEF TypeOK
<1>2. SlotInv /\ OfferInv /\ TokenInv /\ JobInv
  BY DEF SlotInv, OfferInv, TokenInv, JobInv, Unknown
<1>3. OwnInv /\ AloneInv /\ PromptInv
  BY DEF OwnInv, OwnOK, AloneInv, AloneOK, PromptInv, PromptOK, WaitInv, Preparing
<1>4. UploadInv /\ HandleInv
  BY DEF UploadInv, UploadOK, HandleInv, HandleOK, Uploading
<1>5. QED
  BY <1>1, <1>2, <1>3, <1>4 DEF StructInv

\* And where nothing happens.
LEMMA StructStutter == StructInv /\ UNCHANGED vars => StructInv'
<1> SUFFICES ASSUME StructInv, UNCHANGED vars PROVE StructInv'
  OBVIOUS
<1> USE DEF vars
<1>1. TypeOK'
  BY DEF StructInv, TypeOK, SlotTypeOK, RequestTypeOK, StoreTypeOK, ThreadTypeOK
<1>2. SlotInv' /\ OfferInv' /\ TokenInv' /\ JobInv' /\ OwnInv' /\ AloneInv'
  BY DEF StructInv, SlotInv, OfferInv, TokenInv, JobInv, Unknown, OwnInv, OwnOK, AloneInv, AloneOK
<1>3. PromptInv' /\ HandleInv'
  BY DEF StructInv, PromptInv, PromptOK, WaitInv, HandleInv, HandleOK, Holds
<1>4. UploadInv'
  BY DEF StructInv, UploadInv, UploadOK, Recorded, PassesChecks
<1>5. QED
  BY <1>1, <1>2, <1>3, <1>4 DEF StructInv

\* The structural invariant is inductive.
LEMMA StructNext == StructInv /\ [Next]_vars => StructInv'
<1> SUFFICES ASSUME StructInv, [Next]_vars PROVE StructInv'
  OBVIOUS
<1>1. ASSUME NEW w \in Workers, PrepareArrive(w) \/ UploadValidate(w) \/ CancelMark(w) PROVE StructInv'
  BY <1>1, StructPrepareArrive, StructUploadValidate, StructCancelMark
<1>2. ASSUME NEW w \in Workers, Prepare(w) PROVE StructInv'
  BY <1>2, StructPrepareDrop, StructPrepareMismatch, StructPreparePrompt, StructPrepareRejected,
     StructPrepareInstall, StructPrepareEntry, StructPreparePublish DEF Prepare
<1>3. ASSUME NEW w \in Workers, Upload(w) PROVE StructInv'
  BY <1>3, StructUploadOpen, StructUploadOpenFails, StructUploadChunk, StructUploadStopped,
     StructUploadBreaks, StructUploadEnd, StructUploadCanceled, StructUploadFailed,
     StructUploadRecord, StructUploadFinish, StructUploadReport DEF Upload
<1>4. ASSUME NEW w \in Workers, CancelFlag(w) PROVE StructInv'
  BY <1>4, StructCancelFlag
<1>5. CASE Ui
  BY <1>5, StructUi DEF Ui
<1>6. ASSUME NEW s \in Sessions, UserAnswer(s) PROVE StructInv'
  BY <1>6, StructUserAnswer
<1>7. CASE UserClear \/ IdleTimeout \/ \E s \in Sessions : UserCancel(s)
  BY <1>7, StructTable
<1>8. CASE UNCHANGED vars
  BY <1>8, StructStutter
<1>9. QED
  BY <1>1, <1>2, <1>3, <1>4, <1>5, <1>6, <1>7, <1>8 DEF Next

\* Every reachable state has the structure the code relies on: types, owners of
\* sessions and prompts, tokens with targets, open files with their readers.
THEOREM Structure == Spec => []StructInv
BY StructInit, StructNext, PTL DEF Spec

-----------------------------------------------------------------------------
(* A transfer reported DONE is complete.                                    *)

\* A step that leaves the maps, and what is known of sessions at work, alone.
LEMMA CleanStep ==
  ASSUME StructInv, CleanInv,
         cur' = cur, token' = token, entry' = entry, received' = received, overlap' = overlap,
         history \subseteq history',
         \A s \in Sessions : xfer'[s] = "done" => xfer[s] = "done",
         \A s \in Sessions : offer'[s] # offer[s] \/ accepted'[s] # accepted[s] =>
           Unknown(s) /\ \A x \in Workers : pc[x] \in Uploading => job[x] # s,
         \A x \in Workers : pc[x] = "entries" =>
           pc'[x] = "entries" /\ job'[x] = job[x] /\ todo'[x] = todo[x],
         \A x \in Workers : pc'[x] = "report" => pc[x] = "report" /\ job'[x] = job[x],
         \A x \in Workers : pc'[x] \in AtWork =>
           \/ /\ pc[x] \in AtWork /\ job'[x] = job[x] /\ src'[x] = src[x] /\ fid'[x] = fid[x]
              /\ pc'[x] # "entries" => pc[x] # "entries"
           \/ /\ job'[x] = cur /\ src'[x] # 0
              /\ \E i \in Files : src'[x] = token[i] /\ fid'[x] = entry[i]
  PROVE  CleanInv'
<1>1. cur \in Sessions \/ cur = 0
  BY DEF StructInv, TypeOK, SlotTypeOK
<1>2. ASSUME NEW s \in Sessions, ~Unknown(s) \/ \E x \in Workers : pc[x] \in Uploading /\ job[x] = s
      PROVE  offer'[s] = offer[s] /\ accepted'[s] = accepted[s]
  BY <1>2
<1>3. ASSUME NEW s \in Sessions, NEW f, NEW b, Recorded(s, f, b),
             offer'[s] = offer[s]
      PROVE  Recorded(s, f, b)'
  BY <1>3 DEF Recorded, PassesChecks
<1>4. ASSUME NEW s \in Sessions, Complete(s), offer'[s] = offer[s], accepted'[s] = accepted[s]
      PROVE  Complete(s)'
  BY <1>4, <1>3 DEF Complete, Shared
<1>5. ASSUME cur # 0, cur \notin overlap
      PROVE  /\ \A f \in Files : token[f] \in {0, cur}
             /\ \A x \in Workers : pc'[x] \in AtWork =>
                  /\ job'[x] = cur
                  /\ pc'[x] # "entries" => src'[x] = cur /\ entry[Id(cur, fid[x])'] = fid'[x]
             /\ \A i \in Files : token[i] = cur /\ received[i] > 0 => Recorded(cur, entry[i], received[i])'
             /\ \A f \in accepted'[cur] :
                  \/ token[Id(cur, f)'] = cur
                  \/ \E x \in Workers : pc'[x] = "entries" /\ job'[x] = cur /\ f \in todo'[x]
  <2>1. offer'[cur] = offer[cur] /\ accepted'[cur] = accepted[cur] /\ cur \in Sessions
    BY <1>1, <1>2, <1>5 DEF Unknown
  <2>2. \A f \in Files : token[f] \in {0, cur}
    BY <1>5 DEF CleanInv
  <2>3. ASSUME NEW x \in Workers, pc'[x] \in AtWork
        PROVE  /\ job'[x] = cur
               /\ pc'[x] # "entries" => src'[x] = cur /\ entry[Id(cur, fid[x])'] = fid'[x]
    <3>1. CASE /\ pc[x] \in AtWork /\ job'[x] = job[x] /\ src'[x] = src[x] /\ fid'[x] = fid[x]
               /\ pc'[x] # "entries" => pc[x] # "entries"
      BY <3>1, <1>5, <2>1 DEF CleanInv
    <3>2. CASE /\ job'[x] = cur /\ src'[x] # 0
               /\ \E i \in Files : src'[x] = token[i] /\ fid'[x] = entry[i]
      <4>1. PICK i \in Files : src'[x] = token[i] /\ fid'[x] = entry[i]
        BY <3>2
      <4>2. token[i] = cur /\ Id(token[i], entry[i]) = i
        BY <3>2, <4>1, <2>2 DEF StructInv, TokenInv
      <4>3. QED
        BY <3>2, <4>1, <4>2, <2>1
    <3>3. QED
      BY <2>3, <3>1, <3>2
  <2>4. \A i \in Files : token[i] = cur /\ received[i] > 0 => Recorded(cur, entry[i], received[i])'
    <3> SUFFICES ASSUME NEW i \in Files, token[i] = cur, received[i] > 0
                 PROVE  Recorded(cur, entry[i], received[i])'
      OBVIOUS
    <3>1. Recorded(cur, entry[i], received[i])
      BY <1>5 DEF CleanInv
    <3>2. QED
      BY <3>1, <2>1 DEF Recorded, PassesChecks
  <2>5. \A f \in accepted'[cur] :
          \/ token[Id(cur, f)'] = cur
          \/ \E x \in Workers : pc'[x] = "entries" /\ job'[x] = cur /\ f \in todo'[x]
    <3> SUFFICES ASSUME NEW f \in accepted[cur], token[Id(cur, f)] # cur
                 PROVE  \E x \in Workers : pc'[x] = "entries" /\ job'[x] = cur /\ f \in todo'[x]
      BY <2>1
    <3>1. PICK x \in Workers : pc[x] = "entries" /\ job[x] = cur /\ f \in todo[x]
      BY <1>5 DEF CleanInv
    <3>2. QED
      BY <3>1
  <2>6. QED
    BY <2>2, <2>3, <2>4, <2>5
<1>6. \A x \in Workers : pc'[x] \in AtWork /\ job'[x] \notin overlap => job'[x] = cur
  BY DEF CleanInv
<1>7. ASSUME NEW x \in Workers, pc'[x] = "report", job'[x] \notin overlap PROVE Complete(job[x])'
  <2>1. pc[x] = "report" /\ job'[x] = job[x] /\ job[x] \in Sessions
    BY <1>7, UploadTypes DEF Uploading
  <2>2. Complete(job[x])
    BY <1>7, <2>1 DEF CleanInv
  <2>3. offer'[job[x]] = offer[job[x]] /\ accepted'[job[x]] = accepted[job[x]]
    BY <2>1, <1>2 DEF Uploading
  <2>4. QED
    BY <2>1, <2>2, <2>3 DEF Complete, Shared, Recorded, PassesChecks
<1>8. ASSUME NEW s \in Sessions, xfer'[s] = "done", s \notin overlap PROVE Complete(s)'
  <2>1. Complete(s) /\ ~Unknown(s)
    BY <1>8 DEF CleanInv, Unknown
  <2>2. QED
    BY <2>1, <1>2, <1>4
<1>9. QED
  BY <1>5, <1>6, <1>7, <1>8 DEF CleanInv

\* The id of an accepted file is one of the ids there are.
LEMMA OfferIds ==
  ASSUME StructInv, NEW s \in Sessions, NEW f \in accepted[s]
  PROVE  f \in Files /\ offer[s][f] \in FileInfo /\ Id(s, f) \in Files
<1>1. offer[s] # None /\ offer[s] \in Offers
  BY DEF StructInv, OfferInv, TypeOK, RequestTypeOK
<1>2. f \in DOMAIN offer[s]
  BY <1>1 DEF StructInv, OfferInv
<1>3. f \in Files /\ offer[s][f] \in FileInfo
  BY <1>1, <1>2
<1>4. QED
  BY <1>3 DEF FileInfo

\* A new session starts with empty maps, and alone unless it joins overlap.
LEMMA CleanPrepareInstall ==
  ASSUME NEW w \in Workers, StructInv, CleanInv, PrepareInstall(w) PROVE CleanInv'
<1> DEFINE s == job[w]
<1> USE DEF PrepareInstall
<1>1. Kept(w) /\ pc'[w] = "entries" /\ job'[w] = s /\ todo'[w] = accepted[s]
  BY DEF StructInv, TypeOK, ThreadTypeOK, Goto, Kept
<1>2. \A f \in Files : token'[f] = 0
  OBVIOUS
<1>3. /\ overlap \subseteq overlap'
      /\ \A x \in Workers \ {w} : pc[x] \in AtWork => job[x] \in overlap' /\ s \in overlap'
  <2>1. overlap \subseteq overlap'
    OBVIOUS
  <2>2. ASSUME NEW x \in Workers \ {w}, pc[x] \in AtWork
        PROVE  job[x] \in overlap' /\ s \in overlap'
    <3>1. job[x] \in OtherWork(w)
      BY <2>2 DEF OtherWork
    <3>2. QED
      BY <3>1
  <2>3. QED
    BY <2>1, <2>2
<1>4. ASSUME cur' # 0, cur' \notin overlap'
      PROVE  /\ \A f \in Files : token'[f] \in {0, cur'}
             /\ \A x \in Workers : pc'[x] \in AtWork => job'[x] = cur' /\ pc'[x] = "entries"
             /\ \A f \in Files : token'[f] # cur'
             /\ \A f \in accepted'[cur'] :
                  \E x \in Workers : pc'[x] = "entries" /\ job'[x] = cur' /\ f \in todo'[x]
  BY <1>1, <1>2, <1>3, <1>4 DEF Kept
<1>5. \A x \in Workers : pc'[x] \in AtWork /\ job'[x] \notin overlap' => job'[x] = cur'
  BY <1>1, <1>3 DEF Kept
<1>6. ASSUME NEW x \in Workers, pc'[x] = "report", job'[x] \notin overlap' PROVE Complete(job[x])'
  <2>1. Complete(job[x]) /\ job'[x] = job[x]
    BY <1>1, <1>3, <1>6 DEF Kept, CleanInv
  <2>2. QED
    BY <2>1 DEF Complete, Shared, Recorded, PassesChecks
<1>7. \A t \in Sessions : xfer'[t] = "done" /\ t \notin overlap' => Complete(t)'
  BY <1>3 DEF CleanInv, Complete, Shared, Recorded, PassesChecks
<1>8. QED
  BY <1>4, <1>5, <1>6, <1>7 DEF CleanInv

\* An entry is that of the session in the slot.
LEMMA CleanPrepareEntry ==
  ASSUME NEW w \in Workers, StructInv, CleanInv, PrepareEntry(w) PROVE CleanInv'
<1> DEFINE s == job[w]
<1>0. PICK f \in todo[w], k \in 0..MaxDup :
        /\ token' = [token EXCEPT ![offer[s][f].id] = s]
        /\ entry' = [entry EXCEPT ![offer[s][f].id] = f]
        /\ received' = [received EXCEPT ![offer[s][f].id] = 0]
        /\ todo' = [todo EXCEPT ![w] = @ \ {f}]
        /\ Goto(w, IF todo[w] = {f} THEN "publish" ELSE "entries")
  BY DEF PrepareEntry
<1> DEFINE i == offer[s][f].id
<1> USE DEF PrepareEntry
<1>1. /\ Kept(w) /\ job'[w] = s /\ todo'[w] = todo[w] \ {f}
      /\ pc'[w] \in {"entries", "publish"} /\ (pc'[w] = "publish" => todo[w] = {f})
  BY <1>0 DEF StructInv, TypeOK, ThreadTypeOK, Goto, Kept
<1>2. \A g \in Files : /\ token'[g] = IF g = i THEN s ELSE token[g]
                       /\ entry'[g] = IF g = i THEN f ELSE entry[g]
                       /\ received'[g] = IF g = i THEN 0 ELSE received[g]
  BY <1>0 DEF StructInv, TypeOK, SlotTypeOK, ThreadTypeOK
<1>3. ASSUME NEW t, Complete(t) PROVE Complete(t)'
  BY <1>3 DEF Complete, Shared, Recorded, PassesChecks
<1>4. ASSUME cur # 0, cur \notin overlap
      PROVE  /\ \A g \in Files : token'[g] \in {0, cur}
             /\ \A x \in Workers : pc'[x] \in AtWork => job'[x] = cur /\ pc'[x] = "entries"
             /\ \A g \in Files : token'[g] = cur /\ received'[g] > 0 => Recorded(cur, entry[g], received[g])'
             /\ \A g \in accepted[cur] :
                  token'[Id(cur, g)] = cur \/ \E x \in Workers : pc'[x] = "entries" /\ job'[x] = cur /\ g \in todo'[x]
  <2>1. s = cur
    BY <1>4 DEF CleanInv, AtWork
  <2>2. \A g \in Files : token'[g] \in {0, cur}
    BY <2>1, <1>2, <1>4 DEF CleanInv
  <2>3. ASSUME NEW x \in Workers, pc'[x] \in AtWork PROVE job'[x] = cur /\ pc'[x] = "entries"
    <3>1. pc[x] \in AtWork /\ job[x] = cur /\ job'[x] = cur
      BY <2>1, <2>3, <1>1, <1>4 DEF CleanInv, AtWork, Kept
    <3>2. pc[x] # "entries" => src[x] = cur /\ xfer[src[x]] # "none"
      BY <3>1, <1>4 DEF CleanInv, StructInv, UploadInv, UploadOK, AtWork, Uploading
    <3>3. xfer[cur] = "none"
      BY <2>1 DEF StructInv, OwnInv, OwnOK, Preparing
    <3>4. QED
      BY <2>3, <3>1, <3>2, <3>3, <1>1 DEF Kept, AtWork
  <2>4. \A g \in Files : token'[g] = cur /\ received'[g] > 0 => Recorded(cur, entry[g], received[g])'
    <3> SUFFICES ASSUME NEW g \in Files, token'[g] = cur, received'[g] > 0
                 PROVE  Recorded(cur, entry[g], received[g])'
      OBVIOUS
    <3>1. g # i /\ received'[g] = received[g] /\ token[g] = cur /\ entry'[g] = entry[g]
      BY <1>2
    <3>2. Recorded(cur, entry[g], received[g])
      BY <3>1, <1>4 DEF CleanInv
    <3>3. QED
      BY <3>1, <3>2 DEF Recorded, PassesChecks
  <2>5. ASSUME NEW g \in accepted[cur], token'[Id(cur, g)] # cur
        PROVE  \E x \in Workers : pc'[x] = "entries" /\ job'[x] = cur /\ g \in todo'[x]
    <3>1. g # f /\ token[Id(cur, g)] # cur
      <4>1. Id(cur, g) \in Files
        BY <1>4, OfferIds DEF StructInv, TypeOK, SlotTypeOK
      <4>2. QED
        BY <4>1, <2>1, <2>5, <1>2
    <3>2. PICK x \in Workers : pc[x] = "entries" /\ job[x] = cur /\ g \in todo[x]
      BY <3>1, <1>4 DEF CleanInv
    <3>3. QED
      BY <3>1, <3>2, <1>1 DEF Kept
  <2>6. QED
    BY <2>2, <2>3, <2>4, <2>5
<1>5. \A x \in Workers : pc'[x] \in AtWork /\ job'[x] \notin overlap => job'[x] = cur
  BY <1>1 DEF CleanInv, AtWork, Kept
<1>6. ASSUME NEW x \in Workers, pc'[x] = "report", job'[x] \notin overlap PROVE Complete(job[x])'
  <2>1. pc[x] = "report" /\ job'[x] = job[x]
    BY <1>1, <1>6 DEF Kept
  <2>2. Complete(job[x])
    BY <2>1, <1>6 DEF CleanInv
  <2>3. QED
    BY <2>1, <2>2 DEF Complete, Shared, Recorded, PassesChecks
<1>7. \A t \in Sessions : xfer[t] = "done" /\ t \notin overlap => Complete(t)'
  BY <1>3 DEF CleanInv
<1>8. QED
  BY <1>4, <1>5, <1>6, <1>7 DEF CleanInv

\* Where all files of the maps are received, all accepted files are.
LEMMA CleanUploadFinish ==
  ASSUME NEW w \in Workers, StructInv, CleanInv, UploadFinish(w) PROVE CleanInv'
<1> USE DEF UploadFinish
<1>1. /\ Kept(w) /\ pc'[w] \in {"idle", "report"}
      /\ pc'[w] = "report" => job'[w] = job[w] /\ AllDone(received')
  BY GotoKept, ReturnKept DEF StructInv, TypeOK
<1>2. /\ job[w] \in Sessions /\ src[w] \in Sessions /\ fid[w] \in Files
      /\ xfer[src[w]] # "none" /\ Recorded(src[w], fid[w], got[w])
  BY UploadTypes DEF StructInv, UploadInv, UploadOK, Uploading
<1>3. \A i \in Files : received'[i] = IF i = Id(src[w], fid[w]) THEN got[w] ELSE received[i]
  BY DEF StructInv, TypeOK, SlotTypeOK
<1>4. ASSUME cur # 0, cur \notin overlap
      PROVE  /\ \A x \in Workers : pc'[x] \in AtWork =>
                  /\ job'[x] = cur
                  /\ pc'[x] # "entries" => src'[x] = cur /\ entry[Id(cur, fid'[x])] = fid'[x]
             /\ \A i \in Files : token[i] = cur /\ received'[i] > 0 => Recorded(cur, entry[i], received'[i])
             /\ \A g \in accepted[cur] :
                  token[Id(cur, g)] = cur \/ \E x \in Workers : pc'[x] = "entries" /\ job'[x] = cur /\ g \in todo'[x]
  <2>1. src[w] = cur /\ entry[Id(cur, fid[w])] = fid[w]
    BY <1>4 DEF CleanInv, AtWork
  <2>2. \A x \in Workers : pc'[x] \in AtWork =>
          /\ job'[x] = cur
          /\ pc'[x] # "entries" => src'[x] = cur /\ entry[Id(cur, fid'[x])] = fid'[x]
    BY <1>1, <1>4 DEF CleanInv, AtWork, Kept
  <2>3. \A i \in Files : token[i] = cur /\ received'[i] > 0 => Recorded(cur, entry[i], received'[i])
    BY <2>1, <1>2, <1>3, <1>4 DEF CleanInv
  <2>4. ASSUME NEW g \in accepted[cur], token[Id(cur, g)] # cur
        PROVE  \E x \in Workers : pc'[x] = "entries" /\ job'[x] = cur /\ g \in todo'[x]
    <3>1. PICK x \in Workers : pc[x] = "entries" /\ job[x] = cur /\ g \in todo[x]
      BY <2>4, <1>4 DEF CleanInv
    <3>2. QED
      BY <3>1, <1>1 DEF Kept
  <2>5. QED
    BY <2>2, <2>3, <2>4
<1>5. \A x \in Workers : pc'[x] \in AtWork /\ job'[x] \notin overlap => job'[x] = cur
  BY <1>1 DEF CleanInv, AtWork, Kept
<1>6. ASSUME NEW x \in Workers, pc'[x] = "report", job'[x] \notin overlap
      PROVE  Complete(job'[x])
  <2>1. CASE x # w
    BY <2>1, <1>1, <1>6 DEF CleanInv, Kept
  <2>2. CASE x = w
    <3>1. job'[w] = job[w] /\ job[w] = cur /\ cur # 0 /\ cur \notin overlap /\ src[w] = cur
      BY <2>2, <1>1, <1>2, <1>6 DEF CleanInv, AtWork
    <3>2. \A v \in Workers : pc[v] = "entries" => job[v] # cur
      BY <3>1, <1>2 DEF StructInv, OwnInv, OwnOK, Preparing
    <3>3. ASSUME NEW g \in accepted[cur], offer[cur][g].size # 0, ~Shared(cur, g)
          PROVE  Recorded(cur, g, offer[cur][g].size)
      <4> DEFINE i == Id(cur, g)
      <4>1. token[i] = cur
        BY <3>1, <3>2 DEF CleanInv
      <4>2. i \in Files /\ offer[cur][g] \in FileInfo
        BY <3>1, <1>2, OfferIds
      <4>3. entry[i] = g
        BY <3>1, <3>3, <4>1, <4>2 DEF StructInv, TokenInv, Shared
      <4>4. received'[i] = offer[cur][g].size
        BY <2>2, <3>1, <3>3, <4>1, <4>2, <4>3, <1>1, <1>6 DEF AllDone, Size
      <4>5. received'[i] > 0
        BY <3>3, <4>2, <4>4 DEF FileInfo
      <4>6. QED
        BY <3>1, <4>1, <4>2, <4>3, <4>4, <4>5, <1>4
    <3>4. QED
      BY <2>2, <3>1, <3>3 DEF Complete
  <2>3. QED
    BY <2>1, <2>2
<1>7. QED
  BY <1>4, <1>5, <1>6 DEF CleanInv, Complete, Shared, Recorded, PassesChecks

\* DONE is only said of what the last finish found complete.
LEMMA CleanUploadReport ==
  ASSUME NEW w \in Workers, StructInv, CleanInv, UploadReport(w) PROVE CleanInv'
<1> USE DEF UploadReport
<1>1. Kept(w) /\ pc'[w] = "idle"
  BY ReturnKept DEF StructInv, TypeOK
<1>2. ASSUME NEW s \in Sessions, xfer'[s] = "done", s \notin overlap PROVE Complete(s)
  <2>1. job[w] \in Sessions
    BY UploadTypes DEF Uploading
  <2>2. CASE s = job[w]
    BY <2>2, <1>2 DEF CleanInv
  <2>3. CASE s # job[w]
    BY <2>1, <2>3, <1>2 DEF CleanInv, WithState
  <2>4. QED
    BY <2>2, <2>3
<1>3. ASSUME NEW s \in Sessions, xfer'[s] = "done", s \notin overlap PROVE Complete(s)'
  BY <1>3, <1>2 DEF Complete, Shared, Recorded, PassesChecks
<1>4. ASSUME NEW x \in Workers, pc'[x] = "report", job'[x] \notin overlap PROVE Complete(job[x])'
  <2>1. Complete(job[x]) /\ job'[x] = job[x]
    BY <1>1, <1>4 DEF Kept, CleanInv
  <2>2. QED
    BY <2>1 DEF Complete, Shared, Recorded, PassesChecks
<1>5. \A x \in Workers : pc'[x] \in AtWork =>
        /\ pc[x] \in AtWork
        /\ UNCHANGED <<pc[x], job[x], src[x], fid[x], todo[x]>>
  BY <1>1 DEF Kept, AtWork
<1>6. \A x \in Workers : pc[x] = "entries" => UNCHANGED <<pc[x], job[x], todo[x]>>
  BY <1>1 DEF Kept
<1>7. cur # 0 /\ cur \notin overlap =>
        /\ \A i \in Files : token[i] = cur /\ received[i] > 0 => Recorded(cur, entry[i], received[i])'
        /\ \A f \in accepted[cur] :
             \/ token[Id(cur, f)] = cur
             \/ \E x \in Workers : pc'[x] = "entries" /\ job'[x] = cur /\ f \in todo'[x]
  BY <1>6 DEF CleanInv, Recorded, PassesChecks
<1>8. QED
  BY <1>3, <1>4, <1>5, <1>7 DEF CleanInv

\* The other steps of a thread.
LEMMA CleanThread ==
  ASSUME NEW w \in Workers, StructInv, CleanInv,
         \/ PrepareArrive(w) \/ PrepareDrop(w) \/ PrepareMismatch(w) \/ PreparePrompt(w)
         \/ PrepareRejected(w) \/ PreparePublish(w) \/ UploadValidate(w) \/ UploadOpen(w)
         \/ UploadOpenFails(w) \/ UploadChunk(w) \/ UploadStopped(w) \/ UploadBreaks(w)
         \/ UploadEnd(w) \/ UploadCanceled(w) \/ UploadFailed(w) \/ UploadRecord(w)
         \/ CancelMark(w) \/ CancelFlag(w)
  PROVE  CleanInv'
<1> USE DEF AtWork
<1>t. ThreadTypeOK /\ RequestTypeOK /\ StoreTypeOK
  BY DEF StructInv, TypeOK
<1>1. CASE PrepareArrive(w)
  <2>0. PICK s \in Sessions, o \in Offers :
          Fresh(s) /\ offer' = [offer EXCEPT ![s] = o] /\ job' = [job EXCEPT ![w] = s]
    BY <1>1 DEF PrepareArrive
  <2>1. Unknown(s) /\ \A x \in Workers : job[x] # s
    BY <2>0 DEF Fresh, StructInv, OfferInv, JobInv
  <2>2. Kept(w) /\ pc'[w] \in {"drop", "ask"} /\ pc[w] = "idle"
    BY <1>1, <2>0, <1>t DEF PrepareArrive, Goto, ThreadTypeOK, Kept
  <2>3. \A t \in Sessions : t # s => offer'[t] = offer[t]
    BY <2>0, <1>t DEF RequestTypeOK
  <2>4. QED
    BY <1>1, <2>1, <2>2, <2>3, CleanStep DEF PrepareArrive, Kept
<1>2. CASE PrepareDrop(w)
  BY <1>2, <1>t, GotoKept, CleanStep DEF PrepareDrop, Kept
<1>3. CASE PrepareMismatch(w) \/ PrepareRejected(w)
  <2>1. /\ Unknown(job[w]) /\ job[w] \in Sessions
        /\ \A x \in Workers : x # w => job[x] # job[w]
    BY <1>3, EarlyAlone, OwnerTypes DEF PrepareMismatch, PrepareRejected, Early, Preparing
  <2>2. Kept(w) /\ pc'[w] = "idle" /\ pc[w] \in {"ask", "wait"}
    BY <1>3, <1>t, ReturnKept DEF PrepareMismatch, PrepareRejected
  <2>3. \A t \in Sessions : t # job[w] => offer'[t] = offer[t] /\ accepted'[t] = accepted[t]
    BY <1>3, <1>t DEF PrepareMismatch, PrepareRejected, Forget, RequestTypeOK
  <2>4. QED
    BY <1>3, <2>1, <2>2, <2>3, CleanStep DEF PrepareMismatch, PrepareRejected, Kept, Uploading
<1>4. CASE PreparePrompt(w)
  <2>1. /\ Unknown(job[w]) /\ job[w] \in Sessions
        /\ \A x \in Workers : x # w => job[x] # job[w]
    BY <1>4, EarlyAlone, OwnerTypes DEF PreparePrompt, Early, Preparing
  <2>2. Kept(w) /\ pc'[w] \in {"wait", "install"} /\ pc[w] = "ask"
    BY <1>4, <1>t, GotoKept DEF PreparePrompt
  <2>3. \A t \in Sessions : t # job[w] => accepted'[t] = accepted[t]
    BY <1>4, <1>t DEF PreparePrompt, RequestTypeOK
  <2>4. QED
    BY <1>4, <2>1, <2>2, <2>3, CleanStep DEF PreparePrompt, Kept, Uploading
<1>5. CASE PreparePublish(w)
  <2>1. Kept(w) /\ pc'[w] = "idle" /\ pc[w] = "publish"
    BY <1>5, <1>t, ReturnKept DEF PreparePublish
  <2>2. \A s \in Sessions : xfer'[s] = "done" => xfer[s] = "done"
    BY <1>5, <1>t DEF PreparePublish, StoreTypeOK
  <2>3. QED
    BY <1>5, <2>1, <2>2, CleanStep DEF PreparePublish, Kept
<1>6. CASE UploadValidate(w)
  <2>0. PICK s \in Sessions, i \in Files :
          /\ token[i] = s /\ job' = [job EXCEPT ![w] = cur] /\ src' = [src EXCEPT ![w] = s]
          /\ fid' = [fid EXCEPT ![w] = entry[i]] /\ Kept(w)
    BY <1>6, <1>t DEF UploadValidate, MayUpload, RequestTypeOK, ThreadTypeOK, Kept, Goto
  <2>1. pc'[w] = "open" /\ pc[w] = "idle" /\ job'[w] = cur /\ src'[w] = s /\ fid'[w] = entry[i]
    BY <1>6, <2>0, <1>t DEF UploadValidate, Goto, ThreadTypeOK
  <2>2. QED
    BY <1>6, <2>0, <2>1, CleanStep DEF UploadValidate, Kept
<1>7. CASE UploadOpen(w) \/ UploadStopped(w) \/ UploadBreaks(w) \/ UploadRecord(w)
  <2>1. /\ Kept(w) /\ pc[w] \in {"open", "read", "record"}
        /\ pc'[w] \in {"read", "canceled", "failed", "finish"}
    BY <1>7, <1>t, GotoKept DEF UploadOpen, UploadStopped, UploadBreaks, UploadRecord
  <2>2. UNCHANGED <<slot, maps, requests, dialogs, table, overlap, job, locals>> /\ history \subseteq history'
    BY <1>7 DEF UploadOpen, UploadStopped, UploadBreaks, UploadRecord
  <2>3. QED
    BY <2>1, <2>2, CleanStep DEF Kept
<1>8. CASE UploadChunk(w)
  BY <1>8, CleanStep DEF UploadChunk
<1>9. CASE UploadEnd(w)
  <2>1. Kept(w) /\ pc[w] = "read" /\ pc'[w] \in {"record", "failed"}
    BY <1>9, <1>t DEF UploadEnd, Goto, Kept, ThreadTypeOK
  <2>2. UNCHANGED <<slot, maps, requests, dialogs, table, history, overlap, job, src, fid>>
    BY <1>9 DEF UploadEnd
  <2>3. QED
    BY <2>1, <2>2, CleanStep DEF Kept
<1>10. CASE UploadOpenFails(w) \/ UploadCanceled(w) \/ UploadFailed(w) \/ CancelFlag(w)
  <2>1. /\ Kept(w) /\ pc[w] \in {"open", "canceled", "failed", "flag"} /\ pc'[w] = "idle"
    BY <1>10, <1>t, ReturnKept DEF UploadOpenFails, UploadCanceled, UploadFailed, CancelFlag
  <2>2. UNCHANGED <<slot, maps, requests, dialogs, history, overlap>>
    BY <1>10 DEF UploadOpenFails, UploadCanceled, UploadFailed, CancelFlag
  <2>3. \A s \in Sessions : xfer'[s] = "done" => xfer[s] = "done"
    BY <1>10, <1>t DEF UploadOpenFails, UploadCanceled, UploadFailed, CancelFlag, WithState, StoreTypeOK
  <2>4. QED
    BY <2>1, <2>2, <2>3, CleanStep DEF Kept
<1>11. CASE CancelMark(w)
  <2>1. Kept(w) /\ pc[w] = "idle" /\ pc'[w] = "flag"
    BY <1>11, <1>t DEF CancelMark, Goto, Kept, ThreadTypeOK
  <2>2. QED
    BY <1>11, <2>1, CleanStep DEF CancelMark, Kept
<1>12. QED
  BY <1>1, <1>2, <1>3, <1>4, <1>5, <1>6, <1>7, <1>8, <1>9, <1>10, <1>11

\* What moves no thread.
LEMMA CleanOthers ==
  ASSUME StructInv, CleanInv,
         \/ Ui \/ UserClear \/ IdleTimeout \/ UNCHANGED vars
         \/ \E s \in Sessions : UserAnswer(s) \/ UserCancel(s)
  PROVE  CleanInv'
<1>1. CASE Ui \/ UserClear \/ IdleTimeout \/ UNCHANGED vars \/ \E s \in Sessions : UserCancel(s)
  <2>1. UNCHANGED <<cur, maps, requests, history, overlap, pc, job, src, fid, todo>>
    BY <1>1 DEF Ui, UiDrain, UiDeclineQueued, UiShow, UserClear, IdleTimeout, UserCancel, vars
  <2>2. \A s \in Sessions : xfer'[s] = "done" => xfer[s] = "done"
    BY <1>1 DEF Ui, UiDrain, UiDeclineQueued, UiShow, UserClear, IdleTimeout, UserCancel, vars,
       StructInv, TypeOK, StoreTypeOK
  <2>3. QED
    BY <2>1, <2>2, CleanStep
<1>2. ASSUME NEW s \in Sessions, UserAnswer(s) PROVE CleanInv'
  <2>1. PICK w \in Workers : pc[w] = "wait" /\ job[w] = s
    BY <1>2 DEF UserAnswer, StructInv, PromptInv, WaitInv
  <2>2. /\ Unknown(s)
        /\ \A x \in Workers : x # w => job[x] # s
    BY <2>1, EarlyAlone DEF Early
  <2>3. \A t \in Sessions : t # s => accepted'[t] = accepted[t]
    BY <1>2 DEF UserAnswer, StructInv, TypeOK, RequestTypeOK
  <2>4. QED
    BY <1>2, <2>1, <2>2, <2>3, CleanStep DEF UserAnswer, Uploading
<1>3. QED
  BY <1>1, <1>2

\* No session, nothing to keep.
LEMMA CleanInit == Init => CleanInv
BY DEF Init, CleanInv, AtWork

\* CleanInv is inductive relative to the structural invariant.
LEMMA CleanNext == StructInv /\ CleanInv /\ [Next]_vars => CleanInv'
<1> SUFFICES ASSUME StructInv, CleanInv, [Next]_vars PROVE CleanInv'
  OBVIOUS
<1>1. ASSUME NEW w \in Workers, PrepareArrive(w) \/ UploadValidate(w) \/ CancelMark(w) \/ CancelFlag(w)
      PROVE  CleanInv'
  BY <1>1, CleanThread
<1>2. ASSUME NEW w \in Workers, Prepare(w) PROVE CleanInv'
  BY <1>2, CleanThread, CleanPrepareInstall, CleanPrepareEntry DEF Prepare
<1>3. ASSUME NEW w \in Workers, Upload(w) PROVE CleanInv'
  BY <1>3, CleanThread, CleanUploadFinish, CleanUploadReport DEF Upload
<1>4. CASE Ui \/ UserClear \/ IdleTimeout \/ UNCHANGED vars \/ \E s \in Sessions : UserAnswer(s) \/ UserCancel(s)
  BY <1>4, CleanOthers
<1>5. QED
  BY <1>1, <1>2, <1>3, <1>4 DEF Next

\* A transfer that says DONE has its files (DoneMeansReceived), whatever the
\* interleaving of prepare-upload, upload and cancel requests.
THEOREM DoneTheorem == Spec => []DoneMeansReceived
<1>1. StructInv /\ CleanInv => DoneMeansReceived
  BY DEF CleanInv, DoneMeansReceived, Complete, Recorded, PassesChecks
<1>2. Spec => [](StructInv /\ CleanInv)
  BY StructInit, StructNext, CleanInit, CleanNext, PTL DEF Spec
<1>3. QED
  BY <1>1, <1>2, PTL

-----------------------------------------------------------------------------
(* No received file is left behind without a trace.                         *)

\* Steps that touch neither the files nor the threads at work on them.
LEMMA DiskStep ==
  ASSUME DiskInv, disk' = disk, handle' = handle, history' = history,
         \A x \in Workers : pc[x] \in {"read", "canceled", "failed", "record"} =>
           /\ pc'[x] = pc[x] /\ tgt'[x] = tgt[x] /\ src'[x] = src[x] /\ fid'[x] = fid[x]
           /\ got'[x] = got[x] /\ good'[x] = good[x],
         StoreTypeOK
  PROVE  DiskInv'
<1>1. \A p \in Paths : handle'[p] # None => pc'[handle'[p]] = "read" /\ tgt'[handle'[p]] = p
  BY DEF DiskInv, StoreTypeOK
<1>2. ASSUME NEW p \in Paths, disk'[p] # None, disk'[p].sess # 0
      PROVE  \/ handle'[p] # None
             \/ \E w \in Workers : tgt'[w] = p /\ pc'[w] \in {"canceled", "failed"}
             \/ \E w \in Workers : /\ tgt'[w] = p /\ pc'[w] = "record"
                                   /\ Holds(p, src[w], fid[w], got[w])' /\ disk'[p].good = good'[w]
             \/ \E h \in history : /\ h.path = p
                                   /\ h.sess = disk[p].sess /\ h.file = disk[p].file
                                   /\ h.bytes = disk[p].bytes /\ h.good = disk[p].good
  BY <1>2 DEF DiskInv, Holds
<1>3. QED
  BY <1>1, <1>2 DEF DiskInv

\* A step of thread w on its own file p: the other files keep their reason.
LEMMA DiskOther ==
  ASSUME StructInv, DiskInv, NEW w \in Workers, pc[w] \in Uploading, Kept(w),
         history \subseteq history',
         pc[w] = "record" => \E h \in history' :
           h.path = tgt[w] /\ h.sess = src[w] /\ h.file = fid[w] /\ h.bytes = got[w] /\ h.good = good[w],
         \A q \in Paths \ {tgt[w]} : disk'[q] = disk[q] /\ handle'[q] = handle[q],
         handle'[tgt[w]] \in {None, w, handle[tgt[w]]},
         handle'[tgt[w]] = w => pc'[w] = "read" /\ tgt'[w] = tgt[w],
         pc[w] = "read" => handle'[tgt[w]] \in {None, w},
         disk'[tgt[w]] # None /\ disk'[tgt[w]].sess # 0 =>
           \/ handle'[tgt[w]] # None
           \/ tgt'[w] = tgt[w] /\ pc'[w] \in {"canceled", "failed"}
           \/ /\ tgt'[w] = tgt[w] /\ pc'[w] = "record"
              /\ disk'[tgt[w]].sess = src'[w] /\ disk'[tgt[w]].file = fid'[w]
              /\ disk'[tgt[w]].bytes = got'[w] /\ disk'[tgt[w]].good = good'[w]
           \/ /\ disk'[tgt[w]] = disk[tgt[w]] /\ pc[w] \in {"record", "open"}
              /\ handle'[tgt[w]] = handle[tgt[w]]
  PROVE  DiskInv'
<1>0. tgt[w] \in Paths /\ StoreTypeOK /\ w # None
  BY UploadTypes DEF StructInv, TypeOK
<1>1. ASSUME NEW p \in Paths, handle'[p] # None
      PROVE  pc'[handle'[p]] = "read" /\ tgt'[handle'[p]] = p
  <2>1. CASE handle'[p] = w
    <3>1. p = tgt[w]
      BY <2>1, <1>0 DEF DiskInv
    <3>2. QED
      BY <2>1, <3>1
  <2>2. CASE handle'[p] # w
    <3>1. handle'[p] = handle[p] /\ handle[p] \in Workers
      BY <2>2, <1>0, <1>1 DEF StoreTypeOK
    <3>2. QED
      BY <2>2, <3>1, <1>1 DEF DiskInv, Kept
  <2>3. QED
    BY <2>1, <2>2
<1>2. ASSUME NEW p \in Paths, disk'[p] # None, disk'[p].sess # 0, disk'[p] = disk[p], handle'[p] = handle[p],
             tgt[w] = p => pc[w] \in {"record", "open"}
      PROVE  \/ handle'[p] # None
             \/ \E x \in Workers : tgt'[x] = p /\ pc'[x] \in {"canceled", "failed"}
             \/ \E x \in Workers : /\ tgt'[x] = p /\ pc'[x] = "record"
                                   /\ Holds(p, src[x], fid[x], got[x])' /\ disk'[p].good = good'[x]
             \/ \E h \in history' : /\ h.path = p
                                    /\ h.sess = disk'[p].sess /\ h.file = disk'[p].file
                                    /\ h.bytes = disk'[p].bytes /\ h.good = disk'[p].good
  <2>1. CASE handle[p] # None
    BY <2>1, <1>2
  <2>2. CASE \E x \in Workers : tgt[x] = p /\ pc[x] \in {"canceled", "failed"}
    BY <2>2, <1>2 DEF Kept
  <2>3. ASSUME NEW x \in Workers, tgt[x] = p, pc[x] = "record",
               Holds(p, src[x], fid[x], got[x]), disk[p].good = good[x]
        PROVE  \/ \E y \in Workers : /\ tgt'[y] = p /\ pc'[y] = "record"
                                     /\ Holds(p, src[y], fid[y], got[y])' /\ disk'[p].good = good'[y]
               \/ \E h \in history' : /\ h.path = p
                                      /\ h.sess = disk'[p].sess /\ h.file = disk'[p].file
                                      /\ h.bytes = disk'[p].bytes /\ h.good = disk'[p].good
    <3>1. CASE x = w
      BY <2>3, <3>1, <1>2 DEF Holds
    <3>2. CASE x # w
      BY <2>3, <3>2, <1>2 DEF Holds, Kept
    <3>3. QED
      BY <3>1, <3>2
  <2>4. CASE \E h \in history : /\ h.path = p
                                /\ h.sess = disk[p].sess /\ h.file = disk[p].file
                                /\ h.bytes = disk[p].bytes /\ h.good = disk[p].good
    BY <2>4, <1>2
  <2>5. QED
    BY <2>1, <2>2, <2>3, <2>4, <1>2 DEF DiskInv
<1>3. ASSUME NEW p \in Paths, disk'[p] # None, disk'[p].sess # 0
      PROVE  \/ handle'[p] # None
             \/ \E x \in Workers : tgt'[x] = p /\ pc'[x] \in {"canceled", "failed"}
             \/ \E x \in Workers : /\ tgt'[x] = p /\ pc'[x] = "record"
                                   /\ Holds(p, src[x], fid[x], got[x])' /\ disk'[p].good = good'[x]
             \/ \E h \in history' : /\ h.path = p
                                    /\ h.sess = disk'[p].sess /\ h.file = disk'[p].file
                                    /\ h.bytes = disk'[p].bytes /\ h.good = disk'[p].good
  <2>1. CASE p # tgt[w]
    BY <2>1, <1>2, <1>3
  <2>2. CASE p = tgt[w]
    <3>1. CASE disk'[p] = disk[p] /\ pc[w] \in {"record", "open"} /\ handle'[p] = handle[p]
      BY <3>1, <1>2, <1>3
    <3>2. CASE /\ tgt'[w] = p /\ pc'[w] = "record"
               /\ disk'[p].sess = src'[w] /\ disk'[p].file = fid'[w]
               /\ disk'[p].bytes = got'[w] /\ disk'[p].good = good'[w]
      BY <3>2 DEF Holds
    <3>3. QED
      BY <2>2, <3>1, <3>2, <1>3
  <2>3. QED
    BY <2>1, <2>2
<1>4. QED
  BY <1>1, <1>3 DEF DiskInv

\* The upload steps, each on its own file.
LEMMA DiskUpload ==
  ASSUME NEW w \in Workers, StructInv, DiskInv, Upload(w) PROVE DiskInv'
<1>t. StoreTypeOK /\ ThreadTypeOK
  BY DEF StructInv, TypeOK
<1>1. CASE UploadOpen(w)
  <2>1. Kept(w) /\ pc'[w] = "read" /\ pc[w] \in Uploading /\ tgt[w] \in Paths
    BY <1>1, <1>t, GotoKept, UploadTypes DEF UploadOpen, Uploading
  <2>2. /\ \A q \in Paths \ {tgt[w]} : disk'[q] = disk[q] /\ handle'[q] = handle[q]
        /\ handle'[tgt[w]] = w /\ w # None
    BY <1>1, <1>t, <2>1 DEF UploadOpen, StoreTypeOK
  <2>3. QED
    BY <1>1, <2>1, <2>2, DiskOther DEF UploadOpen
<1>2. CASE UploadOpenFails(w) \/ UploadFinish(w) \/ UploadReport(w)
  <2>1. Kept(w) /\ pc[w] \in {"open", "finish", "report"}
    BY <1>2, <1>t, GotoKept, ReturnKept DEF UploadOpenFails, UploadFinish, UploadReport
  <2>2. UNCHANGED <<disk, handle, history>>
    BY <1>2 DEF UploadOpenFails, UploadFinish, UploadReport
  <2>3. QED
    BY <2>1, <2>2, <1>t, DiskStep DEF Kept
<1>3. CASE UploadChunk(w)
  <2>1. /\ Kept(w) /\ pc'[w] = "read" /\ pc[w] = "read" /\ tgt[w] \in Paths /\ tgt'[w] = tgt[w]
        /\ handle[tgt[w]] = w /\ handle' = handle /\ w # None
    BY <1>3, <1>t, UploadTypes DEF UploadChunk, Uploading, Kept, ThreadTypeOK, StructInv, HandleInv, HandleOK
  <2>2. \A q \in Paths \ {tgt[w]} : disk'[q] = disk[q]
    BY <1>3, <1>t DEF UploadChunk, StoreTypeOK
  <2>3. QED
    BY <1>3, <2>1, <2>2, DiskOther DEF UploadChunk, Uploading
<1>4. CASE UploadStopped(w) \/ UploadBreaks(w)
  <2>1. /\ Kept(w) /\ pc'[w] \in {"canceled", "failed"} /\ pc[w] = "read"
        /\ tgt[w] \in Paths /\ tgt'[w] = tgt[w]
    BY <1>4, <1>t, GotoKept, UploadTypes DEF UploadStopped, UploadBreaks, Uploading
  <2>2. /\ handle'[tgt[w]] = None /\ disk' = disk /\ history' = history
        /\ \A q \in Paths \ {tgt[w]} : handle'[q] = handle[q]
    BY <1>4, <1>t, <2>1 DEF UploadStopped, UploadBreaks, StoreTypeOK
  <2>3. QED
    BY <2>1, <2>2, DiskOther DEF Uploading
<1>5. CASE UploadEnd(w)
  <2>1. /\ Kept(w) /\ pc'[w] \in {"record", "failed"} /\ pc[w] = "read"
        /\ tgt[w] \in Paths /\ UNCHANGED <<tgt, src, fid, got, history>>
        /\ disk[tgt[w]] \in Content /\ Holds(tgt[w], src[w], fid[w], got[w])
    BY <1>5, <1>t, UploadTypes, ReadContent
    DEF UploadEnd, Uploading, Kept, Goto, ThreadTypeOK, StructInv, HandleInv, HandleOK
  <2>2. PICK ok \in BOOLEAN :
          good' = [good EXCEPT ![w] = ok] /\ disk' = [disk EXCEPT ![tgt[w]].good = ok]
    BY <1>5 DEF UploadEnd
  <2>3. /\ handle'[tgt[w]] = None
        /\ \A q \in Paths \ {tgt[w]} : disk'[q] = disk[q] /\ handle'[q] = handle[q]
    BY <1>5, <1>t, <2>1, <2>2 DEF UploadEnd, StoreTypeOK
  <2>4. disk'[tgt[w]] = [disk[tgt[w]] EXCEPT !.good = ok] /\ good'[w] = ok
    BY <1>t, <2>1, <2>2 DEF StoreTypeOK, ThreadTypeOK
  <2>5. /\ disk'[tgt[w]].sess = src[w] /\ disk'[tgt[w]].file = fid[w]
        /\ disk'[tgt[w]].bytes = got[w] /\ disk'[tgt[w]].good = good'[w]
    BY <2>1, <2>4 DEF Content, Holds
  <2>6. QED
    BY <2>1, <2>3, <2>5, DiskOther DEF Uploading
<1>6. CASE UploadCanceled(w) \/ UploadFailed(w)
  <2>1. /\ Kept(w) /\ pc'[w] = "idle" /\ pc[w] \in {"canceled", "failed"} /\ tgt[w] \in Paths
        /\ disk' = Deleted(tgt[w]) /\ UNCHANGED <<handle, history>>
    BY <1>6, <1>t, ReturnKept, UploadTypes DEF UploadCanceled, UploadFailed, Uploading
  <2>2. /\ handle[tgt[w]] = None => disk'[tgt[w]] = None
        /\ \A q \in Paths \ {tgt[w]} : disk'[q] = disk[q]
    BY <2>1, <1>t DEF Deleted, StoreTypeOK
  <2>3. handle[tgt[w]] # w
    BY <2>1 DEF DiskInv
  <2>4. QED
    BY <2>1, <2>2, <2>3, DiskOther DEF Uploading
<1>7. CASE UploadRecord(w)
  <2>1. /\ Kept(w) /\ pc[w] = "record" /\ tgt[w] \in Paths /\ UNCHANGED <<disk, handle>>
    BY <1>7, <1>t, GotoKept, UploadTypes DEF UploadRecord, Uploading
  <2>2. [sess |-> src[w], file |-> fid[w], path |-> tgt[w], bytes |-> got[w], good |-> good[w]] \in history'
        /\ history \subseteq history'
    BY <1>7 DEF UploadRecord
  <2>3. handle[tgt[w]] # w
    BY <2>1 DEF DiskInv
  <2>4. \E h \in history' :
           h.path = tgt[w] /\ h.sess = src[w] /\ h.file = fid[w] /\ h.bytes = got[w] /\ h.good = good[w]
    BY <2>2
  <2>5. QED
    BY <2>1, <2>2, <2>3, <2>4, DiskOther DEF Uploading
<1>8. QED
  BY <1>1, <1>2, <1>3, <1>4, <1>5, <1>6, <1>7 DEF Upload

\* The steps of a thread outside the receive loop.
LEMMA DiskThread ==
  ASSUME NEW w \in Workers, StructInv, DiskInv,
         PrepareArrive(w) \/ Prepare(w) \/ UploadValidate(w) \/ CancelMark(w) \/ CancelFlag(w)
  PROVE  DiskInv'
<1>t. ThreadTypeOK /\ StoreTypeOK
  BY DEF StructInv, TypeOK
<1>1. UNCHANGED <<disk, handle, history>> /\ pc[w] \notin {"read", "canceled", "failed", "record"}
  BY DEF Prepare, PrepareArrive, PrepareDrop, PrepareMismatch, PreparePrompt, PrepareRejected,
     PrepareInstall, PrepareEntry, PreparePublish, UploadValidate, CancelMark, CancelFlag
<1>2. Kept(w)
  <2>1. CASE PrepareMismatch(w) \/ PrepareRejected(w) \/ PreparePublish(w) \/ CancelFlag(w)
    BY <2>1, <1>t, ReturnKept DEF PrepareMismatch, PrepareRejected, PreparePublish, CancelFlag
  <2>2. CASE PrepareArrive(w) \/ UploadValidate(w) \/ CancelMark(w) \/ PrepareInstall(w) \/ PrepareEntry(w)
    BY <2>2, <1>t DEF PrepareArrive, UploadValidate, CancelMark, PrepareInstall, PrepareEntry, Goto, Kept, ThreadTypeOK
  <2>3. CASE PrepareDrop(w) \/ PreparePrompt(w)
    BY <2>3, <1>t, GotoKept DEF PrepareDrop, PreparePrompt
  <2>4. QED
    BY <2>1, <2>2, <2>3 DEF Prepare
<1>3. QED
  BY <1>t, <1>1, <1>2, DiskStep DEF Kept

\* The steps of the UI thread, the user and the clock.
LEMMA DiskOthers ==
  ASSUME StructInv, DiskInv,
         \/ Ui \/ UserClear \/ IdleTimeout \/ UNCHANGED vars
         \/ \E s \in Sessions : UserAnswer(s) \/ UserCancel(s)
  PROVE  DiskInv'
<1>1. UNCHANGED <<disk, handle, history, pc, locals>>
  BY DEF Ui, UiDrain, UiDeclineQueued, UiShow, UserClear, IdleTimeout, UserCancel, UserAnswer, vars
<1>2. StoreTypeOK
  BY DEF StructInv, TypeOK
<1>3. QED
  BY <1>1, <1>2, DiskStep

\* DiskInv is inductive relative to the structural invariant.
LEMMA DiskNext == StructInv /\ DiskInv /\ [Next]_vars => DiskInv'
<1> SUFFICES ASSUME StructInv, DiskInv, [Next]_vars PROVE DiskInv'
  OBVIOUS
<1>1. ASSUME NEW w \in Workers, \/ PrepareArrive(w) \/ UploadValidate(w) \/ CancelMark(w)
                                \/ Prepare(w) \/ Upload(w) \/ CancelFlag(w)
      PROVE  DiskInv'
  BY <1>1, DiskThread, DiskUpload
<1>2. CASE Ui \/ UserClear \/ IdleTimeout \/ UNCHANGED vars \/ \E s \in Sessions : UserAnswer(s) \/ UserCancel(s)
  BY <1>2, DiskOthers
<1>3. QED
  BY <1>1, <1>2 DEF Next

\* At first only files of session 0 exist.
LEMMA DiskInit == Init => DiskInv
BY DEF Init, DiskInv, UserFile

\* No file of a rejected, broken or canceled upload stays in the download
\* directory (RestingFilesRecorded): DeleteFileW, or the history, has it.
THEOREM RestingTheorem == Spec => []RestingFilesRecorded
<1>1. DiskInv => RestingFilesRecorded
  BY DEF DiskInv, RestingFilesRecorded
<1>2. Spec => [](StructInv /\ DiskInv)
  BY StructInit, StructNext, DiskInit, DiskNext, PTL DEF Spec
<1>3. QED
  BY <1>1, <1>2, PTL

-----------------------------------------------------------------------------
(* What the prompt, the dialog and the history promise.                     *)

\* Every variable keeps its type (TypeOK).
THEOREM TypeTheorem == Spec => []TypeOK
<1>1. StructInv => TypeOK
  BY DEF StructInv
<1>2. QED
  BY <1>1, Structure, PTL

\* The UI thread never touches a prompt that its connection thread has freed
\* (PromptAlive).
THEOREM PromptTheorem == Spec => []PromptAlive
<1>1. StructInv => PromptAlive
  BY DEF StructInv, PromptInv, WaitInv, PromptAlive
<1>2. QED
  BY <1>1, Structure, PTL

\* The session of anything already handed out, or recorded, stays as accepted.
LEMMA KnownKept ==
  ASSUME StructInv, [Next]_vars, NEW s \in Sessions, ~Unknown(s)
  PROVE  offer'[s] = offer[s] /\ accepted'[s] = accepted[s]
<1>t. RequestTypeOK
  BY DEF StructInv, TypeOK
<1>1. ASSUME NEW w \in Workers, PrepareArrive(w) PROVE offer'[s] = offer[s] /\ accepted'[s] = accepted[s]
  <2>1. PICK t \in Sessions, o \in Offers : Fresh(t) /\ offer' = [offer EXCEPT ![t] = o]
    BY <1>1 DEF PrepareArrive
  <2>2. t # s
    BY <2>1 DEF Fresh, StructInv, OfferInv
  <2>3. QED
    BY <1>1, <2>1, <2>2, <1>t DEF PrepareArrive, RequestTypeOK
<1>2. ASSUME NEW w \in Workers, PrepareMismatch(w) \/ PreparePrompt(w) \/ PrepareRejected(w)
      PROVE  offer'[s] = offer[s] /\ accepted'[s] = accepted[s]
  <2>1. Unknown(job[w])
    BY <1>2, EarlyAlone DEF PrepareMismatch, PreparePrompt, PrepareRejected, Early
  <2>2. job[w] # s
    BY <2>1
  <2>3. QED
    BY <1>2, <2>2, <1>t DEF PrepareMismatch, PreparePrompt, PrepareRejected, Forget, RequestTypeOK
<1>3. ASSUME NEW t \in Sessions, UserAnswer(t) PROVE offer'[s] = offer[s] /\ accepted'[s] = accepted[s]
  <2>1. PICK w \in Workers : pc[w] = "wait" /\ job[w] = t
    BY <1>3 DEF UserAnswer, StructInv, PromptInv, WaitInv
  <2>2. t # s
    BY <2>1, EarlyAlone DEF Early
  <2>3. QED
    BY <1>3, <2>2, <1>t DEF UserAnswer, RequestTypeOK
<1>4. ASSUME NEW w \in Workers, \/ PrepareDrop(w) \/ PrepareInstall(w) \/ PrepareEntry(w) \/ PreparePublish(w)
                                \/ UploadValidate(w) \/ CancelMark(w) \/ CancelFlag(w)
      PROVE  requests' = requests
  BY <1>4 DEF PrepareDrop, PrepareInstall, PrepareEntry, PreparePublish, UploadValidate, CancelMark, CancelFlag
<1>5. ASSUME NEW w \in Workers, Upload(w) PROVE requests' = requests
  BY <1>5 DEF Upload, UploadOpen, UploadOpenFails, UploadChunk, UploadStopped, UploadBreaks,
     UploadEnd, UploadCanceled, UploadFailed, UploadRecord, UploadFinish, UploadReport
<1>6. CASE Ui \/ UserClear \/ IdleTimeout \/ UNCHANGED vars \/ \E t \in Sessions : UserCancel(t)
  BY <1>6 DEF Ui, UiDrain, UiDeclineQueued, UiShow, UserClear, IdleTimeout, UserCancel, vars
<1>7. QED
  BY <1>1, <1>2, <1>3, <1>4, <1>5, <1>6 DEF Next, Prepare

\* Only UploadRecord writes the history.
LEMMA HistoryWriters ==
  ASSUME [Next]_vars, history' # history PROVE \E w \in Workers : UploadRecord(w)
<1>1. ASSUME NEW w \in Workers, PrepareArrive(w) \/ UploadValidate(w) \/ CancelMark(w) \/ Prepare(w) \/ CancelFlag(w)
      PROVE  history' = history
  BY <1>1 DEF PrepareArrive, UploadValidate, CancelMark, CancelFlag, Prepare, PrepareDrop, PrepareMismatch,
     PreparePrompt, PrepareRejected, PrepareInstall, PrepareEntry, PreparePublish
<1>2. ASSUME NEW w \in Workers, Upload(w), ~UploadRecord(w) PROVE history' = history
  BY <1>2 DEF Upload, UploadOpen, UploadOpenFails, UploadChunk, UploadStopped, UploadBreaks,
     UploadEnd, UploadCanceled, UploadFailed, UploadFinish, UploadReport
<1>3. ASSUME Ui \/ UserClear \/ IdleTimeout \/ UNCHANGED vars \/ \E t \in Sessions : UserCancel(t) \/ UserAnswer(t)
      PROVE  history' = history
  BY <1>3 DEF Ui, UiDrain, UiDeclineQueued, UiShow, UserClear, IdleTimeout, UserCancel, UserAnswer, vars
<1>4. QED
  BY <1>1, <1>2, <1>3 DEF Next

\* The history holds only files the user accepted, whose digest matched where
\* the sender announced one (HistoryVouched).
THEOREM HistoryTheorem == Spec => []HistoryVouched
<1>1. Init => HistoryVouched
  BY DEF Init, HistoryVouched
<1>2. StructInv /\ HistoryVouched /\ [Next]_vars => HistoryVouched'
  <2> SUFFICES ASSUME StructInv, HistoryVouched, [Next]_vars, NEW h \in history'
               PROVE  h.file \in accepted'[h.sess] /\ (offer'[h.sess][h.file].hashed => h.good)
    BY DEF HistoryVouched
  <2>1. CASE h \in history
    <3>1. h.sess \in Sessions /\ ~Unknown(h.sess)
      BY <2>1 DEF Unknown, StructInv, TypeOK, StoreTypeOK
    <3>2. QED
      BY <2>1, <3>1, KnownKept DEF HistoryVouched
  <2>2. CASE h \notin history
    <3>1. PICK w \in Workers : UploadRecord(w)
      BY <2>2, HistoryWriters
    <3>2. h.sess = src[w] /\ h.file = fid[w] /\ h.good = good[w] /\ requests' = requests
      BY <2>2, <3>1 DEF UploadRecord
    <3>3. fid[w] \in accepted[src[w]] /\ PassesChecks(src[w], fid[w], good[w])
      BY <3>1 DEF UploadRecord, StructInv, UploadInv, UploadOK, Uploading
    <3>4. QED
      BY <3>2, <3>3 DEF PassesChecks
  <2>3. QED
    BY <2>1, <2>2
<1>3. QED
  BY <1>1, <1>2, StructInit, StructNext, PTL DEF Spec

\* Only UiShow opens a dialog.
LEMMA DialogOpener ==
  ASSUME StructInv, [Next]_vars, NEW s \in Sessions, prompt'[s] = "shown", prompt[s] # "shown"
  PROVE  UiShow(s)
<1>t. RequestTypeOK
  BY DEF StructInv, TypeOK
<1>1. ASSUME NEW w \in Workers, PrepareArrive(w) \/ UploadValidate(w) \/ CancelMark(w) \/ Prepare(w) \/ CancelFlag(w)
      PROVE  FALSE
  BY <1>1, <1>t DEF PrepareArrive, UploadValidate, CancelMark, CancelFlag, Prepare, PrepareDrop, PrepareMismatch,
     PreparePrompt, PrepareRejected, PrepareInstall, PrepareEntry, PreparePublish, Forget, RequestTypeOK
<1>2. ASSUME NEW w \in Workers, Upload(w) PROVE FALSE
  BY <1>2 DEF Upload, UploadOpen, UploadOpenFails, UploadChunk, UploadStopped, UploadBreaks,
     UploadEnd, UploadCanceled, UploadFailed, UploadRecord, UploadFinish, UploadReport
<1>3. ASSUME UiDrain \/ UiDeclineQueued \/ UserClear \/ IdleTimeout \/ UNCHANGED vars
      PROVE  FALSE
  BY <1>3, <1>t DEF UiDrain, UiDeclineQueued, UserClear, IdleTimeout, vars, RequestTypeOK
<1>4. ASSUME NEW t \in Sessions, UserCancel(t) \/ UserAnswer(t) PROVE FALSE
  BY <1>4, <1>t DEF UserCancel, UserAnswer, RequestTypeOK
<1>5. ASSUME NEW t \in Sessions, UiShow(t) PROVE t = s
  BY <1>5, <1>t DEF UiShow, RequestTypeOK
<1>6. QED
  BY <1>1, <1>2, <1>3, <1>4, <1>5 DEF Next, Ui

\* Only the answer to the dialog on the screen resets the flag.
LEMMA FlagReset ==
  ASSUME [Next]_vars, modalActive, ~modalActive'
  PROVE  \E s \in Sessions : UserAnswer(s)
<1>1. ASSUME NEW w \in Workers, PrepareArrive(w) \/ UploadValidate(w) \/ CancelMark(w) \/ Prepare(w) \/ CancelFlag(w)
      PROVE  FALSE
  BY <1>1 DEF PrepareArrive, UploadValidate, CancelMark, CancelFlag, Prepare, PrepareDrop, PrepareMismatch,
     PreparePrompt, PrepareRejected, PrepareInstall, PrepareEntry, PreparePublish
<1>2. ASSUME NEW w \in Workers, Upload(w) PROVE FALSE
  BY <1>2 DEF Upload, UploadOpen, UploadOpenFails, UploadChunk, UploadStopped, UploadBreaks,
     UploadEnd, UploadCanceled, UploadFailed, UploadRecord, UploadFinish, UploadReport
<1>3. ASSUME Ui \/ UserClear \/ IdleTimeout \/ UNCHANGED vars PROVE FALSE
  BY <1>3 DEF Ui, UiDrain, UiDeclineQueued, UiShow, UserClear, IdleTimeout, vars
<1>4. ASSUME NEW s \in Sessions, UserCancel(s) PROVE FALSE
  BY <1>4 DEF UserCancel
<1>5. QED
  BY <1>1, <1>2, <1>3, <1>4 DEF Next

\* The flag is set while a dialog is on the screen: a dialog that opens sets it,
\* and the only one there can be resets it when it closes.
LEMMA DialogNext == StructInv /\ DialogInv /\ [Next]_vars => DialogInv'
<1> SUFFICES ASSUME StructInv, DialogInv, [Next]_vars PROVE DialogInv'
  OBVIOUS
<1>t. RequestTypeOK
  BY DEF StructInv, TypeOK
<1>1. ASSUME NEW u \in Sessions, prompt'[u] = "shown", prompt[u] # "shown"
      PROVE  modalActive' /\ \A v \in Sessions : prompt'[v] = "shown" => v = u
  <2>1. UiShow(u)
    BY <1>1, DialogOpener
  <2>2. \A v \in Sessions : prompt[v] # "shown"
    BY <2>1 DEF UiShow, DialogInv
  <2>3. QED
    BY <2>1, <2>2, <1>t DEF UiShow, RequestTypeOK
<1>2. OneDialog'
  BY <1>1 DEF OneDialog, DialogInv
<1>3. ASSUME NEW u \in Sessions, prompt'[u] = "shown", prompt[u] = "shown" PROVE modalActive'
  <2>1. ASSUME NEW s \in Sessions, UserAnswer(s) PROVE FALSE
    <3>1. s = u
      BY <2>1, <1>3 DEF UserAnswer, DialogInv, OneDialog
    <3>2. QED
      BY <2>1, <3>1, <1>3, <1>t DEF UserAnswer, RequestTypeOK
  <2>2. modalActive
    BY <1>3 DEF DialogInv
  <2>3. QED
    BY <2>1, <2>2, FlagReset
<1>4. QED
  BY <1>1, <1>2, <1>3 DEF DialogInv

\* However many requests arrive, and although the dialog's message loop runs
\* HandleUiEvents again, one confirmation dialog is open at a time (OneDialog):
\* the flag of main_window.cpp is up from its opening to its answer.
THEOREM DialogTheorem == Spec => []OneDialog
<1>1. Init => DialogInv
  BY DEF Init, DialogInv, OneDialog
<1>2. DialogInv => OneDialog
  BY DEF DialogInv
<1>3. QED
  BY <1>1, <1>2, StructInit, StructNext, DialogNext, PTL DEF Spec

-----------------------------------------------------------------------------
(* The files that were there before.                                        *)

\* MakeUniquePathW has a number left for every file that is about to get its
\* target (up to 9999 in the code; when all are taken it returns the plain name,
\* whatever is there).
NumberLeft ==
  \A w \in Workers : pc[w] = "entries" =>
    \A f \in todo[w] : \E k \in 0..MaxDup : disk[<<offer[job[w]][f].name, k>>] = None

\* No upload is, or will be, sent to a file that the program did not write.
UserInv ==
  \A p \in Paths : disk[p] # None /\ disk[p].sess = 0 =>
    /\ \A f \in Files : target[f] # p
    /\ \A w \in Workers : tgt[w] # p

\* A thread writes to, or deletes, the target of its upload only, and what it
\* writes is a file of a session.
LEMMA DiskWriters ==
  ASSUME StructInv, [Next]_vars, NEW p \in Paths, disk'[p] # disk[p]
  PROVE  /\ \E w \in Workers : tgt[w] = p
         /\ disk'[p] # None => disk'[p].sess # 0
<1> DEFINE Goal == /\ \E w \in Workers : tgt[w] = p
                   /\ disk'[p] # None => disk'[p].sess # 0
<1>t. StoreTypeOK
  BY DEF StructInv, TypeOK
<1>1. ASSUME NEW w \in Workers, UploadOpen(w)
      PROVE  Goal
  <2>1. src[w] \in Sessions /\ tgt[w] \in Paths
    BY <1>1, UploadTypes DEF UploadOpen, Uploading
  <2>2. tgt[w] = p /\ disk'[p].sess = src[w]
    BY <1>1, <1>t, <2>1 DEF UploadOpen, StoreTypeOK
  <2> QED
    BY <2>1, <2>2
<1>2. ASSUME NEW w \in Workers, UploadChunk(w) \/ UploadEnd(w)
      PROVE  Goal
  <2>1. pc[w] = "read"
    BY <1>2 DEF UploadChunk, UploadEnd
  <2>2. src[w] \in Sessions /\ tgt[w] \in Paths /\ disk[tgt[w]] \in Content /\ disk[tgt[w]].sess = src[w]
    BY <2>1, UploadTypes, ReadContent DEF Uploading, StructInv, HandleInv, HandleOK, Holds
  <2>3. CASE UploadChunk(w)
    <3>1. disk' = [disk EXCEPT ![tgt[w]] = [disk[tgt[w]] EXCEPT !.bytes = got[w] + 1]]
      BY <2>3 DEF UploadChunk
    <3>2. tgt[w] = p /\ disk'[p] = [disk[tgt[w]] EXCEPT !.bytes = got[w] + 1]
      BY <3>1, <1>t, <2>2 DEF StoreTypeOK
    <3>3. disk'[p].sess = disk[tgt[w]].sess
      BY <3>2, <2>2 DEF Content
    <3> QED
      BY <3>2, <3>3, <2>2
  <2>4. CASE UploadEnd(w)
    <3>1. PICK ok \in BOOLEAN : disk' = [disk EXCEPT ![tgt[w]] = [disk[tgt[w]] EXCEPT !.good = ok]]
      BY <2>4 DEF UploadEnd
    <3>2. tgt[w] = p /\ disk'[p] = [disk[tgt[w]] EXCEPT !.good = ok]
      BY <3>1, <1>t, <2>2 DEF StoreTypeOK
    <3>3. disk'[p].sess = disk[tgt[w]].sess
      BY <3>2, <2>2 DEF Content
    <3> QED
      BY <3>2, <3>3, <2>2
  <2> QED
    BY <1>2, <2>3, <2>4
<1>3. ASSUME NEW w \in Workers, UploadCanceled(w) \/ UploadFailed(w)
      PROVE  Goal
  <2>1. tgt[w] \in Paths /\ disk' = Deleted(tgt[w])
    BY <1>3, UploadTypes DEF UploadCanceled, UploadFailed, Uploading
  <2>2. tgt[w] = p /\ disk'[p] = None
    BY <2>1, <1>t DEF Deleted, StoreTypeOK
  <2> QED
    BY <2>2
<1>4. ASSUME NEW w \in Workers,
             \/ UploadOpenFails(w) \/ UploadStopped(w) \/ UploadBreaks(w)
             \/ UploadRecord(w) \/ UploadFinish(w) \/ UploadReport(w)
      PROVE  disk' = disk
  BY <1>4 DEF UploadOpenFails, UploadStopped, UploadBreaks, UploadRecord, UploadFinish, UploadReport
<1>5. ASSUME NEW w \in Workers, PrepareArrive(w) \/ Prepare(w) \/ UploadValidate(w) \/ CancelMark(w) \/ CancelFlag(w)
      PROVE  disk' = disk
  BY <1>5 DEF Prepare, PrepareArrive, PrepareDrop, PrepareMismatch, PreparePrompt, PrepareRejected,
     PrepareInstall, PrepareEntry, PreparePublish, UploadValidate, CancelMark, CancelFlag
<1>6. ASSUME Ui \/ UserClear \/ IdleTimeout \/ UNCHANGED vars \/ \E s \in Sessions : UserAnswer(s) \/ UserCancel(s)
      PROVE  disk' = disk
  BY <1>6 DEF Ui, UiDrain, UiDeclineQueued, UiShow, UserClear, IdleTimeout, UserCancel, UserAnswer, vars
<1> QED
  BY <1>1, <1>2, <1>3, <1>4, <1>5, <1>6 DEF Next, Upload

\* A new target is a path where nothing is, as long as there is one.
LEMMA TargetsFree ==
  ASSUME StructInv, NumberLeft, [Next]_vars, NEW f \in Files, NEW p \in Paths,
         target'[f] = p, target[f] # p
  PROVE  disk[p] = None
<1>t. SlotTypeOK /\ ThreadTypeOK
  BY DEF StructInv, TypeOK
<1>1. ASSUME NEW w \in Workers, PrepareEntry(w)
      PROVE  disk[p] = None
  <2>1. PICK g \in todo[w], k \in 0..MaxDup :
          /\ IsUniqueSlot(offer[job[w]][g].name, k)
          /\ target' = [target EXCEPT ![Id(job[w], g)] = <<offer[job[w]][g].name, k>>]
    BY <1>1 DEF PrepareEntry
  <2>2. Id(job[w], g) \in Files
    <3>1. job[w] \in Sessions /\ g \in accepted[job[w]]
      BY <1>1, <2>1, OwnerTypes DEF PrepareEntry, Preparing, StructInv, OwnInv, OwnOK
    <3>2. QED
      BY <3>1, OfferIds
  <2>3. p = <<offer[job[w]][g].name, k>>
    BY <1>t, <2>1, <2>2 DEF SlotTypeOK
  <2>4. ~(\A i \in 0..MaxDup : disk[<<offer[job[w]][g].name, i>>] # None)
    BY <1>1 DEF NumberLeft, PrepareEntry
  <2> QED
    BY <2>1, <2>3, <2>4 DEF IsUniqueSlot
<1>2. ASSUME NEW w \in Workers, PrepareInstall(w)
      PROVE  FALSE
  BY <1>2 DEF PrepareInstall, Paths
<1>3. ASSUME NEW w \in Workers,
             \/ PrepareArrive(w) \/ PrepareDrop(w) \/ PrepareMismatch(w) \/ PreparePrompt(w)
             \/ PrepareRejected(w) \/ PreparePublish(w) \/ UploadValidate(w)
             \/ CancelMark(w) \/ CancelFlag(w) \/ Upload(w)
      PROVE  target' = target
  BY <1>3 DEF PrepareArrive, PrepareDrop, PrepareMismatch, PreparePrompt, PrepareRejected, PreparePublish,
     UploadValidate, CancelMark, CancelFlag, Upload, UploadOpen, UploadOpenFails, UploadChunk,
     UploadStopped, UploadBreaks, UploadEnd, UploadCanceled, UploadFailed, UploadRecord, UploadFinish,
     UploadReport
<1>4. ASSUME Ui \/ UserClear \/ IdleTimeout \/ UNCHANGED vars \/ \E s \in Sessions : UserAnswer(s) \/ UserCancel(s)
      PROVE  target' = target
  BY <1>4 DEF Ui, UiDrain, UiDeclineQueued, UiShow, UserClear, IdleTimeout, UserCancel, UserAnswer, vars
<1> QED
  BY <1>1, <1>2, <1>3, <1>4 DEF Next, Prepare

\* An upload goes to a target of the maps.
LEMMA UploadsToTargets ==
  ASSUME StructInv, [Next]_vars, NEW x \in Workers, NEW p \in Paths, tgt'[x] = p, tgt[x] # p
  PROVE  \E f \in Files : target[f] = p
<1>t. ThreadTypeOK /\ p # None
  BY DEF StructInv, TypeOK, Paths
<1>1. ASSUME NEW w \in Workers, UploadValidate(w)
      PROVE  \E f \in Files : target[f] = p
  <2>1. PICK f \in Files : tgt' = [tgt EXCEPT ![w] = target[f]]
    BY <1>1 DEF UploadValidate
  <2> QED
    BY <1>t, <2>1 DEF ThreadTypeOK
<1>2. ASSUME NEW w \in Workers, Return(w)
      PROVE  FALSE
  BY <1>2, <1>t DEF Return, ThreadTypeOK
<1>3. ASSUME NEW w \in Workers,
             \/ PrepareArrive(w) \/ PrepareDrop(w) \/ PreparePrompt(w) \/ PrepareInstall(w)
             \/ PrepareEntry(w) \/ CancelMark(w) \/ UploadOpen(w) \/ UploadChunk(w)
             \/ UploadStopped(w) \/ UploadBreaks(w) \/ UploadEnd(w) \/ UploadRecord(w)
      PROVE  tgt' = tgt
  BY <1>3 DEF PrepareArrive, PrepareDrop, PreparePrompt, PrepareInstall, PrepareEntry, CancelMark,
     UploadOpen, UploadChunk, UploadStopped, UploadBreaks, UploadEnd, UploadRecord
<1>4. ASSUME NEW w \in Workers,
             \/ PrepareMismatch(w) \/ PrepareRejected(w) \/ PreparePublish(w) \/ CancelFlag(w)
             \/ UploadOpenFails(w) \/ UploadCanceled(w) \/ UploadFailed(w) \/ UploadReport(w)
      PROVE  FALSE
  BY <1>2, <1>4 DEF PrepareMismatch, PrepareRejected, PreparePublish, CancelFlag, UploadOpenFails,
     UploadCanceled, UploadFailed, UploadReport
<1>5. ASSUME NEW w \in Workers, UploadFinish(w)
      PROVE  FALSE
  BY <1>2, <1>5 DEF UploadFinish
<1>6. ASSUME Ui \/ UserClear \/ IdleTimeout \/ UNCHANGED vars \/ \E s \in Sessions : UserAnswer(s) \/ UserCancel(s)
      PROVE  tgt' = tgt
  BY <1>6 DEF Ui, UiDrain, UiDeclineQueued, UiShow, UserClear, IdleTimeout, UserCancel, UserAnswer, vars
<1> QED
  BY <1>1, <1>3, <1>4, <1>5, <1>6 DEF Next, Prepare, Upload

LEMMA UserInit == Init => UserInv
  BY DEF Init, UserInv, Paths

LEMMA UserNext == StructInv /\ UserInv /\ NumberLeft /\ [Next]_vars => UserInv'
<1> SUFFICES ASSUME StructInv, UserInv, NumberLeft, [Next]_vars,
                    NEW p \in Paths, disk'[p] # None, disk'[p].sess = 0
             PROVE  /\ \A f \in Files : target'[f] # p
                    /\ \A w \in Workers : tgt'[w] # p
  BY DEF UserInv
<1>1. disk'[p] = disk[p]
  BY DiskWriters
<1>2. (\A f \in Files : target[f] # p) /\ (\A w \in Workers : tgt[w] # p)
  BY <1>1 DEF UserInv
<1> QED
  BY <1>1, <1>2, TargetsFree, UploadsToTargets

\* As long as MakeUniquePathW finds a number for every file, the files that
\* were in the download directory before stay as they are, whatever senders
\* and the user do (UserFilesKept): uploads are sent to free paths.
THEOREM UserFilesTheorem == Spec /\ []NumberLeft => UserFilesKept
<1>1. StructInv /\ UserInv /\ [Next]_vars
        => [\A p \in Paths : disk[p] # None /\ disk[p].sess = 0 => disk'[p] = disk[p]]_vars
  BY DiskWriters DEF UserInv
<1> QED
  BY <1>1, StructInit, StructNext, UserInit, UserNext, PTL DEF Spec, UserFilesKept

-----------------------------------------------------------------------------
(* What the senders are promised.                                           *)

\* Nothing has an entry, and nothing is being installed, at the start.
LEMMA CountInit == Init => CountInv
BY DEF Init, CountInv, Installing

\* A step that leaves the maps and the accepted files alone, and brings no
\* thread closer to an installation.
LEMMA CountStep ==
  ASSUME StructInv, CountInv, UNCHANGED <<maps, accepted>>,
         \A s \in Sessions : prompt'[s] = "yes" => prompt[s] = "yes",
         \A x \in Workers : pc'[x] \in Installing => pc[x] \in Installing /\ job'[x] = job[x]
  PROVE  CountInv'
BY DEF CountInv

\* The request's own session is forgotten, or accepted as a whole.
LEMMA CountAsk ==
  ASSUME NEW w \in Workers, StructInv, CountInv,
         PrepareMismatch(w) \/ PrepareRejected(w) \/ PreparePrompt(w)
  PROVE  CountInv'
<1>t. ThreadTypeOK /\ RequestTypeOK
  BY DEF StructInv, TypeOK
<1>1. /\ job[w] \in Sessions /\ offer[job[w]] \in Offers
      /\ \A x \in Workers : x # w => job[x] # job[w]
  BY EarlyAlone, OwnerTypes DEF PrepareMismatch, PrepareRejected, PreparePrompt, Early, Preparing
<1>2. UNCHANGED maps /\ Kept(w)
  BY <1>t, ReturnKept, GotoKept DEF PrepareMismatch, PrepareRejected, PreparePrompt
<1>3. \A s \in Sessions : s # job[w] => accepted'[s] = accepted[s] /\ prompt'[s] = prompt[s]
  BY <1>1, <1>t DEF PrepareMismatch, PrepareRejected, PreparePrompt, Forget, RequestTypeOK
<1>4. CASE PrepareMismatch(w) \/ PrepareRejected(w)
  <2>1. pc'[w] = "idle" /\ prompt'[job[w]] = "none"
    BY <1>4, <1>1, <1>t, ReturnKept DEF PrepareMismatch, PrepareRejected, Forget, RequestTypeOK
  <2>2. ASSUME NEW x \in Workers, pc'[x] \in Installing PROVE accepted'[job'[x]] # {}
    <3>1. x # w /\ pc[x] \in Installing /\ job'[x] = job[x] /\ job[x] # job[w]
      BY <2>1, <2>2, <1>1, <1>2 DEF Kept, Installing
    <3>2. job[x] \in Sessions
      BY <3>1, OwnerTypes DEF Installing, Preparing
    <3>3. QED
      BY <3>1, <3>2, <1>3 DEF CountInv
  <2>3. QED
    BY <1>2, <1>3, <2>1, <2>2 DEF CountInv
<1>5. CASE PreparePrompt(w)
  <2>1. pc[w] = "ask" /\ job'[w] = job[w] /\ prompt[job[w]] = "none"
    BY <1>5 DEF PreparePrompt, StructInv, PromptInv, PromptOK
  <2>2. prompt'[job[w]] \in {"none", "queued"}
    BY <1>5, <1>1, <1>t, <2>1 DEF PreparePrompt, RequestTypeOK
  <2>3. pc'[w] = "install" => accepted'[job[w]] # {}
    <3> SUFFICES ASSUME pc'[w] = "install" PROVE accepted'[job[w]] # {}
      OBVIOUS
    <3>1. accepted'[job[w]] = DOMAIN offer[job[w]]
      BY <1>5, <1>1, <1>t DEF PreparePrompt, RequestTypeOK, ThreadTypeOK, Goto
    <3>2. QED
      BY <3>1, <1>1
  <2>4. pc'[w] \in {"wait", "install"}
    BY <1>5, <1>t DEF PreparePrompt, Goto, ThreadTypeOK
  <2>5. ASSUME NEW x \in Workers, pc'[x] \in Installing PROVE accepted'[job'[x]] # {}
    <3>1. CASE x = w
      BY <3>1, <2>1, <2>3, <2>4, <2>5 DEF Installing
    <3>2. CASE x # w
      <4>1. pc[x] \in Installing /\ job'[x] = job[x] /\ job[x] # job[w]
        BY <3>2, <2>5, <1>1, <1>2 DEF Kept
      <4>2. job[x] \in Sessions
        BY <4>1, OwnerTypes DEF Installing, Preparing
      <4>3. QED
        BY <4>1, <4>2, <1>3 DEF CountInv
    <3>3. QED
      BY <3>1, <3>2
  <2>6. QED
    BY <1>2, <1>3, <2>2, <2>5 DEF CountInv
<1>6. QED
  BY <1>4, <1>5

\* What is accepted is installed, entry by entry, with a count for each.
LEMMA CountMaps ==
  ASSUME NEW w \in Workers, StructInv, CountInv,
         PrepareInstall(w) \/ PrepareEntry(w) \/ UploadFinish(w)
  PROVE  CountInv'
<1>t. ThreadTypeOK /\ SlotTypeOK
  BY DEF StructInv, TypeOK
<1>1. UNCHANGED <<accepted, prompt>>
  BY DEF PrepareInstall, PrepareEntry, UploadFinish
<1>2. CASE PrepareInstall(w)
  <2>1. /\ pc'[w] = "entries" /\ job' = job
        /\ \A x \in Workers : x # w => pc'[x] = pc[x]
    BY <1>2, <1>t DEF PrepareInstall, Goto, ThreadTypeOK
  <2>2. accepted[job[w]] # {}
    BY <1>2, OwnerTypes DEF PrepareInstall, CountInv, Installing, Preparing
  <2>3. \A f \in Files : token'[f] = 0
    BY <1>2 DEF PrepareInstall
  <2>4. QED
    BY <1>1, <2>1, <2>2, <2>3 DEF CountInv
<1>3. CASE PrepareEntry(w)
  <2>1. /\ pc[w] = "entries" /\ job' = job /\ pc'[w] \in Installing
        /\ \A x \in Workers : x # w => pc'[x] = pc[x]
    BY <1>3, <1>t DEF PrepareEntry, Goto, ThreadTypeOK, Installing
  <2>2. \E i : /\ token' = [token EXCEPT ![i] = job[w]]
               /\ received' = [received EXCEPT ![i] = 0]
    BY <1>3 DEF PrepareEntry
  <2>3. \A g \in Files : token'[g] # 0 => received'[g] # -1
    BY <2>2, <1>t DEF SlotTypeOK, CountInv
  <2>4. QED
    BY <1>1, <2>1, <2>3 DEF CountInv, Installing
<1>4. CASE UploadFinish(w)
  <2>1. Kept(w) /\ pc'[w] \in {"idle", "report"}
    BY <1>4, <1>t, ReturnKept, GotoKept DEF UploadFinish
  <2>2. got[w] \in 0..MaxBytes
    BY <1>t DEF ThreadTypeOK
  <2>3. \A g \in Files : token'[g] # 0 => received'[g] # -1
    BY <1>4, <2>2, <1>t DEF UploadFinish, SlotTypeOK, CountInv
  <2>4. \A x \in Workers : pc'[x] \in Installing => pc[x] \in Installing /\ job'[x] = job[x]
    BY <2>1 DEF Kept, Installing
  <2>5. QED
    BY <1>1, <2>3, <2>4 DEF CountInv
<1>5. QED
  BY <1>2, <1>3, <1>4

\* The user accepts with at least one file.
LEMMA CountAnswer ==
  ASSUME NEW s \in Sessions, StructInv, CountInv, UserAnswer(s) PROVE CountInv'
<1>t. RequestTypeOK
  BY DEF StructInv, TypeOK
<1>1. PICK w \in Workers : pc[w] = "wait" /\ job[w] = s
  BY DEF UserAnswer, StructInv, PromptInv, WaitInv
<1>2. \A x \in Workers : pc[x] \in Installing => job[x] # s /\ job[x] \in Sessions
  BY <1>1, EarlyAlone, OwnerTypes DEF Early, Installing, Preparing
<1>3. \A t \in Sessions : t # s => accepted'[t] = accepted[t] /\ prompt'[t] = prompt[t]
  BY <1>t DEF UserAnswer, RequestTypeOK
<1>4. prompt'[s] = "yes" => accepted'[s] # {}
  BY <1>t DEF UserAnswer, RequestTypeOK
<1>5. UNCHANGED <<maps, pc, job>>
  BY DEF UserAnswer
<1>6. QED
  BY <1>2, <1>3, <1>4, <1>5 DEF CountInv

\* The other steps of a thread.
LEMMA CountThread ==
  ASSUME NEW w \in Workers, StructInv, CountInv,
         \/ PrepareArrive(w) \/ PrepareDrop(w) \/ PreparePublish(w) \/ UploadValidate(w)
         \/ UploadOpen(w) \/ UploadOpenFails(w) \/ UploadChunk(w) \/ UploadStopped(w)
         \/ UploadBreaks(w) \/ UploadEnd(w) \/ UploadCanceled(w) \/ UploadFailed(w)
         \/ UploadRecord(w) \/ UploadReport(w) \/ CancelMark(w) \/ CancelFlag(w)
  PROVE  CountInv'
<1>t. ThreadTypeOK /\ RequestTypeOK
  BY DEF StructInv, TypeOK
<1>1. CASE PrepareArrive(w)
  <2>1. pc'[w] \in {"drop", "ask"} /\ \A x \in Workers : x # w => pc'[x] = pc[x] /\ job'[x] = job[x]
    BY <1>1, <1>t DEF PrepareArrive, Goto, ThreadTypeOK
  <2>2. QED
    BY <1>1, <2>1, CountStep DEF PrepareArrive, Installing
<1>2. CASE PreparePublish(w)
  <2>1. Kept(w) /\ pc'[w] = "idle"
    BY <1>2, <1>t, ReturnKept DEF PreparePublish
  <2>2. \A s \in Sessions : prompt'[s] = "yes" => prompt[s] = "yes"
    BY <1>2, <1>t DEF PreparePublish, RequestTypeOK
  <2>3. QED
    BY <1>2, <2>1, <2>2, CountStep DEF PreparePublish, Kept, Installing
<1>3. CASE PrepareDrop(w) \/ UploadOpen(w) \/ UploadStopped(w) \/ UploadBreaks(w) \/ UploadRecord(w)
  <2>1. Kept(w) /\ pc'[w] \in {"ask", "read", "canceled", "failed", "finish"}
    BY <1>3, <1>t, GotoKept DEF PrepareDrop, UploadOpen, UploadStopped, UploadBreaks, UploadRecord
  <2>2. UNCHANGED <<maps, requests, prompt>>
    BY <1>3 DEF PrepareDrop, UploadOpen, UploadStopped, UploadBreaks, UploadRecord
  <2>3. QED
    BY <2>1, <2>2, CountStep DEF Kept, Installing
<1>4. CASE UploadOpenFails(w) \/ UploadCanceled(w) \/ UploadFailed(w) \/ UploadReport(w) \/ CancelFlag(w)
  <2>1. Kept(w) /\ pc'[w] = "idle"
    BY <1>4, <1>t, ReturnKept DEF UploadOpenFails, UploadCanceled, UploadFailed, UploadReport, CancelFlag
  <2>2. UNCHANGED <<maps, requests, prompt>>
    BY <1>4 DEF UploadOpenFails, UploadCanceled, UploadFailed, UploadReport, CancelFlag
  <2>3. QED
    BY <2>1, <2>2, CountStep DEF Kept, Installing
<1>5. CASE UploadValidate(w) \/ UploadChunk(w) \/ UploadEnd(w) \/ CancelMark(w)
  <2>1. /\ pc'[w] \in {"open", "read", "record", "failed", "flag"}
        /\ \A x \in Workers : x # w => pc'[x] = pc[x] /\ job'[x] = job[x]
    BY <1>5, <1>t DEF UploadValidate, UploadChunk, UploadEnd, CancelMark, Goto, ThreadTypeOK
  <2>2. UNCHANGED <<maps, requests, prompt>>
    BY <1>5 DEF UploadValidate, UploadChunk, UploadEnd, CancelMark
  <2>3. QED
    BY <2>1, <2>2, CountStep DEF Installing
<1>6. QED
  BY <1>1, <1>2, <1>3, <1>4, <1>5

\* The counts are there when they are looked at.
LEMMA CountNext == StructInv /\ CountInv /\ [Next]_vars => CountInv'
<1> SUFFICES ASSUME StructInv, CountInv, [Next]_vars PROVE CountInv'
  OBVIOUS
<1>1. ASSUME NEW w \in Workers,
             PrepareArrive(w) \/ UploadValidate(w) \/ CancelMark(w) \/ Prepare(w) \/ Upload(w) \/ CancelFlag(w)
      PROVE  CountInv'
  BY <1>1, CountThread, CountAsk, CountMaps DEF Prepare, Upload
<1>2. CASE Ui \/ UserClear \/ IdleTimeout \/ UNCHANGED vars \/ \E s \in Sessions : UserCancel(s)
  <2>1. UNCHANGED <<maps, requests, pc, job>>
    BY <1>2 DEF Ui, UiDrain, UiDeclineQueued, UiShow, UserClear, IdleTimeout, UserCancel, vars
  <2>2. \A s \in Sessions : prompt'[s] = "yes" => prompt[s] = "yes"
    BY <1>2 DEF Ui, UiDrain, UiDeclineQueued, UiShow, UserClear, IdleTimeout, UserCancel, vars,
       StructInv, TypeOK, RequestTypeOK
  <2>3. QED
    BY <2>1, <2>2, CountStep
<1>3. ASSUME NEW s \in Sessions, UserAnswer(s) PROVE CountInv'
  BY <1>3, CountAnswer
<1>4. QED
  BY <1>1, <1>2, <1>3 DEF Next

\* Tokens are given by PreparePublish alone.
LEMMA GivenKept ==
  ASSUME StructInv, [Next]_vars, \A s \in Sessions : xfer'[s] = "none" <=> xfer[s] = "none"
  PROVE  Given' = Given
<1>1. ASSUME NEW s \in Sessions, Granted(s) PROVE offer'[s] = offer[s] /\ accepted'[s] = accepted[s]
  BY <1>1, KnownKept DEF Granted, Unknown
<1>2. QED
  BY <1>1 DEF Given, Granted, Ids

\* What is stored of a session changes with the history.
LEMMA StoredKept ==
  ASSUME StructInv, [Next]_vars, history' = history PROVE Stored' = Stored
<1>1. ASSUME NEW s \in Sessions, NEW f \in Files, NEW b \in 0..MaxBytes
      PROVE  Recorded(s, f, b)' <=> Recorded(s, f, b)
  <2>1. CASE Unknown(s)
    BY <2>1 DEF Unknown, Recorded
  <2>2. CASE ~Unknown(s)
    BY <2>2, KnownKept DEF Recorded, PassesChecks
  <2>3. QED
    BY <2>1, <2>2
<1>2. ASSUME NEW s \in Sessions PROVE Stored'[s] = Stored[s]
  <2>1. CASE Unknown(s)
    <3>1. Received(s) = {} /\ Received(s)' = {}
      BY <2>1 DEF Received, Unknown, Recorded
    <3>2. QED
      BY <3>1 DEF Stored, Ids
  <2>2. CASE ~Unknown(s)
    <3>1. offer'[s] = offer[s] /\ accepted'[s] = accepted[s]
      BY <2>2, KnownKept
    <3>2. \A f \in accepted[s] : f \in Files
      BY OfferIds
    <3>3. Received(s)' = Received(s)
      BY <1>1, <3>1, <3>2 DEF Received
    <3>4. QED
      BY <3>1, <3>3 DEF Stored, Ids
  <2>3. QED
    BY <2>1, <2>2
<1>3. QED
  BY <1>2 DEF Stored

\* The session in the slot, while it is the senders', stays as accepted.
LEMMA HolderKept ==
  ASSUME StructInv, [Next]_vars, Holder # 0
  PROVE  /\ Holder = cur /\ cur \in Sessions /\ Granted(cur)
         /\ offer'[cur] = offer[cur] /\ accepted'[cur] = accepted[cur]
<1>1. Holder = cur /\ cur # 0 /\ Granted(cur)
  BY DEF Holder
<1>2. cur \in Sessions /\ ~Unknown(cur)
  BY <1>1 DEF Unknown, StructInv, TypeOK, SlotTypeOK
<1>3. QED
  BY <1>1, <1>2, KnownKept

\* The counts matter only while they are not muddled.
LEMMA OpenKept ==
  ASSUME StructInv, [Next]_vars, UNCHANGED <<active, cur, overlap, history>>,
         \A s \in Sessions : xfer'[s] = "none" <=> xfer[s] = "none",
         UNCHANGED <<entry, received>> \/ Holder = 0 \/ Muddled
  PROVE  UNCHANGED <<Holder, Uncounted, Muddled>>
<1>1. cur \in Sessions \/ cur = 0
  BY DEF StructInv, TypeOK, SlotTypeOK
<1>2. Holder' = Holder
  BY <1>1 DEF Holder, Granted
<1>3. Muddled' = Muddled
  BY <1>2, HolderKept DEF Muddled, Inexact
<1>4. Uncounted' = Uncounted
  BY <1>2, <1>3, HolderKept, GivenKept DEF Uncounted
<1>5. QED
  BY <1>2, <1>3, <1>4

\* What a sender does not see.
LEMMA PromiseStutter ==
  ASSUME StructInv, [Next]_vars, UNCHANGED <<active, cur, overlap, history>>,
         \A s \in Sessions : xfer'[s] = "none" <=> xfer[s] = "none",
         UNCHANGED <<entry, received>> \/ Holder = 0 \/ Muddled
  PROVE  UNCHANGED Server!vars
BY GivenKept, StoredKept, OpenKept DEF Server!vars

\* The slot passes to a session whose tokens are not out yet, or to none.
LEMMA PromiseRelease ==
  ASSUME StructInv, [Next]_vars, history' = history, xfer' = xfer, Holder' = 0
  PROVE  [Server!Next]_(Server!vars)
<1>1. Given' = Given /\ Stored' = Stored
  BY GivenKept, StoredKept
<1>2. Uncounted' = {} /\ Muddled' = FALSE
  BY DEF Uncounted, Muddled
<1>3. CASE Holder = 0
  <2>1. Uncounted = {} /\ Muddled = FALSE
    BY <1>3 DEF Uncounted, Muddled
  <2>2. QED
    BY <1>1, <1>2, <1>3, <2>1 DEF Server!vars
<1>4. CASE Holder # 0
  <2>1. Server!Release
    BY <1>1, <1>2, <1>4 DEF Server!Release, Server!Closed
  <2>2. QED
    BY <2>1 DEF Server!Next
<1>5. QED
  BY <1>3, <1>4

\* The answer to prepare-upload: the session is the senders', and holds the
\* slot unless it has lost it already.
LEMMA PromiseGrant ==
  ASSUME NEW w \in Workers, StructInv, CountInv, PreparePublish(w)
  PROVE  [Server!Next]_(Server!vars)
<1> DEFINE s == job[w]
           ids == Ids(s, accepted[s])
<1> USE DEF PreparePublish
<1>t. StoreTypeOK /\ SlotTypeOK /\ RequestTypeOK
  BY DEF StructInv, TypeOK
<1>1. s \in Sessions /\ xfer[s] = "none" /\ ids \in SUBSET Files /\ ids # {}
  <2>1. s \in Sessions /\ xfer[s] = "none" /\ accepted[s] # {}
    BY <1>t, OwnerTypes DEF StructInv, OwnInv, OwnOK, Preparing, CountInv, Installing
  <2>2. QED
    BY <2>1, OfferIds DEF Ids
<1>2. \A t \in Sessions : Granted(t)' <=> Granted(t) \/ t = s
  BY <1>1, <1>t DEF Granted, StoreTypeOK
<1>3. Given[s] = {} /\ Given' = [Given EXCEPT ![s] = ids]
  <2>1. ASSUME NEW t \in Sessions PROVE Given'[t] = IF t = s THEN ids ELSE Given[t]
    BY <1>1, <1>2 DEF Given, Ids
  <2>2. Given = [t \in Sessions |-> Given[t]] /\ Given' = [t \in Sessions |-> Given'[t]]
    BY DEF Given
  <2>3. Given[s] = {}
    BY <1>1 DEF Given, Granted
  <2> HIDE DEF ids
  <2>4. QED
    BY <1>1, <2>1, <2>2, <2>3
<1>4. Stored' = Stored
  BY DEF Stored, Received, Ids, Recorded, PassesChecks
<1>5. CASE active /\ cur = s
  <2>1. Holder = 0 /\ Holder' = s
    BY <1>1, <1>2, <1>5 DEF Holder, Granted
  <2>2. Muddled' \in BOOLEAN
    BY DEF Muddled
  <2>3. Muddled' => Uncounted' = {}
    BY DEF Uncounted
  <2>4. ~Muddled' => Uncounted' \in SUBSET ids
    <3>1. Given'[s] = ids
      BY <1>1, <1>3 DEF Given
    <3>2. QED
      BY <2>1, <3>1, <1>5 DEF Uncounted
  <2>5. Server!Grant(s, ids)
    BY <1>1, <1>3, <1>4, <2>1, <2>2, <2>3, <2>4 DEF Server!Grant
  <2>6. QED
    BY <1>1, <2>5 DEF Server!Next
<1>6. CASE ~active \/ cur # s
  <2>1. Holder' = Holder
    BY <1>2, <1>6, <1>t DEF Holder, SlotTypeOK
  <2>2. Muddled' = Muddled /\ Uncounted' = Uncounted
    <3>1. Muddled' = Muddled
      BY <2>1 DEF Muddled, Inexact
    <3>2. Holder # 0 => Given'[cur] = Given[cur]
      <4>1. Holder # 0 => cur \in Sessions /\ cur # s
        BY <1>1, <1>t DEF Holder, Granted, SlotTypeOK
      <4>2. DOMAIN Given = Sessions
        BY DEF Given
      <4>3. QED
        BY <1>3, <4>1, <4>2
    <3>3. QED
      BY <2>1, <3>1, <3>2 DEF Uncounted
  <2>3. Server!Grant(s, ids)
    BY <1>1, <1>3, <1>4, <2>1, <2>2 DEF Server!Grant, Server!open
  <2>4. QED
    BY <1>1, <2>3 DEF Server!Next
<1>7. QED
  BY <1>5, <1>6

\* An entry belongs to a session that is not the senders' yet.
LEMMA PromiseEntry ==
  ASSUME NEW w \in Workers, StructInv, CleanInv, [Next]_vars, PrepareEntry(w)
  PROVE  UNCHANGED Server!vars
<1>1. pc[w] = "entries" /\ xfer[job[w]] = "none"
  BY DEF PrepareEntry, StructInv, OwnInv, OwnOK, Preparing
<1>2. Holder = 0 \/ Muddled
  <2> SUFFICES ASSUME Holder # 0, cur \notin overlap PROVE FALSE
    BY DEF Muddled
  <2>1. Granted(cur) /\ cur # 0
    BY DEF Holder
  <2>2. job[w] = cur
    BY <1>1, <2>1 DEF CleanInv, AtWork
  <2>3. QED
    BY <1>1, <2>1, <2>2 DEF Granted
<1>3. UNCHANGED <<active, cur, overlap, history, xfer>>
  BY DEF PrepareEntry
<1>4. QED
  BY <1>2, <1>3, PromiseStutter

\* A file that passed its checks is kept, and muddles the count of the session
\* in the slot when its length is not the announced one.
LEMMA PromiseStore ==
  ASSUME NEW w \in Workers, StructInv, UploadRecord(w)
  PROVE  [Server!Next]_(Server!vars)
<1> DEFINE s == src[w]
           f == fid[w]
           i == Id(s, f)
           h == [sess |-> s, file |-> f, path |-> tgt[w], bytes |-> got[w], good |-> good[w]]
<1> USE DEF UploadRecord
<1>1. /\ s \in Sessions /\ f \in Files /\ f \in accepted[s] /\ Granted(s)
      /\ PassesChecks(s, f, good[w]) /\ got[w] \in 0..MaxBytes
  BY UploadTypes DEF StructInv, UploadInv, UploadOK, Uploading, Granted, TypeOK, ThreadTypeOK
<1>2. Given' = Given /\ i \in Given[s] /\ i \in Files
  BY <1>1, OfferIds DEF Given, Granted, Ids
<1>3. \A t \in Sessions, g \in Files, b \in 0..MaxBytes :
        Recorded(t, g, b)' <=> Recorded(t, g, b) \/ (t = s /\ g = f /\ b = got[w])
  <2> SUFFICES ASSUME NEW t \in Sessions, NEW g \in Files, NEW b \in 0..MaxBytes
               PROVE  Recorded(t, g, b)' <=> Recorded(t, g, b) \/ (t = s /\ g = f /\ b = got[w])
    OBVIOUS
  <2>1. history' = history \cup {h}
    OBVIOUS
  <2>2. h.sess = s /\ h.file = f /\ h.bytes = got[w] /\ h.good = good[w]
    OBVIOUS
  <2>3. UNCHANGED offer
    OBVIOUS
  <2> HIDE DEF h
  <2>4. QED
    BY <1>1, <2>1, <2>2, <2>3 DEF Recorded, PassesChecks
<1>4. Stored' = [Stored EXCEPT ![s] = @ \cup {i}]
  <2>1. ASSUME NEW t \in Sessions
        PROVE  Stored'[t] = IF t = s THEN Stored[s] \cup {i} ELSE Stored[t]
    <3>1. ASSUME NEW g \in accepted[t]
          PROVE  (\E b \in 0..MaxBytes : Recorded(t, g, b)')
                 <=> (\E b \in 0..MaxBytes : Recorded(t, g, b)) \/ (t = s /\ g = f)
      BY <1>1, <1>3, OfferIds
    <3>2. Received(t)' = IF t = s THEN Received(s) \cup {f} ELSE Received(t)
      BY <1>1, <3>1 DEF Received
    <3>3. Ids(s, Received(s) \cup {f}) = Ids(s, Received(s)) \cup {i}
      BY DEF Ids
    <3>4. Stored'[t] = Ids(t, Received(t)') /\ Stored[t] = Ids(t, Received(t))
      BY DEF Stored, Ids
    <3>5. QED
      BY <3>2, <3>3, <3>4
  <2>2. DOMAIN Stored = Sessions /\ Stored = [t \in Sessions |-> Stored[t]]
    BY DEF Stored
  <2>3. Stored' = [t \in Sessions |-> Stored'[t]]
    BY DEF Stored
  <2>4. QED
    BY <2>1, <2>2, <2>3
<1>5. Holder' = Holder
  BY DEF Holder, Granted
<1>6. CASE Muddled' = Muddled
  <2>1. Uncounted' = Uncounted
    BY <1>2, <1>5, <1>6 DEF Uncounted
  <2>2. Server!Store(s, i)
    BY <1>2, <1>4, <1>5, <1>6, <2>1 DEF Server!Store
  <2>3. QED
    BY <1>1, <1>2, <2>2 DEF Server!Next
<1>7. CASE Muddled' # Muddled
  <2>1. Muddled => Muddled'
    BY <1>5 DEF Muddled, Inexact
  <2>2. Muddled' = TRUE /\ Muddled = FALSE
    BY <2>1, <1>7 DEF Muddled
  <2>3. Holder # 0 /\ Holder = cur /\ Uncounted' = {}
    BY <2>2, <1>5 DEF Muddled, Uncounted, Holder
  <2>4. cur = s
    <3>1. PICK x \in history' : x.sess = cur /\ offer[cur][x.file].size \notin {0, x.bytes}
      BY <2>2, <2>3 DEF Muddled, Inexact
    <3>2. x \notin history
      BY <3>1, <2>2, <2>3 DEF Muddled, Inexact
    <3>3. x = h
      BY <3>2
    <3>4. QED
      BY <3>1, <3>3
  <2>5. Server!Store(s, i)
    BY <1>2, <1>4, <1>5, <2>2, <2>3, <2>4 DEF Server!Store
  <2>6. QED
    BY <1>1, <1>2, <2>5 DEF Server!Next
<1>8. QED
  BY <1>6, <1>7

\* A file is counted: the last one of a session that is not muddled ends it.
LEMMA PromiseFinish ==
  ASSUME NEW w \in Workers, StructInv, CleanInv, CountInv, UploadFinish(w)
  PROVE  [Server!Next]_(Server!vars)
<1> DEFINE s == src[w]
           f == fid[w]
           i == Id(s, f)
<1> USE DEF UploadFinish
<1>t. SlotTypeOK /\ RequestTypeOK /\ ThreadTypeOK
  BY DEF StructInv, TypeOK
<1>1. /\ s \in Sessions /\ f \in Files /\ Recorded(s, f, got[w]) /\ got[w] \in 0..MaxBytes
      /\ pc[w] = "finish" /\ f \in accepted[s] /\ i \in Files
  BY <1>t, UploadTypes, OfferIds DEF StructInv, UploadInv, UploadOK, Uploading, ThreadTypeOK
<1>2. i \in Stored[s]
  BY <1>1 DEF Stored, Received, Ids
<1>3. Given' = Given /\ Stored' = Stored
  BY DEF Given, Granted, Stored, Received, Ids, Recorded, PassesChecks
<1>4. IF AllDone(received') THEN active' = FALSE ELSE active' = active
  OBVIOUS
<1>5. AllDone(received') => Server!Closed
  BY <1>4 DEF Server!Closed, Holder, Muddled, Uncounted
<1>6. ~AllDone(received') => Holder' = Holder /\ Muddled' = Muddled
  BY <1>4 DEF Holder, Muddled, Inexact, Granted
<1>7. ASSUME Holder # 0, ~Muddled
      PROVE  /\ Holder = s /\ Holder = cur /\ cur \notin overlap /\ ~Inexact(cur) /\ cur \in Sessions
             /\ Granted(cur)
  BY <1>1, <1>7, <1>t DEF Holder, Muddled, CleanInv, AtWork, SlotTypeOK
<1>8. CASE Holder = s /\ ~Muddled
  <2> DEFINE Left == {j \in Given[cur] : offer[cur][entry[j]].size \notin {0, received'[j]}}
  <2>1. s # 0 /\ Holder # 0
    BY <1>1, <1>8
  <2>0. /\ Given[cur] = Ids(cur, accepted[cur])
        /\ \A v \in Workers : pc[v] = "entries" => job[v] # cur
    BY <1>7, <1>8, <2>1 DEF Given, StructInv, OwnInv, OwnOK, Preparing, Granted
  <2>2. \A j \in Given[cur] : j \in Files /\ token[j] = cur
    <3>1. \A g \in accepted[cur] : Id(cur, g) \in Files
      BY <1>7, <1>8, <2>1, OfferIds
    <3>2. \A g \in accepted[cur] : token[Id(cur, g)] = cur
      BY <1>7, <1>8, <2>0, <2>1 DEF CleanInv
    <3>3. QED
      BY <2>0, <3>1, <3>2 DEF Ids
  <2>3. \A j \in Files : token[j] # 0 => token[j] = cur /\ j \in Given[cur]
    <3> SUFFICES ASSUME NEW j \in Files, token[j] # 0 PROVE token[j] = cur /\ j \in Given[cur]
      OBVIOUS
    <3>1. token[j] = cur
      BY <1>7, <1>8, <2>1 DEF CleanInv
    <3>2. entry[j] \in accepted[cur] /\ Id(cur, entry[j]) = j
      BY <3>1 DEF StructInv, TokenInv
    <3>3. QED
      BY <3>1, <3>2, <2>0 DEF Ids
  <2>4. \A j \in Files : received'[j] = IF j = i THEN got[w] ELSE received[j]
    BY <1>t, <1>1 DEF SlotTypeOK
  <2>5. \A j \in Files : token[j] # 0 => received'[j] # -1
    BY <2>4, <1>1 DEF CountInv
  <2>6. AllDone(received') <=> Left = {}
    BY <1>7, <1>8, <2>1, <2>2, <2>3, <2>5 DEF AllDone, Size
  <2>7. entry[i] = f /\ offer[cur][f].size \in {0, got[w]}
    BY <1>1, <1>7, <1>8, <2>1 DEF Recorded, Inexact, CleanInv, AtWork
  <2>8. Left = Uncounted \ {i}
    <3>1. Uncounted = {j \in Given[cur] : offer[cur][entry[j]].size \notin {0, received[j]}}
      BY <1>8, <2>1 DEF Uncounted
    <3>2. ASSUME NEW j \in Given[cur], j # i
          PROVE  offer[cur][entry[j]].size \in {0, received'[j]} <=> offer[cur][entry[j]].size \in {0, received[j]}
      BY <3>2, <2>2, <2>4
    <3>3. offer[cur][entry[i]].size \in {0, received'[i]}
      BY <1>1, <2>4, <2>7
    <3> HIDE DEF i
    <3>4. QED
      BY <3>1, <3>2, <3>3
  <2>9. Holder' = (IF Left = {} THEN 0 ELSE Holder) /\ Uncounted' = Left /\ Muddled' = FALSE
    <3>1. CASE AllDone(received')
      BY <3>1, <1>5, <2>6 DEF Server!Closed
    <3>2. CASE ~AllDone(received')
      <4>1. Holder' = Holder /\ Muddled' = FALSE /\ Holder' # 0
        BY <3>2, <1>6, <1>8, <2>1 DEF Muddled
      <4>2. Uncounted' = Left
        BY <4>1, <1>3 DEF Uncounted
      <4>3. QED
        BY <4>1, <4>2, <3>2, <2>6
    <3>3. QED
      BY <3>1, <3>2
  <2>10. Muddled = FALSE
    BY <1>8 DEF Muddled
  <2> HIDE DEF Left
  <2>11. Server!Finish(s, i)
    BY <1>2, <1>3, <1>8, <2>8, <2>9, <2>10 DEF Server!Finish
  <2>12. QED
    BY <1>1, <2>11 DEF Server!Next
<1>9. CASE Holder # s \/ Muddled
  <2>1. Holder = 0 \/ Muddled
    BY <1>7, <1>9
  <2>2. ~AllDone(received') => UNCHANGED <<Holder, Uncounted, Muddled>>
    <3> SUFFICES ASSUME ~AllDone(received') PROVE UNCHANGED <<Holder, Uncounted, Muddled>>
      OBVIOUS
    <3>1. Holder' = Holder /\ Muddled' = Muddled
      BY <1>6
    <3>2. Uncounted = {}
      BY <2>1 DEF Uncounted
    <3>3. Uncounted' = {}
      BY <2>1, <3>1 DEF Uncounted
    <3>4. QED
      BY <3>1, <3>2, <3>3
  <2>3. Server!Finish(s, i)
    BY <1>2, <1>3, <1>5, <1>9, <2>2 DEF Server!Finish, Server!open
  <2>4. QED
    BY <1>1, <2>3 DEF Server!Next
<1>10. QED
  BY <1>8, <1>9

\* The slot is taken by a session of its own, or given up.
LEMMA PromiseSlot ==
  ASSUME NEW w \in Workers, StructInv, [Next]_vars,
         PrepareInstall(w) \/ PrepareDrop(w) \/ CancelMark(w)
  PROVE  [Server!Next]_(Server!vars)
<1>1. history' = history /\ xfer' = xfer
  BY DEF PrepareInstall, PrepareDrop, CancelMark
<1>2. CASE PrepareInstall(w)
  <2>1. xfer[job[w]] = "none"
    BY <1>2 DEF PrepareInstall, StructInv, OwnInv, OwnOK, Preparing
  <2>2. Holder' = 0
    BY <1>1, <1>2, <2>1 DEF PrepareInstall, Holder, Granted
  <2>3. QED
    BY <1>1, <2>2, PromiseRelease
<1>3. CASE PrepareDrop(w) \/ CancelMark(w)
  <2>1. Holder' = 0
    BY <1>3 DEF PrepareDrop, CancelMark, Holder
  <2>2. QED
    BY <1>1, <2>1, PromiseRelease
<1>4. QED
  BY <1>2, <1>3

\* The other steps are between the threads, the user and the disk.
LEMMA PromiseOthers ==
  ASSUME StructInv, [Next]_vars,
         \/ \E w \in Workers :
              \/ PrepareArrive(w) \/ PrepareMismatch(w) \/ PreparePrompt(w) \/ PrepareRejected(w)
              \/ UploadValidate(w) \/ UploadOpen(w) \/ UploadOpenFails(w) \/ UploadChunk(w)
              \/ UploadStopped(w) \/ UploadBreaks(w) \/ UploadEnd(w) \/ UploadCanceled(w)
              \/ UploadFailed(w) \/ UploadReport(w) \/ CancelFlag(w)
         \/ Ui \/ UserClear \/ IdleTimeout \/ UNCHANGED vars
         \/ \E s \in Sessions : UserAnswer(s) \/ UserCancel(s)
  PROVE  UNCHANGED Server!vars
<1>t. StoreTypeOK
  BY DEF StructInv, TypeOK
<1>1. UNCHANGED <<active, cur, overlap, history, entry, received>>
  BY DEF PrepareArrive, PrepareMismatch, PreparePrompt, PrepareRejected, UploadValidate, UploadOpen,
     UploadOpenFails, UploadChunk, UploadStopped, UploadBreaks, UploadEnd, UploadCanceled, UploadFailed,
     UploadReport, CancelFlag, Ui, UiDrain, UiDeclineQueued, UiShow, UserClear, IdleTimeout, UserAnswer,
     UserCancel, vars
<1>2. \A s \in Sessions : xfer'[s] = "none" <=> xfer[s] = "none"
  <2>1. CASE \E w \in Workers : UploadCanceled(w) \/ UploadFailed(w) \/ UploadReport(w) \/ CancelFlag(w)
    BY <2>1, <1>t, WithStateKeeps DEF UploadCanceled, UploadFailed, UploadReport, CancelFlag
  <2>2. CASE UserClear
    BY <2>2, <1>t DEF UserClear, StoreTypeOK
  <2>3. CASE /\ ~UserClear
             /\ ~\E w \in Workers : UploadCanceled(w) \/ UploadFailed(w) \/ UploadReport(w) \/ CancelFlag(w)
    BY <2>3 DEF PrepareArrive, PrepareMismatch, PreparePrompt, PrepareRejected, UploadValidate, UploadOpen,
       UploadOpenFails, UploadChunk, UploadStopped, UploadBreaks, UploadEnd, Ui, UiDrain, UiDeclineQueued,
       UiShow, IdleTimeout, UserAnswer, UserCancel, vars
  <2>4. QED
    BY <2>1, <2>2, <2>3
<1>3. QED
  BY <1>1, <1>2, PromiseStutter

\* Every step is one of the promised ones, or none.
LEMMA PromiseNext ==
  StructInv /\ CleanInv /\ CountInv /\ [Next]_vars => [Server!Next]_(Server!vars)
<1> SUFFICES ASSUME StructInv, CleanInv, CountInv, [Next]_vars PROVE [Server!Next]_(Server!vars)
  OBVIOUS
<1>1. ASSUME NEW w \in Workers, PreparePublish(w) \/ UploadRecord(w) \/ UploadFinish(w)
      PROVE  [Server!Next]_(Server!vars)
  BY <1>1, PromiseGrant, PromiseStore, PromiseFinish
<1>2. ASSUME NEW w \in Workers, PrepareInstall(w) \/ PrepareDrop(w) \/ CancelMark(w) \/ PrepareEntry(w)
      PROVE  [Server!Next]_(Server!vars)
  BY <1>2, PromiseSlot, PromiseEntry
<1>3. ASSUME \/ \E w \in Workers :
                  \/ PrepareArrive(w) \/ PrepareMismatch(w) \/ PreparePrompt(w) \/ PrepareRejected(w)
                  \/ UploadValidate(w) \/ UploadOpen(w) \/ UploadOpenFails(w) \/ UploadChunk(w)
                  \/ UploadStopped(w) \/ UploadBreaks(w) \/ UploadEnd(w) \/ UploadCanceled(w)
                  \/ UploadFailed(w) \/ UploadReport(w) \/ CancelFlag(w)
             \/ Ui \/ UserClear \/ IdleTimeout \/ UNCHANGED vars
             \/ \E s \in Sessions : UserAnswer(s) \/ UserCancel(s)
      PROVE  [Server!Next]_(Server!vars)
  BY <1>3, PromiseOthers
<1>4. QED
  BY <1>1, <1>2, <1>3 DEF Next, Prepare, Upload

\* Whatever the threads, the user and the other senders do, a sender sees the
\* receiver that Sending is checked against: tokens once, 200 only for a file
\* that is kept, and a session that ends with the last of its files unless its
\* count is muddled (ReceiverPromise: HandlePrepareUpload, HandleUpload,
\* HandleCancel).
THEOREM ReceiverTheorem == Spec => ReceiverPromise
<1>1. Init => Server!Init
  BY DEF Init, Server!Init, Holder, Uncounted, Muddled, Given, Granted, Stored, Received, Ids, Recorded
<1>2. StructInv /\ CleanInv /\ CountInv /\ [Next]_vars => [Server!Next]_(Server!vars)
  BY PromiseNext
<1>3. Spec => [](StructInv /\ CleanInv /\ CountInv)
  BY StructInit, StructNext, CleanInit, CleanNext, CountInit, CountNext, PTL DEF Spec
<1>4. QED
  BY <1>1, <1>2, <1>3, PTL DEF Spec, ReceiverPromise, Server!Spec
=============================================================================
