-------------------------- MODULE DiscoveryProofs --------------------------
(***************************************************************************)
(* The safety properties of Discovery for any number of hosts and workers  *)
(* and any times.  TimeInv ties the ages to the place of the loop: a turn  *)
(* of it starts with every age within its limit, and only a register call  *)
(* makes it last.  ScanInv says who has the addresses not asked yet.       *)
(***************************************************************************)
EXTENDS Discovery, TLAPS

LEMMA ConstantFacts ==
  /\ Hosts \in Nat \ {0} /\ IsFiniteSet(Workers) /\ Workers # {}
  /\ Expiry \in Nat /\ Cleanup \in Nat \ {0} /\ Interval \in Nat \ {0} /\ MaxCall \in Nat
BY TimesAssumption, ScanAssumption

LEMMA TypeInit == Init => TypeOK
<1> SUFFICES ASSUME Init PROVE TypeOK
  OBVIOUS
<1> USE ConstantFacts DEF Init
<1>1. lastSeen \in [Peers -> Ages] /\ heard \in [Peers -> Ages]
  BY DEF Ages, Oldest
<1>2. index \in 1..(Hosts + 1)
  OBVIOUS
<1>3. probing \in [Workers -> Tasks] /\ stray \in [Workers -> Tasks]
  BY DEF Tasks, Idle
<1>4. from \in (IF pc = "respond" THEN Peers ELSE {0})
  OBVIOUS
<1>5. calling \in 0..MaxCall
  OBVIOUS
<1> QED BY <1>1, <1>2, <1>3, <1>4, <1>5 DEF TypeOK

LEMMA AddType ==
  ASSUME TypeOK, NEW p \in Peers, AddOrUpdate(p)
  PROVE  /\ listed' \subseteq Peers /\ late' \subseteq Peers
         /\ lastSeen' \in [Peers -> Ages] /\ heard' \in [Peers -> Ages]
BY ConstantFacts DEF AddOrUpdate, TypeOK, Ages, Oldest

LEMMA TickType ==
  ASSUME TypeOK, NEW f \in [Peers -> Ages], NEW S
  PROVE  [p \in Peers |-> IF p \in S THEN Older(f[p], Oldest) ELSE 0] \in [Peers -> Ages]
BY ConstantFacts DEF Ages, Oldest, Older

\* One step keeps the types.
LEMMA TypeStep == TypeOK /\ [Next]_vars => TypeOK'
<1> SUFFICES ASSUME TypeOK, [Next]_vars PROVE TypeOK'
  OBVIOUS
<1> USE ConstantFacts
<1>1. CASE Loop
  <2> USE DEF table, loop, request, scanning, Goto
  <2>1. CASE RespondOk
    <3>0. from \in Peers
      BY <2>1 DEF RespondOk, TypeOK
    <3>1. /\ listed' \subseteq Peers /\ late' \subseteq Peers
          /\ lastSeen' \in [Peers -> Ages] /\ heard' \in [Peers -> Ages]
      BY <3>0, <2>1, AddType DEF RespondOk
    <3> QED BY <3>1, <2>1 DEF RespondOk, TypeOK
  <2>2. CASE ReceiveNothing \/ RespondByUdp
    BY <2>2 DEF ReceiveNothing, RespondByUdp, TypeOK
  <2>3. CASE Announce
    BY <2>3 DEF Announce, TypeOK
  <2>4. CASE StartFails \/ DropScan \/ NoScan
    BY <2>4 DEF StartFails, DropScan, NoScan, TypeOK
  <2>5. CASE Collect
    BY <2>5 DEF Collect, TypeOK
  <2>6. CASE CleanupDue
    <3>1. pc' = "expire" /\ from = 0
      BY <2>6 DEF CleanupDue, TypeOK
    <3> QED BY <3>1, <2>6 DEF CleanupDue, TypeOK
  <2>9. CASE CleanupNotDue
    BY <2>9 DEF CleanupNotDue, TypeOK
  <2>7. CASE Expire
    BY <2>7 DEF Expire, RemoveExpired, TypeOK
  <2>8. ASSUME NEW ws \in (SUBSET Workers) \ {{}}, NEW nothing \in BOOLEAN, StartScan(ws, nothing)
        PROVE  TypeOK'
    <3>1. probing' \in [Workers -> Tasks]
      BY <2>8 DEF StartScan, Tasks
    <3>2. spoiled' \in BOOLEAN
      BY <2>8 DEF StartScan
    <3>3. unasked' \subseteq Peers /\ index' \in 1..(Hosts + 1)
      BY <2>8 DEF StartScan
    <3>4. pc' = "collect" /\ from = 0
      BY <2>8 DEF StartScan, TypeOK
    <3> QED BY <3>1, <3>2, <3>3, <3>4, <2>8 DEF StartScan, TypeOK
  <2> QED BY <1>1, <2>1, <2>2, <2>3, <2>4, <2>5, <2>6, <2>7, <2>8, <2>9 DEF Loop
<1>2. CASE ScanEnds \/ ScanTimesOut
  <2>1. Idle \in [Workers -> Tasks]
    BY DEF Idle, Tasks
  <2>2. index' \in 1..(Hosts + 1)
    BY <1>2 DEF ScanEnds, ScanTimesOut
  <2> QED BY <1>2, <2>1, <2>2 DEF ScanEnds, ScanTimesOut, TypeOK, table, loop, request
<1>3. CASE Refresh
  BY <1>3 DEF Refresh, TypeOK, table, scanning
<1>4. CASE Tick
  <2>1. lastSeen' \in [Peers -> Ages] /\ heard' \in [Peers -> Ages]
    BY <1>4, TickType DEF Tick, TypeOK
  <2>2. calling' \in 0..MaxCall /\ lastAnnounce' \in Nat /\ lastCleanup' \in Nat
    BY <1>4 DEF Tick, TypeOK
  <2> QED BY <2>1, <2>2, <1>4 DEF Tick, TypeOK, request, scanning
<1>5. ASSUME NEW p \in Peers, HttpRegister(p) PROVE TypeOK'
  <2>1. /\ listed' \subseteq Peers /\ late' \subseteq Peers
        /\ lastSeen' \in [Peers -> Ages] /\ heard' \in [Peers -> Ages]
    BY <1>5, AddType DEF HttpRegister
  <2> QED BY <2>1, <1>5 DEF HttpRegister, TypeOK, loop, request, scanning
<1>6. ASSUME NEW p \in Peers, NEW asks \in BOOLEAN, Receive(p, asks) PROVE TypeOK'
  <2>1. /\ listed' \subseteq Peers /\ late' \subseteq Peers
        /\ lastSeen' \in [Peers -> Ages] /\ heard' \in [Peers -> Ages]
    BY <1>6, AddType DEF Receive
  <2> QED BY <2>1, <1>6 DEF Receive, Goto, TypeOK, request, scanning
<1>7. ASSUME NEW w \in Workers, Worker(w) PROVE TypeOK'
  <2>1. CASE Take(w)
    BY <2>1 DEF Take, TypeOK, Tasks, Gone, Taking, Peers, table, loop, request
  <2>2. ASSUME NEW found \in BOOLEAN, Probe(w, found) PROVE TypeOK'
    <3>1. /\ listed' \subseteq Peers /\ late' \subseteq Peers
          /\ lastSeen' \in [Peers -> Ages] /\ heard' \in [Peers -> Ages]
      BY <2>2, AddType DEF Probe, table, TypeOK
    <3> QED BY <3>1, <2>2 DEF Probe, TypeOK, Tasks, loop, request
  <2> QED BY <1>7, <2>1, <2>2 DEF Worker
<1>8. ASSUME NEW w \in Workers, Stray(w) PROVE TypeOK'
  <2>1. CASE StrayReads(w)
    BY <2>1 DEF StrayReads, TypeOK, Tasks, table, loop, request
  <2>2. CASE StrayTakes(w)
    BY <2>2 DEF StrayTakes, TypeOK, Tasks, Peers, table, loop, request
  <2>3. ASSUME NEW found \in BOOLEAN, StrayProbes(w, found) PROVE TypeOK'
    <3>1. /\ listed' \subseteq Peers /\ late' \subseteq Peers
          /\ lastSeen' \in [Peers -> Ages] /\ heard' \in [Peers -> Ages]
      BY <2>3, AddType DEF StrayProbes, table, TypeOK
    <3> QED BY <3>1, <2>3 DEF StrayProbes, TypeOK, Tasks, loop, request
  <2> QED BY <1>8, <2>1, <2>2, <2>3 DEF Stray
<1>9. CASE UNCHANGED vars
  BY <1>9 DEF vars, table, loop, request, scanning, TypeOK
<1> QED BY <1>1, <1>2, <1>3, <1>4, <1>5, <1>6, <1>7, <1>8, <1>9 DEF Next

\* Every variable of discovery keeps its type.
\* (the members of DiscoveryService, DeviceManager and ScanJob)
THEOREM TypeCorrect == Spec => []TypeOK
BY TypeInit, TypeStep, PTL DEF Spec

---------------------------------------------------------------------------
(* What the table knows of a device is when it was last heard.             *)

SeenInv == heard = lastSeen

LEMMA SeenStep == TypeOK /\ SeenInv /\ [Next]_vars => SeenInv'
<1> SUFFICES ASSUME TypeOK, SeenInv, [Next]_vars PROVE SeenInv'
  OBVIOUS
<1> USE DEF SeenInv, table
<1>1. ASSUME NEW p, AddOrUpdate(p) PROVE SeenInv'
  BY <1>1 DEF AddOrUpdate
<1>2. CASE Loop
  BY <1>1, <1>2 DEF Loop, ReceiveNothing, RespondOk, RespondByUdp, Announce,
     DropScan, NoScan, StartFails, StartScan, Collect, CleanupDue, CleanupNotDue,
     Expire, RemoveExpired
<1>3. CASE ScanEnds \/ ScanTimesOut \/ Refresh
  BY <1>3 DEF ScanEnds, ScanTimesOut, Refresh
<1>4. CASE Tick
  BY <1>4 DEF Tick
<1>5. ASSUME NEW p \in Peers, HttpRegister(p) \/ \E asks \in BOOLEAN : Receive(p, asks)
      PROVE  SeenInv'
  BY <1>1, <1>5 DEF HttpRegister, Receive
<1>6. ASSUME NEW w \in Workers, Worker(w) \/ Stray(w) PROVE SeenInv'
  BY <1>1, <1>6 DEF Worker, Take, Probe, Stray, StrayReads, StrayTakes, StrayProbes
<1>7. CASE UNCHANGED vars
  BY <1>7 DEF vars
<1> QED BY <1>2, <1>3, <1>4, <1>5, <1>6, <1>7 DEF Next

\* Only RemoveExpired takes a device off the list.
LEMMA ListedStep ==
  ASSUME TypeOK, [Next]_vars, ~Expire
  PROVE  listed \subseteq listed'
<1> USE DEF table
<1>1. ASSUME NEW p, AddOrUpdate(p) PROVE listed \subseteq listed'
  BY <1>1 DEF AddOrUpdate
<1>2. CASE Loop
  BY <1>1, <1>2 DEF Loop, ReceiveNothing, RespondOk, RespondByUdp, Announce,
     DropScan, NoScan, StartFails, StartScan, Collect, CleanupDue, CleanupNotDue
<1>3. CASE ScanEnds \/ ScanTimesOut \/ Refresh \/ Tick
  BY <1>3 DEF ScanEnds, ScanTimesOut, Refresh, Tick
<1>5. ASSUME NEW p \in Peers, HttpRegister(p) \/ \E asks \in BOOLEAN : Receive(p, asks)
      PROVE  listed \subseteq listed'
  BY <1>1, <1>5 DEF HttpRegister, Receive
<1>6. ASSUME NEW w \in Workers, Worker(w) \/ Stray(w) PROVE listed \subseteq listed'
  BY <1>1, <1>6 DEF Worker, Take, Probe, Stray, StrayReads, StrayTakes, StrayProbes
<1>7. CASE UNCHANGED vars
  BY <1>7 DEF vars
<1> QED BY <1>2, <1>3, <1>5, <1>6, <1>7 DEF Next

\* A device leaves the list only when it has been quiet for the expiry time,
\* or was heard just while RemoveExpired waited for the lock.
\* (DeviceManager::RemoveExpired)
THEOREM QuietOnlyTheorem == Spec => QuietOnly
<1> DEFINE Quiet == \A p \in listed \ listed' : heard[p] > Expiry \/ p \in late
<1>1. Init => SeenInv
  BY DEF Init, SeenInv
<1>2. ASSUME TypeOK, SeenInv, [Next]_vars PROVE [Quiet]_vars
  <2>1. CASE Expire
    BY <2>1, <1>2 DEF Expire, RemoveExpired, Expired, SeenInv
  <2>2. CASE ~Expire
    BY <2>2, <1>2, ListedStep
  <2> QED BY <2>1, <2>2
<1>3. TypeOK /\ SeenInv /\ [Next]_vars => [Quiet]_vars
  BY <1>2
<1> QED BY <1>1, <1>3, SeenStep, TypeInit, TypeStep, PTL DEF Spec, QuietOnly

---------------------------------------------------------------------------
(* Time: each limit at the place of the loop, and the age of a device      *)
(* against the age of the last cleanup.                                    *)

\* age is below limit when a turn ends, and grows by the one Tick that may
\* follow and by those of a register call.
Limited(age, limit) ==
  /\ pc = "receive" => age <= limit /\ (turned => age < limit)
  /\ pc = "respond" => age <= limit + calling
  /\ age <= limit + MaxCall

SeenLimited ==
  \A p \in listed : IF pc = "expire" THEN heard[p] <= Expiry + Cleanup + MaxCall
                                    ELSE heard[p] <= Expiry + lastCleanup

TimeInv ==
  /\ pc # "respond" => calling = 0
  /\ Limited(lastAnnounce, Interval)
  /\ pc \in {"scan", "collect", "cleanup", "expire"} => lastAnnounce < Interval
  /\ Limited(lastCleanup, Cleanup)
  /\ pc = "expire" => lastCleanup = 0
  /\ SeenLimited

\* What every step that does not move the loop leaves alone.
LEMMA TimeAside ==
  ASSUME TypeOK, TimeInv,
         UNCHANGED <<pc, calling, turned, lastCleanup>>,
         lastAnnounce' \in {0, lastAnnounce},
         \A p \in listed' : heard'[p] = 0 \/ (p \in listed /\ heard'[p] = heard[p])
  PROVE  TimeInv'
<1> USE ConstantFacts
<1>1. Limited(lastAnnounce, Interval)' /\ Limited(lastCleanup, Cleanup)'
  BY DEF TimeInv, Limited, TypeOK
<1>2. SeenLimited'
  BY DEF TimeInv, SeenLimited, TypeOK
<1>3. pc' \in {"scan", "collect", "cleanup", "expire"} => lastAnnounce' < Interval
  BY DEF TimeInv, TypeOK
<1> QED BY <1>1, <1>2, <1>3 DEF TimeInv

LEMMA AddHeard ==
  ASSUME TypeOK, NEW p \in Peers, AddOrUpdate(p)
  PROVE  \A q \in listed' : heard'[q] = 0 \/ (q \in listed /\ heard'[q] = heard[q])
BY DEF AddOrUpdate, TypeOK

LEMMA TimeStep == TypeOK /\ SeenInv /\ TimeInv /\ [Next]_vars => TimeInv'
<1> SUFFICES ASSUME TypeOK, SeenInv, TimeInv, [Next]_vars PROVE TimeInv'
  OBVIOUS
<1> USE ConstantFacts
<1> USE DEF table, loop, request, scanning
<1>1. CASE Loop
  <2>1. CASE ReceiveNothing
    BY <2>1 DEF ReceiveNothing, Goto, TimeInv, Limited, SeenLimited, TypeOK
  <2>2. CASE RespondOk \/ RespondByUdp
    <3>1. \A q \in listed' : heard'[q] = 0 \/ (q \in listed /\ heard'[q] = heard[q])
      BY <2>2, AddHeard DEF RespondOk, RespondByUdp, TypeOK
    <3>2. /\ pc = "respond" /\ pc' = "announce" /\ calling' = 0
          /\ UNCHANGED <<lastAnnounce, lastCleanup>>
      BY <2>2 DEF RespondOk, RespondByUdp, Goto
    <3>3. SeenLimited'
      BY <3>1, <3>2 DEF TimeInv, SeenLimited, TypeOK
    <3> QED BY <3>2, <3>3 DEF TimeInv, Limited, TypeOK
  <2>3. CASE Announce
    <3>1. pc' = "scan" /\ pc = "announce" /\ lastAnnounce' < Interval
      BY <2>3 DEF Announce, Goto, TypeOK
    <3>2. SeenLimited'
      BY <2>3, <3>1 DEF Announce, TimeInv, SeenLimited
    <3> QED BY <2>3, <3>1, <3>2 DEF Announce, TimeInv, Limited, TypeOK
  <2>4. CASE StartFails \/ DropScan \/ NoScan
    BY <2>4 DEF StartFails, DropScan, NoScan, Goto, TimeInv, Limited, SeenLimited, TypeOK
  <2>5. CASE Collect
    BY <2>5 DEF Collect, Goto, TimeInv, Limited, SeenLimited, TypeOK
  <2>6. CASE CleanupDue
    <3>1. /\ pc' = "expire" /\ pc = "cleanup" /\ lastCleanup' = 0
          /\ UNCHANGED <<calling, lastAnnounce, listed, heard>>
      BY <2>6 DEF CleanupDue, Goto
    <3>2. SeenLimited'
      <4> SUFFICES ASSUME NEW p \in listed PROVE heard[p] <= Expiry + Cleanup + MaxCall
        BY <3>1 DEF SeenLimited
      <4>1. heard[p] <= Expiry + lastCleanup /\ heard[p] \in Nat
        BY <3>1 DEF TimeInv, SeenLimited, TypeOK, Ages, Oldest
      <4> QED BY <4>1 DEF TimeInv, Limited, TypeOK
    <3> QED BY <3>1, <3>2 DEF TimeInv, Limited, TypeOK
  <2>7. CASE CleanupNotDue
    BY <2>7 DEF CleanupNotDue, Goto, TimeInv, Limited, SeenLimited, TypeOK
  <2>8. CASE Expire
    <3>1. /\ pc' = "receive" /\ pc = "expire" /\ UNCHANGED <<calling, lastAnnounce, lastCleanup>>
          /\ lastCleanup = 0
      BY <2>8 DEF Expire, Goto, TimeInv
    <3>2. SeenLimited'
      <4> SUFFICES ASSUME NEW p \in listed' PROVE heard'[p] <= Expiry
        BY <3>1 DEF SeenLimited
      <4>1. p \in listed /\ ~(lastSeen[p] > Expiry) /\ heard'[p] = lastSeen[p]
        BY <2>8 DEF Expire, RemoveExpired, Expired, SeenInv
      <4>2. lastSeen[p] \in Nat
        BY <4>1 DEF TypeOK, Ages, Oldest
      <4> QED BY <4>1, <4>2
    <3> QED BY <3>1, <3>2 DEF TimeInv, Limited, TypeOK
  <2>9. ASSUME NEW ws \in (SUBSET Workers) \ {{}}, NEW nothing \in BOOLEAN, StartScan(ws, nothing)
        PROVE  TimeInv'
    BY <2>9 DEF StartScan, Goto, TimeInv, Limited, SeenLimited, TypeOK
  <2> QED BY <1>1, <2>1, <2>2, <2>3, <2>4, <2>5, <2>6, <2>7, <2>8, <2>9 DEF Loop
<1>2. CASE ScanEnds \/ ScanTimesOut \/ Refresh \/ UNCHANGED vars
  BY <1>2, TimeAside DEF ScanEnds, ScanTimesOut, Refresh, vars
<1>3. CASE Tick
  <2>1. /\ lastAnnounce' = lastAnnounce + 1 /\ lastCleanup' = lastCleanup + 1
        /\ pc' = pc /\ turned' = FALSE /\ listed' = listed
        /\ \/ pc = "receive" /\ turned /\ calling' = calling
           \/ pc = "respond" /\ calling < MaxCall /\ calling' = calling + 1
    BY <1>3 DEF Tick
  <2>2. Limited(lastAnnounce, Interval)' /\ Limited(lastCleanup, Cleanup)'
    BY <2>1 DEF TimeInv, Limited, TypeOK
  <2>3. SeenLimited'
    <3> SUFFICES ASSUME NEW p \in listed PROVE heard'[p] <= Expiry + lastCleanup + 1
      BY <2>1 DEF SeenLimited, TypeOK
    <3>1. heard'[p] = Older(heard[p], Oldest) /\ heard[p] \in Nat
      BY <1>3 DEF Tick, TypeOK, Ages, Oldest
    <3>2. heard'[p] <= heard[p] + 1
      BY <3>1 DEF Older, Oldest
    <3>3. heard[p] <= Expiry + lastCleanup
      BY <2>1 DEF TimeInv, SeenLimited
    <3> QED BY <3>1, <3>2, <3>3 DEF Older, Oldest, TypeOK
  <2> QED BY <2>1, <2>2, <2>3 DEF TimeInv
<1>4. ASSUME NEW p \in Peers, HttpRegister(p) PROVE TimeInv'
  BY <1>4, AddHeard, TimeAside DEF HttpRegister
<1>5. ASSUME NEW p \in Peers, NEW asks \in BOOLEAN, Receive(p, asks) PROVE TimeInv'
  <2>1. \A q \in listed' : heard'[q] = 0 \/ (q \in listed /\ heard'[q] = heard[q])
    BY <1>5, AddHeard DEF Receive
  <2>2. /\ pc = "receive" /\ pc' \in {"respond", "announce"}
        /\ UNCHANGED <<calling, lastAnnounce, lastCleanup>>
    BY <1>5 DEF Receive, Goto
  <2>3. SeenLimited'
    BY <2>1, <2>2 DEF TimeInv, SeenLimited, TypeOK
  <2> QED BY <2>2, <2>3 DEF TimeInv, Limited, TypeOK
<1>6. ASSUME NEW w \in Workers, Worker(w) \/ Stray(w) PROVE TimeInv'
  <2>1. UNCHANGED loop
    BY <1>6 DEF Worker, Take, Probe, Stray, StrayReads, StrayTakes, StrayProbes
  <2>2. UNCHANGED table \/ \E p \in Peers : AddOrUpdate(p)
    BY <1>6 DEF Worker, Take, Probe, Stray, StrayReads, StrayTakes, StrayProbes
  <2> QED BY <2>1, <2>2, AddHeard, TimeAside
<1> QED BY <1>1, <1>2, <1>3, <1>4, <1>5, <1>6 DEF Next

LEMMA TimeInit == Init => SeenInv /\ TimeInv
BY ConstantFacts DEF Init, SeenInv, TimeInv, Limited, SeenLimited

LEMMA TimeCorrect == Spec => [](TypeOK /\ TimeInv)
BY TypeInit, TypeStep, SeenStep, TimeInit, TimeStep, PTL DEF Spec

\* A device that is quiet is off the list one cleanup and one register call
\* after its expiry at the latest.  (DeviceManager::RemoveExpired)
THEOREM QuietGoneTheorem == Spec => []QuietGone
<1>1. TypeOK /\ TimeInv => QuietGone
  <2> SUFFICES ASSUME TypeOK, TimeInv, NEW p \in listed
               PROVE  heard[p] <= Expiry + Cleanup + MaxCall
    BY DEF QuietGone
  <2>1. heard[p] \in Nat
    BY ConstantFacts DEF TypeOK, Ages, Oldest
  <2> QED BY <2>1, ConstantFacts DEF TimeInv, SeenLimited, Limited, TypeOK
<1> QED BY <1>1, TimeCorrect, PTL

\* An announcement is late by no more than a register call.
\* (DiscoveryService::Run)
THEOREM AnnouncedTheorem == Spec => []AnnouncedInTime
<1>1. TypeOK /\ TimeInv => AnnouncedInTime
  BY DEF TimeInv, Limited, AnnouncedInTime
<1> QED BY <1>1, TimeCorrect, PTL

---------------------------------------------------------------------------
(* The scan: an address not asked yet is still to be given out, or a       *)
(* worker has it; and somebody is left to take what is to be given out.    *)

Shared ==
  /\ stray = Idle
  /\ \A p \in unasked : p >= index \/ \E w \in Workers : probing[w] = p
  /\ unasked = {} \/ index > Hosts \/ \E w \in Workers : probing[w] # Gone

ScanInv ==
  /\ scan = "running" /\ ~spoiled => Shared
  /\ scan = "over" /\ ~spoiled => unasked = {}

LEMMA ScanStep == TypeOK /\ ScanInv /\ [Next]_vars => ScanInv'
<1> SUFFICES ASSUME TypeOK, ScanInv, [Next]_vars PROVE ScanInv'
  OBVIOUS
<1> USE ConstantFacts
<1> USE DEF table, loop, request, scanning
<1>0. ASSUME UNCHANGED scanning PROVE ScanInv'
  BY <1>0 DEF ScanInv, Shared
<1>1. CASE Loop
  <2>1. CASE Collect
    BY <2>1 DEF Collect, ScanInv, Shared
  <2>2. ASSUME NEW ws \in (SUBSET Workers) \ {{}}, NEW nothing \in BOOLEAN, StartScan(ws, nothing)
        PROVE  ScanInv'
    <3>1. scan' = "running" /\ index' = 1 /\ stray' = stray /\ (~spoiled' => stray = Idle)
      BY <2>2 DEF StartScan
    <3>2. unasked' = {} \/ (unasked' = Peers /\ \E w \in Workers : probing'[w] # Gone)
      <4>0. ws \subseteq Workers /\ ws # {}
        BY <2>2
      <4>1. PICK w \in Workers : w \in ws
        BY <4>0
      <4>2. Taking # Gone
        BY DEF Taking, Gone
      <4>3. ASSUME ~nothing PROVE unasked' = Peers /\ probing'[w] = Taking
        BY <2>2, <4>1, <4>3 DEF StartScan
      <4>4. ASSUME nothing PROVE unasked' = {}
        BY <2>2, <4>4 DEF StartScan
      <4> QED BY <4>2, <4>3, <4>4
    <3>3. \A p \in unasked' : p >= index'
      BY <3>1, <3>2 DEF Peers
    <3> QED BY <3>1, <3>2, <3>3 DEF ScanInv, Shared, Idle
  <2> QED BY <1>0, <1>1, <2>1, <2>2 DEF Loop, ReceiveNothing, RespondOk, RespondByUdp,
        Announce, StartFails, DropScan, NoScan, CleanupDue, CleanupNotDue, Expire
<1>2. CASE ScanEnds
  <2>1. ~spoiled => unasked = {}
    BY <1>2 DEF ScanEnds, ScanInv, Shared, Idle, Gone, TypeOK, Peers
  <2> QED BY <2>1, <1>2 DEF ScanEnds, ScanInv
<1>3. CASE ScanTimesOut
  BY <1>3 DEF ScanTimesOut, ScanInv
<1>4. ASSUME NEW w \in Workers, Take(w) PROVE ScanInv'
  <2>1. /\ UNCHANGED <<scan, stray, unasked, spoiled>> /\ probing[w] = Taking
        /\ probing' = [probing EXCEPT ![w] = IF index <= Hosts THEN index ELSE Gone]
        /\ index' = IF index <= Hosts THEN index + 1 ELSE index
    BY <1>4 DEF Take
  <2>2. ASSUME Shared PROVE Shared'
    <3>1. ASSUME NEW p \in unasked PROVE p >= index' \/ \E v \in Workers : probing'[v] = p
      <4>0. p \in 1..Hosts /\ index \in 1..(Hosts + 1) /\ probing \in [Workers -> Tasks]
        BY DEF TypeOK, Peers
      <4>1. CASE p >= index
        <5>1. CASE p = index
          BY <5>1, <4>0, <2>1
        <5>2. CASE p > index
          BY <5>2, <4>0, <2>1
        <5> QED BY <4>1, <5>1, <5>2, <4>0
      <4>2. ASSUME NEW v \in Workers, probing[v] = p PROVE probing'[v] = p
        <5>1. v # w
          BY <4>0, <4>2, <2>1 DEF Taking
        <5> QED BY <5>1, <4>0, <4>2, <2>1
      <4> QED BY <4>1, <4>2, <2>2 DEF Shared
    <3>2. unasked' = {} \/ index' > Hosts \/ \E v \in Workers : probing'[v] # Gone
      <4>1. CASE index <= Hosts
        <5>1. probing'[w] = index /\ index # Gone
          BY <4>1, <2>1 DEF TypeOK, Gone
        <5> QED BY <5>1
      <4>2. CASE ~(index <= Hosts)
        BY <4>2, <2>1 DEF TypeOK
      <4> QED BY <4>1, <4>2
    <3> QED BY <3>1, <3>2, <2>1, <2>2 DEF Shared, Idle
  <2> QED BY <2>1, <2>2 DEF ScanInv
<1>5. ASSUME NEW w \in Workers, NEW found \in BOOLEAN, Probe(w, found) PROVE ScanInv'
  <2>1. /\ UNCHANGED <<scan, index, stray, spoiled>>
        /\ unasked' = unasked \ {probing[w]}
        /\ probing' = [probing EXCEPT ![w] = Taking]
    BY <1>5 DEF Probe
  <2>2. ASSUME Shared PROVE Shared'
    <3>1. probing'[w] # Gone
      BY <2>1 DEF TypeOK, Taking, Gone
    <3>2. ASSUME NEW p \in unasked', NEW v \in Workers, probing[v] = p PROVE probing'[v] = p
      BY <3>2, <2>1 DEF TypeOK
    <3> QED BY <3>1, <3>2, <2>1, <2>2 DEF Shared, Idle
  <2> QED BY <2>1, <2>2 DEF ScanInv
<1>6. ASSUME NEW w \in Workers, Stray(w) PROVE ScanInv'
  <2>1. stray # Idle /\ UNCHANGED <<scan, unasked, spoiled>>
    BY <1>6 DEF Stray, StrayReads, StrayTakes, StrayProbes, Idle, Gone, Taking, Peers
  <2> QED BY <2>1 DEF ScanInv, Shared
<1>7. CASE Refresh \/ Tick \/ UNCHANGED vars
  BY <1>0, <1>7 DEF Refresh, Tick, vars
<1>8. ASSUME NEW p \in Peers, HttpRegister(p) \/ \E asks \in BOOLEAN : Receive(p, asks)
      PROVE  ScanInv'
  BY <1>0, <1>8 DEF HttpRegister, Receive
<1> QED BY <1>1, <1>2, <1>3, <1>4, <1>5, <1>6, <1>7, <1>8 DEF Next, Worker

\* A scan that ended in time, not disturbed by the workers of an earlier one,
\* has asked every address.  (DiscoveryService::RunScan, ScanWorker)
THEOREM ScanTheorem == Spec => []ScanComplete
<1>1. Init => ScanInv
  BY DEF Init, ScanInv
<1>2. ScanInv => ScanComplete
  BY DEF ScanInv, ScanComplete
<1> QED BY <1>1, <1>2, ScanStep, TypeInit, TypeStep, PTL DEF Spec
=============================================================================
