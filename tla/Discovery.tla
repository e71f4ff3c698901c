----------------------------- MODULE Discovery -----------------------------
(***************************************************************************)
(* Device discovery: the loop of the discovery thread, the subnet scan     *)
(* with its worker threads (src/protocol/discovery.cpp), the device table  *)
(* (src/core/device.cpp), the requests of other devices that the HTTP      *)
(* server registers (src/protocol/register.cpp), and Refresh.              *)
(*                                                                         *)
(* Time is counted in units, of 15 seconds in the program, and kept as     *)
(* ages: how long ago something was.  A turn of the loop takes less than a *)
(* unit unless it waits for the answer to a register call, which it does   *)
(* for MaxCall units at most.  A datagram of our own or one that cannot be *)
(* parsed changes nothing.  Not modelled: Start and Stop, the data of a    *)
(* device, AnnounceNow at startup.                                         *)
(***************************************************************************)
EXTENDS Naturals, FiniteSets

CONSTANTS
  Hosts,     \* addresses of the subnet: 1..Hosts
  Workers,   \* threads of a scan (kScanThreads)
  Expiry,    \* kDeviceExpiryMs
  Cleanup,   \* 15 seconds
  Interval,  \* announceIntervalSec
  MaxCall    \* connect and answer timeouts of a register call

ASSUME TimesAssumption ==
  Expiry \in Nat /\ Cleanup \in Nat \ {0} /\ Interval \in Nat \ {0} /\ MaxCall \in Nat
ASSUME ScanAssumption == Hosts \in Nat \ {0} /\ IsFiniteSet(Workers) /\ Workers # {}

Peers == 1..Hosts

\* No age is told apart from a greater one beyond these.
Oldest == Expiry + Cleanup + MaxCall + 2
Ages   == 0..Oldest
Older(age, limit) == IF age < limit THEN age + 1 ELSE age

VARIABLES
  \* DeviceManager
  listed,        \* the devices in the table
  lastSeen,      \* the age of their lastSeen
  heard,         \* history variable: how long ago each was heard
  late,          \* devices whose lastSeen is later than RemoveExpired's now
  \* the discovery thread
  pc,            \* the next step of Run
  from,          \* the device it answers, 0 when none
  calling,       \* how long the register call has taken
  turned,        \* the loop has come round in this unit of time
  lastAnnounce,  \* the age of m_lastAnnounce
  lastCleanup,   \* the age of lastCleanup
  scanRequest,   \* m_scanRequest
  scanThread,    \* m_scanThread is set
  owed,          \* history variable: a Refresh while no scan was running, and
                 \* whether the handle of an earlier one was still kept
  \* the scan
  scan,          \* "idle", "running" or "over"
  index,         \* ScanJob::index
  probing,       \* what each worker does
  stray,         \* what a worker does that has outlived its scan
  unasked,       \* history variable: the addresses this scan has not asked
  spoiled        \* history variable: workers outlive this scan, or did an earlier one

table   == <<listed, lastSeen, heard, late>>
loop    == <<pc, from, calling, turned, lastAnnounce, lastCleanup>>
request == <<scanRequest, scanThread, owed>>
scanning == <<scan, index, probing, stray, unasked, spoiled>>
vars == <<table, loop, request, scanning>>

\* What a worker does: the address it asks, or one of these.
Gone   == 0
Taking == Hosts + 1
Idle   == [w \in Workers |-> Gone]

Init ==
  /\ listed = {} /\ late = {}
  /\ lastSeen = [p \in Peers |-> 0] /\ heard = [p \in Peers |-> 0]
  /\ pc = "receive" /\ from = 0 /\ calling = 0 /\ turned = FALSE
  /\ lastAnnounce = 0 /\ lastCleanup = 0
  /\ scanRequest = FALSE /\ scanThread = FALSE /\ owed = "no"
  /\ scan = "idle" /\ index = 1 /\ probing = Idle /\ stray = Idle
  /\ unasked = {} /\ spoiled = FALSE

---------------------------------------------------------------------------
(* The device table.                                                       *)

\* A mutant of AddOrUpdate: lastSeen of a known device is left alone.
AddOnly(p) ==
  /\ listed' = listed \cup {p}
  /\ lastSeen' = IF p \in listed THEN lastSeen ELSE [lastSeen EXCEPT ![p] = 0]
  /\ heard' = [heard EXCEPT ![p] = 0]
  /\ late' \in {late, IF pc = "expire" THEN late \cup {p} ELSE late}

\* Between the two steps of RemoveExpired the clock may have moved on.
AddOrUpdate(p) ==
  /\ listed' = listed \cup {p}
  /\ lastSeen' = [lastSeen EXCEPT ![p] = 0]
  /\ heard' = [heard EXCEPT ![p] = 0]
  /\ late' \in {late, IF pc = "expire" THEN late \cup {p} ELSE late}

\* now - lastSeen is unsigned: a lastSeen later than now is very old.
Expired(p) == lastSeen[p] > Expiry \/ p \in late

\* A mutant of RemoveExpired: the comparison is the other way round.
RemoveFresh ==
  /\ listed' = {p \in listed : Expired(p)}
  /\ late' = {}
  /\ UNCHANGED <<lastSeen, heard>>

RemoveExpired ==
  /\ listed' = {p \in listed : ~Expired(p)}
  /\ late' = {}
  /\ UNCHANGED <<lastSeen, heard>>

\* ServerHandler::HandleRegister and HandlePrepareUpload, on their threads.
HttpRegister(p) ==
  /\ AddOrUpdate(p)
  /\ UNCHANGED <<loop, request, scanning>>

---------------------------------------------------------------------------
(* The discovery thread.                                                   *)

Goto(next) ==
  /\ pc' = next
  /\ turned' = (next = "receive" \/ turned)

\* RecvFrom returns after 200 ms with nothing.
ReceiveNothing ==
  /\ pc = "receive"
  /\ Goto("announce")
  /\ UNCHANGED <<table, from, calling, lastAnnounce, lastCleanup, request, scanning>>

\* HandleDatagram; asks: the datagram wants an answer.
Receive(p, asks) ==
  /\ pc = "receive"
  /\ AddOrUpdate(p)
  /\ from' = IF asks THEN p ELSE 0
  /\ Goto(IF asks THEN "respond" ELSE "announce")
  /\ UNCHANGED <<calling, lastAnnounce, lastCleanup, request, scanning>>

\* RespondToAnnounce.
RespondOk ==
  /\ pc = "respond"
  /\ AddOrUpdate(from)
  /\ from' = 0 /\ calling' = 0
  /\ Goto("announce")
  /\ UNCHANGED <<lastAnnounce, lastCleanup, request, scanning>>

RespondByUdp ==
  /\ pc = "respond"
  /\ from' = 0 /\ calling' = 0
  /\ Goto("announce")
  /\ UNCHANGED <<table, lastAnnounce, lastCleanup, request, scanning>>

Announce ==
  /\ pc = "announce"
  /\ lastAnnounce' = IF lastAnnounce >= Interval THEN 0 ELSE lastAnnounce
  /\ Goto("scan")
  /\ UNCHANGED <<table, from, calling, lastCleanup, request, scanning>>

\* The scan thread creates as many workers as it can; without any it does
\* their work.  With no local address there is nothing to scan.
StartScan(ws, nothing) ==
  /\ pc = "scan" /\ scanRequest /\ ~scanThread
  /\ scanRequest' = FALSE /\ scanThread' = TRUE /\ owed' = "no"
  /\ scan' = "running"
  /\ index' = 1
  /\ unasked' = IF nothing THEN {} ELSE Peers
  /\ probing' = [w \in Workers |-> IF w \in ws /\ ~nothing THEN Taking ELSE Gone]
  /\ spoiled' = (stray # Idle)
  /\ Goto("collect")
  /\ UNCHANGED <<table, from, calling, lastAnnounce, lastCleanup, stray>>

\* The thread cannot be created: the Refresh is lost.
StartFails ==
  /\ pc = "scan" /\ scanRequest /\ ~scanThread
  /\ scanRequest' = FALSE /\ owed' = "no"
  /\ Goto("collect")
  /\ UNCHANGED <<table, from, calling, lastAnnounce, lastCleanup, scanThread, scanning>>

\* The request is taken also when the handle of a scan is still kept.
DropScan ==
  /\ pc = "scan" /\ scanRequest /\ scanThread
  /\ scanRequest' = FALSE
  /\ Goto("collect")
  /\ UNCHANGED <<table, from, calling, lastAnnounce, lastCleanup, scanThread, owed, scanning>>

\* A mutant of NoScan: it forgets a request that comes just then.
NoScanClears ==
  /\ pc = "scan"
  /\ scanRequest' = FALSE
  /\ Goto("collect")
  /\ UNCHANGED <<table, from, calling, lastAnnounce, lastCleanup, scanThread, owed, scanning>>

NoScan ==
  /\ pc = "scan" /\ ~scanRequest
  /\ Goto("collect")
  /\ UNCHANGED <<table, from, calling, lastAnnounce, lastCleanup, request, scanning>>

\* The handle of a scan that is over is closed.
Collect ==
  /\ pc = "collect"
  /\ scanThread' = (scanThread /\ scan # "over")
  /\ IF scan = "over" THEN scan' = "idle" /\ unasked' = {} /\ spoiled' = FALSE
                        ELSE UNCHANGED <<scan, unasked, spoiled>>
  /\ Goto("cleanup")
  /\ UNCHANGED <<table, from, calling, lastAnnounce, lastCleanup, scanRequest,
                 owed, index, probing, stray>>

\* RemoveExpired reads the clock before it takes the lock.
CleanupDue ==
  /\ pc = "cleanup" /\ lastCleanup >= Cleanup
  /\ lastCleanup' = 0
  /\ Goto("expire")
  /\ UNCHANGED <<table, from, calling, lastAnnounce, request, scanning>>

CleanupNotDue ==
  /\ pc = "cleanup" /\ lastCleanup < Cleanup
  /\ Goto("receive")
  /\ UNCHANGED <<table, from, calling, lastAnnounce, lastCleanup, request, scanning>>

Expire ==
  /\ pc = "expire"
  /\ RemoveExpired
  /\ Goto("receive")
  /\ UNCHANGED <<from, calling, lastAnnounce, lastCleanup, request, scanning>>

Loop ==
  \/ ReceiveNothing \/ RespondOk \/ RespondByUdp \/ Announce
  \/ DropScan \/ NoScan \/ Collect \/ CleanupDue \/ CleanupNotDue \/ Expire
  \/ StartFails
  \/ \E ws \in (SUBSET Workers) \ {{}}, nothing \in BOOLEAN : StartScan(ws, nothing)

---------------------------------------------------------------------------
(* The scan.                                                               *)

\* InterlockedIncrement gives a worker the next address, if there is one.
Take(w) ==
  /\ probing[w] = Taking
  /\ index' = IF index <= Hosts THEN index + 1 ELSE index
  /\ probing' = [probing EXCEPT ![w] = IF index <= Hosts THEN index ELSE Gone]
  /\ UNCHANGED <<table, loop, request, scan, stray, unasked, spoiled>>

\* SendRegister over HTTPS, then HTTP.
Probe(w, found) ==
  /\ probing[w] \in Peers
  /\ IF found THEN AddOrUpdate(probing[w]) ELSE UNCHANGED table
  /\ unasked' = unasked \ {probing[w]}
  /\ probing' = [probing EXCEPT ![w] = Taking]
  /\ UNCHANGED <<loop, request, scan, index, stray, spoiled>>

\* A mutant of ScanEnds: it waits for any of the workers.
ScanEndsWithOne ==
  /\ scan = "running" /\ \E w \in Workers : probing[w] = Gone
  /\ scan' = "over" /\ index' = 1 /\ probing' = Idle
  /\ UNCHANGED <<table, loop, request, stray, unasked, spoiled>>

\* WaitForMultipleObjects: all of them have ended.
ScanEnds ==
  /\ scan = "running" /\ probing = Idle
  /\ scan' = "over" /\ index' = 1
  /\ UNCHANGED <<table, loop, request, probing, stray, unasked, spoiled>>

\* RunScan waits for 60 seconds and returns: its workers go on with a job
\* that was on its stack.  Bound: one stray at a time.
ScanTimesOut ==
  /\ scan = "running" /\ stray = Idle
  /\ Cardinality({w \in Workers : probing[w] # Gone}) = 1
  /\ scan' = "over" /\ index' = 1 /\ spoiled' = TRUE
  /\ stray' = probing /\ probing' = Idle
  /\ UNCHANGED <<table, loop, request, unasked>>

StrayProbes(w, found) ==
  /\ stray[w] \in Peers
  /\ IF found THEN AddOrUpdate(stray[w]) ELSE UNCHANGED table
  /\ stray' = [stray EXCEPT ![w] = Taking]
  /\ UNCHANGED <<loop, request, scan, index, probing, unasked, spoiled>>

\* What it reads is no longer the job: it ends or asks some address, or it
\* takes one from a later scan, whose stack is at the same place.
StrayReads(w) ==
  /\ stray[w] = Taking
  /\ \E next \in Peers \cup {Gone} : stray' = [stray EXCEPT ![w] = next]
  /\ UNCHANGED <<table, loop, request, scan, index, probing, unasked, spoiled>>

StrayTakes(w) ==
  /\ stray[w] = Taking /\ scan = "running" /\ index <= Hosts
  /\ stray' = [stray EXCEPT ![w] = index]
  /\ index' = index + 1
  /\ UNCHANGED <<table, loop, request, scan, probing, unasked, spoiled>>

Worker(w) == Take(w) \/ \E found \in BOOLEAN : Probe(w, found)
Stray(w)  == StrayReads(w) \/ StrayTakes(w) \/ \E found \in BOOLEAN : StrayProbes(w, found)

---------------------------------------------------------------------------
(* The user and time.                                                      *)

\* RefreshDevices: AnnounceNow, then RequestScan.
Refresh ==
  /\ lastAnnounce' = 0
  /\ scanRequest' = TRUE
  /\ owed' = IF scan = "running" THEN owed
             ELSE IF ~scanThread \/ owed = "free" THEN "free" ELSE "kept"
  /\ UNCHANGED <<table, pc, from, calling, turned, lastCleanup, scanThread, scanning>>

\* Time passes when the loop waits: for a datagram, or for a call.
Tick ==
  /\ \/ pc = "receive" /\ turned
     \/ pc = "respond" /\ calling < MaxCall
  /\ turned' = FALSE
  /\ calling' = IF pc = "respond" THEN calling + 1 ELSE calling
  /\ lastSeen' = [p \in Peers |-> IF p \in listed THEN Older(lastSeen[p], Oldest) ELSE 0]
  /\ heard' = [p \in Peers |-> IF p \in listed THEN Older(heard[p], Oldest) ELSE 0]
  /\ lastAnnounce' = lastAnnounce + 1
  /\ lastCleanup' = lastCleanup + 1
  /\ UNCHANGED <<listed, late, pc, from, request, scanning>>

Next ==
  \/ Loop \/ ScanEnds \/ ScanTimesOut \/ Refresh \/ Tick
  \/ \E p \in Peers : HttpRegister(p) \/ \E asks \in BOOLEAN : Receive(p, asks)
  \/ \E w \in Workers : Worker(w) \/ Stray(w)

Spec == Init /\ [][Next]_vars

\* The threads are scheduled; every wait of theirs has a timeout.
FairSpec ==
  /\ Spec
  /\ WF_vars(Loop) /\ WF_vars(ScanEnds)
  /\ \A w \in Workers : WF_vars(Worker(w))

---------------------------------------------------------------------------
(* Properties.                                                             *)

Tasks == Peers \cup {Gone, Taking}
\* lastSeen, m_lastAnnounce, lastCleanup, m_scanRequest, m_scanThread.
TypeOK ==
  /\ listed \subseteq Peers /\ late \subseteq Peers
  /\ lastSeen \in [Peers -> Ages] /\ heard \in [Peers -> Ages]
  /\ pc \in {"receive", "respond", "announce", "scan", "collect", "cleanup", "expire"}
  /\ from \in (IF pc = "respond" THEN Peers ELSE {0})
  /\ calling \in 0..MaxCall /\ turned \in BOOLEAN
  /\ lastAnnounce \in Nat /\ lastCleanup \in Nat
  /\ scanRequest \in BOOLEAN /\ scanThread \in BOOLEAN
  /\ owed \in {"no", "free", "kept"} /\ scan \in {"idle", "running", "over"}
  /\ index \in 1..(Hosts + 1) /\ unasked \subseteq Peers /\ spoiled \in BOOLEAN
  /\ probing \in [Workers -> Tasks] /\ stray \in [Workers -> Tasks]

\* "A device leaves the list only after this long without a single
\* announcement" (discovery.cpp:10): or when it was heard just while
\* RemoveExpired, which has read the clock, waited for the lock.
QuietOnly ==
  [][\A p \in listed \ listed' : heard[p] > Expiry \/ p \in late]_vars

\* A device that is not heard any more leaves the list: a cleanup and a call
\* are all that can delay it.  (DeviceManager::RemoveExpired)
QuietGone == \A p \in listed : heard[p] <= Expiry + Cleanup + MaxCall

\* The next announcement is late by no more than a call.
\* (DiscoveryService::Run)
AnnouncedInTime == lastAnnounce <= Interval + MaxCall

\* A scan that ends in time has asked every address, whichever workers took
\* them; the workers of an earlier scan that did not end in time may spoil it.
\* (DiscoveryService::RunScan, ScanWorker)
ScanComplete == scan = "over" /\ ~spoiled => unasked = {}

\* "Refresh asks the network again" (discovery.cpp:189): a Refresh when no
\* scan is running starts a scan; but for one that comes before the loop has
\* collected the last scan, which is taken and forgotten.
\* (DiscoveryService::RequestScan, Run)
RefreshFree == owed = "free" ~> owed # "free"

=============================================================================
