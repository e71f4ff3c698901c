----------------------------- MODULE Lifecycle -----------------------------
(***************************************************************************)
(* The program from its start to its end: the settings and their file      *)
(* (Config, src/util/config.cpp, and the settings dialog), the services    *)
(* that are started from them (App::StartServices, src/core/app.cpp), the  *)
(* pool of connection threads (HttpServer, src/network/http_server.cpp)    *)
(* and the shutdown.                                                       *)
(*                                                                         *)
(* Actors: the UI thread, the listener, the connection threads, the        *)
(* discovery thread, and the user, who may also edit the file while the    *)
(* program is off.  The port stands for the settings before the            *)
(* fingerprint in the file, https for those after it.  The handles of      *)
(* sockets are a small set: Winsock gives a closed one out again.          *)
(***************************************************************************)
EXTENDS Integers, FiniteSets, Sequences

CONSTANTS
  Ports, DefaultPort,
  Conns,           \* the connection threads
  Handles,
  MaxConnections,  \* kMaxConnections
  MaxRuns,         \* bound on the starts of the program
  Visited,         \* bound on the pool: the runs in which peers connect
  Edited,          \* bound on the changes: the runs in which settings are confirmed
  None

\* The settings modelled.
Settings == [port: Ports, https: BOOLEAN]
\* What the file may hold.
Inis == [port: Ports \cup {None}, fingerprint: {TRUE, None}, https: BOOLEAN \cup {None}]

ASSUME PortAssumption == DefaultPort \in Ports
ASSUME NoneAssumption == None \notin Ports \cup Handles \cup BOOLEAN \cup Settings
ASSUME PoolAssumption == MaxConnections \in Nat /\ IsFiniteSet(Conns)
ASSUME RunsAssumption == MaxRuns \in Nat

VARIABLES
  \* the settings
  ini,       \* LocalSendXP.ini: key -> value; None: the key is missing
  config,    \* m_config
  \* the UI thread
  pc, ret,   \* its step, and the one after a Save
  key,       \* how far the Save is
  quitting,  \* m_quitting
  runs,
  \* the services
  server,    \* what HttpServer was started with; None: there is none
  tls,       \* TlsContext::IsReady
  protocol,  \* LocalProtocol() is "https"
  disc,      \* the discovery thread: "none", "running", "told" to stop
  \* the pool
  listener,  \* the listening thread: "none", "accept", "admit"
  accepted,  \* the handle it is at
  conn, handle, open, active,
  \* what the properties need to know
  told,      \* the last announcement of this run
  wanted,    \* the settings confirmed last
  before,    \* the settings before these
  torn,      \* their Save was cut short
  failed,    \* those of them that are not in the file since a write failed
  skipped,   \* a Load since has saved before it read what follows the fingerprint
  changed,   \* the port has been set to another one in this run
  stolen     \* a second close has hit the handle of another connection

settings == <<ini, config>>
ui       == <<pc, ret, key, quitting, runs>>
services == <<server, tls, protocol, disc>>
pool     == <<listener, accepted, conn, handle, open, active>>
history  == <<wanted, before, torn, failed, skipped>>
marks    == <<told, changed, stolen>>
vars == <<ini, config, pc, ret, key, quitting, runs, server, tls, protocol, disc, listener, accepted,
          conn, handle, open, active, told, wanted, before, torn, failed, skipped, changed, stolen>>

\* Mutant: the last section is forgotten.
KeysWithoutSecurity == <<"port", "fingerprint">>

\* The order in which Config::Save writes.
Keys == <<"port", "fingerprint", "https">>

Alive == {"serving", "asking", "closing", "leaving"}
Default == [port |-> DefaultPort, https |-> TRUE]
NoKeys == [port |-> None, fingerprint |-> None, https |-> None]

Init ==
  /\ ini = NoKeys /\ config = Default
  /\ pc = "off" /\ ret = "off" /\ key = 0 /\ quitting = FALSE /\ runs = 0
  /\ server = None /\ tls = FALSE /\ protocol = FALSE /\ disc = "none"
  /\ listener = "none" /\ accepted = None
  /\ conn = [c \in Conns |-> "none"] /\ handle = [c \in Conns |-> None]
  /\ open = {} /\ active = 0
  /\ told = None /\ changed = FALSE /\ stolen = FALSE
  /\ wanted = Default /\ before = Default /\ torn = FALSE /\ failed = {} /\ skipped = FALSE

Goto(step) == pc' = step
SaveThen(step) == pc' = "save" /\ key' = 1 /\ ret' = step

-----------------------------------------------------------------------------
(* The settings                                                             *)

\* Config::Load up to the fingerprint.  It saves what it has, defaults where
\* it has read nothing yet, if there is no file or no fingerprint in it.
Load ==
  /\ pc = "off" /\ runs < MaxRuns
  /\ runs' = runs + 1
  /\ config' = [port |-> IF ini.port = None THEN DefaultPort ELSE ini.port, https |-> TRUE]
  /\ IF ini = NoKeys THEN SaveThen("start")
     ELSE IF ini.fingerprint = None THEN SaveThen("security")
     ELSE Goto("security") /\ UNCHANGED <<ret, key>>
  /\ skipped' = (skipped \/ (ini # NoKeys /\ ini.fingerprint = None))
  /\ UNCHANGED <<ini, quitting, services, pool, wanted, before, torn, failed, marks>>

\* GetIniBool with its default.
HttpsRead == IF ini.https = None THEN TRUE ELSE ini.https

\* The rest of Config::Load.
LoadSecurity ==
  /\ pc = "security"
  /\ config' = [config EXCEPT !.https = HttpsRead]
  /\ Goto("start")
  /\ UNCHANGED <<ini, ret, key, quitting, runs, services, pool, history, marks>>

\* What Save writes for a key.
Written(k) == IF k = "fingerprint" THEN TRUE ELSE config[k]

\* WritePrivateProfileString has written the key.
WriteKey(k) ==
  /\ ini' = [ini EXCEPT ![k] = Written(k)]
  /\ failed' = IF k # "fingerprint" /\ config[k] = wanted[k] THEN failed \ {k} ELSE failed

\* It has failed, and WriteIniString does not look.
WriteFails(k) ==
  /\ failed' = IF k = "fingerprint" \/ ini[k] = Written(k) THEN failed ELSE failed \cup {k}
  /\ UNCHANGED ini

\* Config::Save, one key after the other.
Save ==
  /\ pc = "save"
  /\ IF key > Len(Keys)
     THEN Goto(ret) /\ ret' = "off" /\ key' = 0 /\ UNCHANGED <<ini, failed>>
     ELSE /\ WriteKey(Keys[key]) \/ WriteFails(Keys[key])
          /\ key' = key + 1 /\ UNCHANGED <<pc, ret>>
  /\ UNCHANGED <<config, quitting, runs, services, pool, wanted, before, torn, skipped, marks>>

\* SaveSettingsFromPages and the first Save of the dialog.
UserConfirms ==
  /\ pc = "main" /\ runs \in Edited
  /\ \E p \in Ports, h \in BOOLEAN : config' = [port |-> p, https |-> h]
  /\ config' # config
  /\ before' = config /\ wanted' = config' /\ torn' = FALSE /\ skipped' = FALSE
  /\ changed' = (changed \/ config'.port # config.port)
  /\ SaveThen("apply")
  /\ UNCHANGED <<ini, quitting, runs, services, pool, failed, told, stolen>>

\* ApplySettingChange saves again.
ApplySettingChange ==
  /\ pc = "apply"
  /\ SaveThen("main")
  /\ before' = wanted
  /\ UNCHANGED <<settings, quitting, runs, services, pool, told, wanted, torn, failed, skipped,
                 changed, stolen>>

\* Notepad: the fingerprint is gone.
UserEdits ==
  /\ pc = "off" /\ ini.fingerprint # None
  /\ ini' = [ini EXCEPT !.fingerprint = None]
  /\ UNCHANGED <<config, ui, services, pool, history, marks>>

-----------------------------------------------------------------------------
(* The services                                                             *)

\* Mutant: what is configured, whatever came of it.
ProtocolConfigured(useHttps) == config.https

\* StartServices: SetLocalProtocol(useHttps ? "https" : "http").
Protocol(useHttps) == useHttps

\* StartServices.  TLS may be missing or fail; the port may be busy, then
\* there are no services at all; the discovery may fail by itself.
StartServices ==
  /\ pc = "start"
  /\ \E useHttps \in {FALSE, config.https} :
       /\ protocol' = Protocol(useHttps)
       /\ \/ /\ server' = [port |-> config.port, https |-> useHttps]
             /\ tls' = useHttps
             /\ listener' = "accept"
             /\ disc' \in {"none", "running"}
          \/ UNCHANGED <<server, tls, listener, disc>>
  /\ Goto("main")
  /\ UNCHANGED <<settings, ret, key, quitting, runs, accepted, conn, handle, open, active, history, marks>>

\* SendAnnounce: BuildDeviceInfo has the port of the settings.
Announce ==
  /\ disc = "running"
  /\ told' = [port |-> config.port, https |-> protocol]
  /\ UNCHANGED <<settings, ui, services, pool, history, changed, stolen>>

-----------------------------------------------------------------------------
(* The pool                                                                 *)

\* m_running: it falls in HttpServer::Stop.
Running == server # None /\ pc \notin {"listening", "draining"}

\* TcpListener::Accept; the call that is under way when Stop closes the
\* listening socket may still return a connection.
Accept ==
  /\ listener = "accept" /\ (Running \/ pc = "listening") /\ runs \in Visited
  /\ \E h \in Handles \ open : accepted' = h /\ open' = open \cup {h}
  /\ listener' = "admit"
  /\ UNCHANGED <<settings, ui, services, conn, handle, active, history, marks>>

\* Mutant: one connection too many.
FullLate == active > MaxConnections

\* ListenLoop: 503 when the pool is full.
Full == active >= MaxConnections

\* A thread that is not there yet.
Free(c) == conn[c] = "none"

\* A thread for the connection; or 503, or no thread, and the handle closed.
Admit ==
  /\ listener = "admit"
  /\ \/ /\ ~Full /\ \E c \in Conns : Free(c)
        /\ LET n == CHOOSE c \in Conns : Free(c) IN
             conn' = [conn EXCEPT ![n] = "serving"] /\ handle' = [handle EXCEPT ![n] = accepted]
        /\ active' = active + 1
        /\ UNCHANGED open
     \/ /\ open' = open \ {accepted}
        /\ UNCHANGED <<conn, handle, active>>
  /\ accepted' = None
  /\ listener' = IF Running THEN "accept" ELSE "none"
  /\ UNCHANGED <<settings, ui, services, history, marks>>

\* Accept has returned nothing, and ListenLoop sees that it is to stop.
ListenerEnds ==
  /\ listener = "accept" /\ ~Running
  /\ listener' = "none"
  /\ UNCHANGED <<settings, ui, services, accepted, conn, handle, open, active, history, marks>>

\* PromptIncomingTransfer waits for the user, without a limit.
ConnAsks(c) ==
  /\ conn[c] = "serving" /\ ~quitting
  /\ conn' = [conn EXCEPT ![c] = "asking"]
  /\ UNCHANGED <<settings, ui, services, listener, accepted, handle, open, active, history, marks>>

UserAnswers(c) ==
  /\ pc = "main" /\ conn[c] = "asking"
  /\ conn' = [conn EXCEPT ![c] = "serving"]
  /\ UNCHANGED <<settings, ui, services, listener, accepted, handle, open, active, history, marks>>

\* ServeConnection returns, and its TcpSocket closes the handle.
ConnEnds(c) ==
  /\ conn[c] = "serving"
  /\ conn' = [conn EXCEPT ![c] = "closing"]
  /\ open' = open \ {handle[c]}
  /\ UNCHANGED <<settings, ui, services, listener, accepted, handle, active, history, marks>>

\* ConnectionEntry closes it again, whoever has it by now.
ConnClosesAgain(c) ==
  /\ conn[c] = "closing"
  /\ conn' = [conn EXCEPT ![c] = "leaving"]
  /\ open' = open \ {handle[c]}
  /\ stolen' = (stolen \/ handle[c] \in open)
  /\ handle' = [handle EXCEPT ![c] = None]
  /\ UNCHANGED <<settings, ui, services, listener, accepted, active, told, history, changed>>

ConnLeaves(c) ==
  /\ conn[c] = "leaving"
  /\ conn' = [conn EXCEPT ![c] = "none"]
  /\ active' = active - 1
  /\ UNCHANGED <<settings, ui, services, listener, accepted, handle, open, history, marks>>

Conn(c) == ConnAsks(c) \/ UserAnswers(c) \/ ConnEnds(c) \/ ConnClosesAgain(c) \/ ConnLeaves(c)

-----------------------------------------------------------------------------
(* The shutdown                                                             *)

\* The window is closed; Shutdown, and StopServices up to the discovery.
UserQuits ==
  /\ pc = "main"
  /\ quitting' = TRUE
  /\ tls' = FALSE
  /\ disc' = IF disc = "running" THEN "told" ELSE disc
  /\ told' = None /\ changed' = FALSE
  /\ Goto("discovering")
  /\ UNCHANGED <<settings, ret, key, runs, server, protocol, pool, history, stolen>>

DiscoveryEnds ==
  /\ disc = "told"
  /\ disc' = "none"
  /\ UNCHANGED <<settings, ui, server, tls, protocol, pool, history, marks>>

\* DiscoveryService::Stop has waited for its thread, or long enough.
StopDiscovery ==
  /\ pc = "discovering"
  /\ Goto(IF server = None THEN "clearing" ELSE "listening")
  /\ UNCHANGED <<settings, ret, key, quitting, runs, services, pool, history, marks>>

\* HttpServer::Stop has waited for the listener, or long enough.
StopListener ==
  /\ pc = "listening"
  /\ Goto("draining")
  /\ UNCHANGED <<settings, ret, key, quitting, runs, services, pool, history, marks>>

\* Mutant: until every connection has ended.
StopConnectionsAll ==
  /\ pc = "draining" /\ active = 0
  /\ server' = None
  /\ Goto("clearing")
  /\ UNCHANGED <<settings, ret, key, quitting, runs, tls, protocol, disc, pool, history, marks>>

\* It has waited for the connections, or long enough; the server is deleted.
StopConnections ==
  /\ pc = "draining"
  /\ server' = None
  /\ Goto("clearing")
  /\ UNCHANGED <<settings, ret, key, quitting, runs, tls, protocol, disc, pool, history, marks>>

\* TransferManager::Clear, and Save.
SaveAtExit ==
  /\ pc = "clearing"
  /\ SaveThen("quiet")
  /\ UNCHANGED <<settings, quitting, runs, services, pool, history, marks>>

\* DrainUiEventsQuiet refuses what is still asked.
DrainUiEventsQuiet ==
  /\ pc = "quiet"
  /\ conn' = [c \in Conns |-> IF conn[c] = "asking" THEN "serving" ELSE conn[c]]
  /\ Goto("exit")
  /\ UNCHANGED <<settings, ret, key, quitting, runs, services, listener, accepted, handle, open, active,
                 history, marks>>

\* The process and its threads and handles are gone.
Off ==
  /\ pc' = "off" /\ ret' = "off" /\ key' = 0 /\ quitting' = FALSE
  /\ server' = None /\ tls' = FALSE /\ protocol' = FALSE /\ disc' = "none"
  /\ listener' = "none" /\ accepted' = None
  /\ conn' = [c \in Conns |-> "none"] /\ handle' = [c \in Conns |-> None]
  /\ open' = {} /\ active' = 0
  /\ told' = None /\ changed' = FALSE /\ stolen' = FALSE
  /\ UNCHANGED <<ini, config, runs, wanted, before, failed, skipped>>

Exit == pc = "exit" /\ Off /\ UNCHANGED torn

\* The program is killed, or the power fails.
Crash ==
  /\ pc # "off" /\ Off
  /\ torn' = (torn \/ (pc = "save" /\ ret = "apply"))

-----------------------------------------------------------------------------

Ui ==
  \/ LoadSecurity \/ Save \/ ApplySettingChange \/ StartServices
  \/ StopDiscovery \/ StopListener \/ StopConnections \/ SaveAtExit \/ DrainUiEventsQuiet \/ Exit

Next ==
  \/ Ui \/ Load \/ UserConfirms \/ UserEdits \/ UserQuits \/ Crash
  \/ Announce \/ DiscoveryEnds
  \/ Accept \/ Admit \/ ListenerEnds \/ \E c \in Conns : Conn(c)

Spec == Init /\ [][Next]_vars

\* The UI thread runs; its waits during the shutdown have timeouts.
FairSpec == Spec /\ WF_vars(Ui)

-----------------------------------------------------------------------------
(* Properties                                                               *)

\* Every variable has its type.
TypeOK ==
  /\ ini \in Inis
  /\ config \in Settings /\ wanted \in Settings /\ before \in Settings
  /\ pc \in {"off", "save", "security", "start", "main", "apply", "discovering", "listening",
             "draining", "clearing", "quiet", "exit"}
  /\ ret \in {"off", "security", "start", "apply", "main", "quiet"}
  /\ key \in 0..(Len(Keys) + 1) /\ (pc = "save" <=> key # 0) /\ quitting \in BOOLEAN /\ runs \in 0..MaxRuns
  /\ server \in Settings \cup {None}
  /\ tls \in BOOLEAN /\ protocol \in BOOLEAN
  /\ disc \in {"none", "running", "told"}
  /\ listener \in {"none", "accept", "admit"}
  /\ accepted \in Handles \cup {None}
  /\ conn \in [Conns -> Alive \cup {"none"}]
  /\ handle \in [Conns -> Handles \cup {None}]
  /\ open \subseteq Handles /\ active \in Int
  /\ told \in Settings \cup {None}
  /\ failed \subseteq {"port", "https"}
  /\ torn \in BOOLEAN /\ skipped \in BOOLEAN /\ changed \in BOOLEAN /\ stolen \in BOOLEAN

\* m_activeConnections is the number of connection threads, never more than
\* kMaxConnections; every open handle is in somebody's hands, whichever way a
\* connection is refused or ends; and a connection that is served has its
\* handle to itself, as long as no second close has hit the handle of another
\* (ListenLoop; ConnectionEntry, http_server.cpp:411).
PoolExact ==
  /\ active = Cardinality({c \in Conns : conn[c] \in Alive})
  /\ active <= MaxConnections
  /\ \A h \in open : h = accepted \/ \E c \in Conns : handle[c] = h /\ conn[c] \in Alive
  /\ ~stolen => \A c \in Conns : conn[c] \in {"serving", "asking"} =>
       handle[c] \in open /\ \A d \in Conns : conn[d] \in {"serving", "asking"} /\ handle[d] = handle[c] => d = c

\* Shutdown comes to its end though a connection waits for an answer that only
\* DrainUiEventsQuiet, its last step, will give (App::Shutdown, HttpServer::Stop).
ExitEnds == quitting ~> pc = "off"

\* "Changes apply immediately; port/HTTPS changes need a restart"
\* (LocalSendXP.rc:631): what peers are told is what the server was started
\* with, also where TLS did not come up; but for the port of the settings,
\* which is announced as soon as it is changed (BuildDeviceInfo).
AnnouncedIsServed ==
  told # None /\ ~quitting =>
    /\ server # None
    /\ told.https = server.https /\ (told.https => tls)
    /\ changed \/ told.port = server.port

Kept(k) ==
  \/ config[k] = wanted[k]
  \/ torn /\ config[k] = before[k]
  \/ k \in failed

\* The settings in use are those confirmed last, after any number of starts,
\* but in three cases.  Where their Save was cut short each is the old or the
\* new one.  A write that failed leaves what the file had before, and nobody
\* notices: WriteIniString does not look (config.cpp:31).  And a Load that
\* finds no fingerprint, because it was removed by hand or its write failed,
\* saves before it has read what comes after it (config.cpp:179).
SettingsKept == pc = "main" => Kept("port") /\ (Kept("https") \/ skipped)
=============================================================================
