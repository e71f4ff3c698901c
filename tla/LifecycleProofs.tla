--------------------------- MODULE LifecycleProofs ---------------------------
(***************************************************************************)
(* Theorems about Lifecycle, for any number of connections, handles, ports *)
(* and starts of the program: its types, the settings, what is announced,  *)
(* and the pool.                                                           *)
(*                                                                         *)
(* The argument for the settings: what Load would read from the file       *)
(* (Stored) is what is in use, but for keys whose write failed and while a *)
(* Save is under way, and then it is what the Save writes or what it       *)
(* replaces.  For the pool: a handle belongs to the listener from its      *)
(* Accept on, then to one thread, until the second close of another one    *)
(* hits it.                                                                *)
(***************************************************************************)
EXTENDS Lifecycle, FiniteSetTheorems, TLAPS

\* What Load makes of the file.
StoredPort == IF ini.port = None THEN Default.port ELSE ini.port
StoredHttps == IF ini.https = None THEN Default.https ELSE ini.https

LostPort == "port" \in failed
LostHttps == "https" \in failed

\* It has the value confirmed last, or the one before if its Save was cut
\* short, or a write of it has failed.
GoodPort == StoredPort = wanted.port \/ (torn /\ StoredPort = before.port) \/ LostPort
GoodHttps == StoredHttps = wanted.https \/ (torn /\ StoredHttps = before.https) \/ LostHttps

\* It has the value in use, unless a write has failed.
SamePort == StoredPort = config.port \/ LostPort
SameHttps == StoredHttps = config.https \/ LostHttps

Shutdown == {"discovering", "listening", "draining", "clearing", "quiet", "exit"}
InUse == {"start", "main", "apply"} \cup Shutdown
Applying == pc = "save" /\ ret = "apply"

\* The file is as the settings want it; a Load may have replaced what comes
\* after the fingerprint.
FileInv == ~Applying => GoodPort /\ (GoodHttps \/ skipped)

\* The settings in use are those of the file, but while a Save is under way.
UseInv ==
  /\ pc \in InUse => SamePort /\ SameHttps
  /\ pc = "security" => SamePort
  /\ pc = "apply" => config = wanted /\ ~torn

\* What Save has written, and what it is to replace.
SaveInv ==
  pc = "save" =>
    /\ key \in 1..4 /\ ret \in {"start", "security", "apply", "main", "quiet"}
    /\ key > 1 => SamePort
    /\ key > 3 => SameHttps
    /\ ret = "apply" =>
         /\ config = wanted /\ ~torn
         /\ StoredPort \in {before.port, config.port} \/ LostPort
         /\ StoredHttps \in {before.https, config.https} \/ LostHttps
    /\ ret # "apply" => SamePort
    /\ ret \in {"start", "main", "quiet"} => SameHttps
    /\ ret = "security" => skipped

SettingsInv == FileInv /\ UseInv /\ SaveInv

Starting == pc \in {"off", "security", "start"} \/ (pc = "save" /\ ret \in {"start", "security"})
Ending == pc \in Shutdown \/ (pc = "save" /\ ret = "quiet")

\* Before the services are started there is none, and they are stopped only
\* by a program that ends.
PhaseInv ==
  /\ Starting => server = None /\ told = None /\ listener = "none" /\ ~quitting
  /\ Ending => quitting

\* The server is as the settings want it, but for a port changed since.
ServedInv ==
  /\ server # None /\ ~quitting =>
       /\ server.https = protocol /\ (protocol => tls)
       /\ changed \/ server.port = config.port
  /\ disc = "running" => server # None /\ ~quitting
  /\ AnnouncedIsServed

Busy(c) == conn[c] \in {"serving", "asking"}
Threads == {c \in Conns : conn[c] \in Alive}

\* The handle the listener is at is nobody else's; a thread that leaves has
\* given its handle up; those that are busy have handles of their own.
PoolInv ==
  /\ active = Cardinality(Threads) /\ active <= MaxConnections
  /\ listener = "admit" <=> accepted # None
  /\ \A c \in Conns : conn[c] = "leaving" => handle[c] = None
  /\ \A h \in open : h = accepted \/ \E c \in Conns : handle[c] = h /\ conn[c] \in Alive
  /\ ~stolen =>
       /\ accepted # None => accepted \in open /\ \A c \in Conns : Busy(c) => handle[c] # accepted
       /\ \A c \in Conns : Busy(c) =>
            handle[c] \in open /\ \A d \in Conns : Busy(d) /\ handle[d] = handle[c] => d = c

-----------------------------------------------------------------------------
(* Types                                                                    *)

LEMMA ConstantFacts ==
  /\ DefaultPort \in Ports /\ None \notin Ports /\ None \notin Handles
  /\ None \notin BOOLEAN /\ None \notin Settings
  /\ MaxConnections \in Nat /\ IsFiniteSet(Conns) /\ MaxRuns \in Nat
  /\ Len(Keys) = 3 /\ Keys[1] = "port" /\ Keys[2] = "fingerprint" /\ Keys[3] = "https"
  /\ Default \in Settings /\ Default.port = DefaultPort /\ Default.https = TRUE
BY PortAssumption, NoneAssumption, PoolAssumption, RunsAssumption DEF Default, Settings, Keys

\* One key of the settings, or of the file, is written.
LEMMA WriteType ==
  ASSUME NEW p \in Ports, NEW h \in BOOLEAN
  PROVE  /\ [port |-> p, https |-> h] \in Settings
         /\ \A s \in Settings : [s EXCEPT !.https = h] \in Settings
         /\ \A i \in Inis : [i EXCEPT !.port = p] \in Inis /\ [i EXCEPT !.https = h] \in Inis
BY Zenon DEF Settings, Inis

LEMMA MarkType ==
  ASSUME NEW i \in Inis, NEW x \in {TRUE, None}
  PROVE  [i EXCEPT !.fingerprint = x] \in Inis
BY Zenon DEF Inis

LEMMA FieldType ==
  ASSUME NEW s \in Settings, NEW i \in Inis
  PROVE  /\ s.port \in Ports /\ s.https \in BOOLEAN
         /\ i.port \in Ports \cup {None} /\ i.https \in BOOLEAN \cup {None}
         /\ i.fingerprint \in {TRUE, None}
BY Zenon DEF Settings, Inis

LEMMA SaveThenType ==
  ASSUME NEW step \in {"off", "security", "start", "apply", "main", "quiet"}, SaveThen(step)
  PROVE  pc' = "save" /\ ret' = step /\ key' = 1 /\ key' \in 0..(Len(Keys) + 1)
BY ConstantFacts DEF SaveThen

\* The flags, and everything else.
FlagsOK ==
  /\ quitting \in BOOLEAN /\ tls \in BOOLEAN /\ protocol \in BOOLEAN
  /\ torn \in BOOLEAN /\ skipped \in BOOLEAN /\ changed \in BOOLEAN /\ stolen \in BOOLEAN

RestOK ==
  /\ ini \in Inis
  /\ config \in Settings /\ wanted \in Settings /\ before \in Settings
  /\ pc \in {"off", "save", "security", "start", "main", "apply", "discovering", "listening",
             "draining", "clearing", "quiet", "exit"}
  /\ ret \in {"off", "security", "start", "apply", "main", "quiet"}
  /\ key \in 0..(Len(Keys) + 1) /\ (pc = "save" <=> key # 0) /\ runs \in 0..MaxRuns
  /\ server \in Settings \cup {None}
  /\ disc \in {"none", "running", "told"}
  /\ listener \in {"none", "accept", "admit"}
  /\ accepted \in Handles \cup {None}
  /\ conn \in [Conns -> Alive \cup {"none"}]
  /\ handle \in [Conns -> Handles \cup {None}]
  /\ open \subseteq Handles /\ active \in Int
  /\ told \in Settings \cup {None}
  /\ failed \subseteq {"port", "https"}

LEMMA TypeParts == TypeOK <=> FlagsOK /\ RestOK
  BY Zenon DEF TypeOK, FlagsOK, RestOK

LEMMA OrBoolean == ASSUME NEW p, NEW q PROVE (p \/ q) \in BOOLEAN
  OBVIOUS

LEMMA InitFlags == Init => FlagsOK
  BY Zenon DEF Init, FlagsOK

LEMMA FlagsStep == ASSUME FlagsOK, RestOK, [Next]_vars PROVE FlagsOK'
<1> USE DEF FlagsOK, settings, services, pool, ui, history, marks
<1>1. CASE StartServices
  <2>1. config.https \in BOOLEAN
    BY FieldType DEF RestOK
  <2> QED BY <1>1, <2>1, Zenon DEF StartServices, Protocol
<1>2. CASE UserConfirms
  <2>1. changed' \in BOOLEAN
    BY <1>2, OrBoolean, Zenon DEF UserConfirms
  <2> QED BY <1>2, <2>1, Zenon DEF UserConfirms
<1>3. CASE Exit \/ Crash
  <2>1. torn' \in BOOLEAN
    BY <1>3, OrBoolean, Zenon DEF Exit, Crash
  <2> QED BY <1>3, <2>1, Zenon DEF Exit, Crash, Off
<1>4. ASSUME NEW c \in Conns, Conn(c) PROVE FlagsOK'
  <2>1. CASE ConnClosesAgain(c)
    <3>1. stolen' \in BOOLEAN
      BY <2>1, OrBoolean, Zenon DEF ConnClosesAgain
    <3> QED BY <2>1, <3>1, Zenon DEF ConnClosesAgain
  <2> QED BY <1>4, <2>1, Zenon DEF Conn, ConnAsks, UserAnswers, ConnEnds, ConnLeaves
<1>5. CASE Load
  <2>1. skipped' \in BOOLEAN
    BY <1>5, OrBoolean, Zenon DEF Load
  <2> QED BY <1>5, <2>1, Zenon DEF Load
<1>8. CASE LoadSecurity \/ Save \/ ApplySettingChange \/ UserEdits
  BY <1>8, Zenon DEF LoadSecurity, Save, ApplySettingChange, UserEdits
<1>6. CASE Announce \/ UserQuits \/ DiscoveryEnds \/ StopDiscovery \/ StopListener \/ StopConnections
  BY <1>6, Zenon DEF Announce, UserQuits, DiscoveryEnds, StopDiscovery, StopListener, StopConnections
<1>7. CASE SaveAtExit \/ DrainUiEventsQuiet \/ Accept \/ Admit \/ ListenerEnds \/ UNCHANGED vars
  BY <1>7, Zenon DEF SaveAtExit, DrainUiEventsQuiet, Accept, Admit, ListenerEnds, vars
<1> QED
  BY <1>1, <1>2, <1>3, <1>4, <1>5, <1>6, <1>7, <1>8, Zenon DEF Next, Ui

LEMMA InitType == Init => RestOK
<1>1. NoKeys \in Inis
  BY Zenon DEF NoKeys, Inis
<1> QED
  BY <1>1, ConstantFacts DEF Init, RestOK, Alive

LEMMA OffType ==
  ASSUME RestOK, Off
  PROVE  RestOK'
BY ConstantFacts DEF RestOK, Off, Alive

\* What one step of Save does, whether it writes or fails.
LEMMA SaveWrites ==
  ASSUME RestOK, Save, ~(key > Len(Keys))
  PROVE  /\ pc = "save" /\ key' = key + 1
         /\ UNCHANGED <<pc, ret, config, wanted, before, torn, skipped>>
         /\ \/ key = 1 /\ ini' = [ini EXCEPT !.port = config.port]
               /\ failed' = IF config.port = wanted.port THEN failed \ {"port"} ELSE failed
            \/ key = 2 /\ ini' = [ini EXCEPT !.fingerprint = TRUE] /\ failed' = failed
            \/ key = 3 /\ ini' = [ini EXCEPT !.https = config.https]
               /\ failed' = IF config.https = wanted.https THEN failed \ {"https"} ELSE failed
            \/ key = 1 /\ ini' = ini /\ ini.port = config.port /\ failed' = failed
            \/ key = 1 /\ ini' = ini /\ failed' = failed \cup {"port"}
            \/ key = 2 /\ ini' = ini /\ failed' = failed
            \/ key = 3 /\ ini' = ini /\ ini.https = config.https /\ failed' = failed
            \/ key = 3 /\ ini' = ini /\ failed' = failed \cup {"https"}
<1>1. key \in {1, 2, 3}
  BY ConstantFacts DEF RestOK, Save
<1>2. /\ pc = "save" /\ key' = key + 1
      /\ UNCHANGED <<pc, ret, config, wanted, before, torn, skipped>>
      /\ WriteKey(Keys[key]) \/ WriteFails(Keys[key])
  BY DEF Save
<1> QED
  BY <1>1, <1>2, ConstantFacts DEF WriteKey, WriteFails, Written

\* What a Save leaves alone, and how it ends.
LEMMA SaveFrame ==
  ASSUME Save
  PROVE  /\ UNCHANGED <<config, quitting, runs, services, pool, wanted, before, torn, skipped, marks>>
         /\ key > Len(Keys) => pc' = ret /\ ret' = "off" /\ key' = 0 /\ UNCHANGED <<ini, failed>>
  BY Zenon DEF Save, Goto

LEMMA SettingsType ==
  ASSUME RestOK, Load \/ LoadSecurity \/ Save \/ UserConfirms \/ ApplySettingChange \/ UserEdits
  PROVE  RestOK'
<1> USE ConstantFacts DEF RestOK, services, pool, ui, history, marks
<1>1. CASE Load
  <2>1. config' \in Settings
    <3>1. (IF ini.port = None THEN DefaultPort ELSE ini.port) \in Ports
      BY FieldType
    <3> QED BY <1>1, <3>1, WriteType DEF Load
  <2>2. /\ pc' \in {"save", "security"} /\ ret' \in {ret, "start", "security"}
        /\ key' \in 0..(Len(Keys) + 1) /\ (pc' = "save" <=> key' # 0) /\ runs' \in 0..MaxRuns
    BY <1>1 DEF Load, SaveThen, Goto
  <2> QED BY <1>1, <2>1, <2>2 DEF Load
<1>2. CASE LoadSecurity
  <2>1. HttpsRead \in BOOLEAN
    BY FieldType DEF HttpsRead
  <2>2. config' \in Settings
    BY <1>2, <2>1, WriteType DEF LoadSecurity
  <2> QED BY <1>2, <2>2 DEF LoadSecurity, Goto
<1>3. CASE Save
  <2>1. CASE key > Len(Keys)
    <3>1. pc' = ret /\ ret' = "off" /\ key' = 0 /\ UNCHANGED <<ini, failed>> /\ pc = "save"
      BY <1>3, <2>1, SaveFrame DEF Save
    <3>2. pc' # "save"
      BY <3>1
    <3> QED BY <1>3, <3>1, <3>2, SaveFrame
  <2>2. CASE ~(key > Len(Keys))
    <3>1. key' = key + 1 /\ key \in 1..3 /\ pc = "save" /\ pc' = pc /\ ret' = ret
      BY <1>3, <2>2, SaveWrites
    <3>2. config.port \in Ports /\ config.https \in BOOLEAN
      BY FieldType
    <3>3. failed' \subseteq {"port", "https"}
      BY <1>3, <2>2, SaveWrites
    <3>4. \/ ini' = [ini EXCEPT !.port = config.port] \/ ini' = [ini EXCEPT !.fingerprint = TRUE]
          \/ ini' = [ini EXCEPT !.https = config.https] \/ ini' = ini
      BY <1>3, <2>2, SaveWrites
    <3>5. ini' \in Inis
      <4>1. CASE ini' = [ini EXCEPT !.port = config.port]
        BY <3>2, <4>1, WriteType, Zenon
      <4>2. CASE ini' = [ini EXCEPT !.fingerprint = TRUE]
        BY <4>2, MarkType, Zenon
      <4>3. CASE ini' = [ini EXCEPT !.https = config.https]
        BY <3>2, <4>3, WriteType, Zenon
      <4> QED BY <3>4, <4>1, <4>2, <4>3
    <3> QED BY <1>3, <3>1, <3>3, <3>5, SaveFrame
  <2> QED BY <2>1, <2>2
<1>4. CASE UserConfirms
  BY <1>4, SaveThenType, WriteType DEF UserConfirms
<1>5. CASE ApplySettingChange
  BY <1>5, SaveThenType DEF ApplySettingChange, settings
<1>6. CASE UserEdits
  BY <1>6, MarkType DEF UserEdits
<1> QED
  BY <1>1, <1>2, <1>3, <1>4, <1>5, <1>6

LEMMA ServicesType ==
  ASSUME FlagsOK, RestOK, StartServices \/ Announce \/ UserQuits \/ DiscoveryEnds \/ StopDiscovery
                 \/ StopListener \/ StopConnections \/ SaveAtExit \/ DrainUiEventsQuiet
  PROVE  RestOK'
<1> USE ConstantFacts DEF RestOK, settings, services, pool, ui, history, marks, Goto
<1>1. CASE StartServices
  <2>1. \A h \in {FALSE, config.https} : [port |-> config.port, https |-> h] \in Settings
    BY FieldType, WriteType
  <2> QED BY <1>1, <2>1 DEF StartServices
<1>2. CASE Announce
  <2>1. protocol \in BOOLEAN
    BY DEF FlagsOK
  <2> QED BY <1>2, <2>1, FieldType, WriteType DEF Announce
<1>3. CASE UserQuits \/ DiscoveryEnds \/ StopDiscovery \/ StopListener \/ StopConnections
  BY <1>3 DEF UserQuits, DiscoveryEnds, StopDiscovery, StopListener, StopConnections
<1>4. CASE SaveAtExit
  BY <1>4, SaveThenType DEF SaveAtExit
<1>5. CASE DrainUiEventsQuiet
  BY <1>5 DEF DrainUiEventsQuiet, Alive
<1> QED
  BY <1>1, <1>2, <1>3, <1>4, <1>5

LEMMA PoolType ==
  ASSUME RestOK, Accept \/ Admit \/ ListenerEnds \/ \E c \in Conns : Conn(c)
  PROVE  RestOK'
<1> USE ConstantFacts DEF RestOK, settings, services, ui, history, marks
<1>1. CASE Accept
  BY <1>1 DEF Accept
<1>2. CASE Admit
  <2>1. accepted' = None /\ listener' \in {"accept", "none"}
    BY <1>2 DEF Admit
  <2>2. conn' \in [Conns -> Alive \cup {"none"}] /\ handle' \in [Conns -> Handles \cup {None}]
        /\ open' \subseteq Handles /\ active' \in Int
    <3> DEFINE n == CHOOSE c \in Conns : Free(c)
    <3>1. CASE /\ conn' = [conn EXCEPT ![n] = "serving"] /\ handle' = [handle EXCEPT ![n] = accepted]
               /\ active' = active + 1 /\ open' = open
      <4> HIDE DEF n
      <4>1. conn' \in [Conns -> Alive \cup {"none"}]
        BY <3>1 DEF Alive
      <4>2. handle' \in [Conns -> Handles \cup {None}]
        BY <3>1
      <4> QED BY <3>1, <4>1, <4>2
    <3>2. CASE open' = open \ {accepted} /\ UNCHANGED <<conn, handle, active>>
      BY <3>2
    <3> QED BY <1>2, <3>1, <3>2 DEF Admit
  <2> QED BY <1>2, <2>1, <2>2 DEF Admit
<1>3. CASE ListenerEnds
  BY <1>3 DEF ListenerEnds
<1>4. ASSUME NEW c \in Conns, Conn(c) PROVE RestOK'
  <2>1. CASE ConnAsks(c) \/ UserAnswers(c)
    <3>1. \E v \in {"asking", "serving"} : conn' = [conn EXCEPT ![c] = v]
      BY <2>1 DEF ConnAsks, UserAnswers
    <3>2. conn' \in [Conns -> Alive \cup {"none"}]
      BY <3>1 DEF Alive
    <3>3. UNCHANGED <<settings, ui, services, listener, accepted, handle, open, active, history, marks>>
      BY <2>1, Zenon DEF ConnAsks, UserAnswers
    <3> QED BY <3>2, <3>3
  <2>2. CASE ConnEnds(c)
    BY <2>2 DEF ConnEnds, Alive
  <2>3. CASE ConnClosesAgain(c)
    BY <2>3 DEF ConnClosesAgain, Alive
  <2>4. CASE ConnLeaves(c)
    BY <2>4 DEF ConnLeaves, Alive
  <2> QED BY <1>4, <2>1, <2>2, <2>3, <2>4 DEF Conn
<1> QED
  BY <1>1, <1>2, <1>3, <1>4

LEMMA RestStep == ASSUME FlagsOK, RestOK, [Next]_vars PROVE RestOK'
<1>1. CASE UNCHANGED vars
  BY <1>1 DEF vars, RestOK
<1>2. CASE Exit \/ Crash
  BY <1>2, OffType DEF Exit, Crash
<1> QED
  BY <1>1, <1>2, SettingsType, ServicesType, PoolType DEF Next, Ui

\* Every variable of the program keeps its type, for any number of
\* connections and starts.
THEOREM TypeTheorem == Spec => []TypeOK
<1>1. FlagsOK /\ RestOK /\ [Next]_vars => (FlagsOK /\ RestOK)'
  BY FlagsStep, RestStep
<1> QED
  BY <1>1, InitType, InitFlags, TypeParts, PTL DEF Spec

-----------------------------------------------------------------------------
(* The settings                                                             *)

LEMMA WriteFields ==
  ASSUME NEW i \in Inis, NEW x
  PROVE  /\ [i EXCEPT !.port = x].port = x /\ [i EXCEPT !.port = x].https = i.https
         /\ [i EXCEPT !.port = x].fingerprint = i.fingerprint
         /\ [i EXCEPT !.fingerprint = x].port = i.port /\ [i EXCEPT !.fingerprint = x].https = i.https
         /\ [i EXCEPT !.fingerprint = x].fingerprint = x
         /\ [i EXCEPT !.https = x].port = i.port /\ [i EXCEPT !.https = x].https = x
         /\ [i EXCEPT !.https = x].fingerprint = i.fingerprint
BY SMT DEF Inis

LEMMA HttpsField ==
  ASSUME NEW s \in Settings, NEW x
  PROVE  [s EXCEPT !.https = x].https = x /\ [s EXCEPT !.https = x].port = s.port
BY SMT DEF Settings

\* What of the state the settings are about.
about == <<ini, config, pc, ret, key, wanted, before, torn, failed, skipped>>

LEMMA AboutStutter == ASSUME SettingsInv, UNCHANGED about PROVE SettingsInv'
BY DEF SettingsInv, FileInv, UseInv, SaveInv, GoodPort, GoodHttps, SamePort, SameHttps,
       LostPort, LostHttps, StoredPort, StoredHttps, Applying, about

\* The UI thread is at another of the steps where the settings are in use.
LEMMA UseStep ==
  ASSUME SettingsInv, UNCHANGED <<settings, history>>, pc \in InUse, pc' \in InUse \ {"apply"}
  PROVE  SettingsInv'
BY DEF SettingsInv, FileInv, UseInv, SaveInv, GoodPort, GoodHttps, SamePort, SameHttps,
       LostPort, LostHttps, StoredPort, StoredHttps, Applying,
       InUse, Shutdown, settings, history

LEMMA SettingsInit == Init => SettingsInv
<1>1. Init => /\ StoredPort = wanted.port /\ StoredHttps = wanted.https /\ wanted = Default
              /\ pc = "off"
  BY ConstantFacts DEF Init, StoredPort, StoredHttps, Default, NoKeys
<1> QED
  BY <1>1 DEF SettingsInv, FileInv, UseInv, SaveInv, GoodPort, GoodHttps, SamePort, SameHttps,
        LostPort, LostHttps, Applying, InUse, Shutdown

LEMMA LoadKeepsSettings ==
  ASSUME RestOK, SettingsInv, Load \/ LoadSecurity
  PROVE  SettingsInv'
<1> USE ConstantFacts DEF SettingsInv, FileInv, UseInv, SaveInv, GoodPort, GoodHttps, SamePort, SameHttps,
        LostPort, LostHttps, Applying, InUse, Shutdown, settings, history
<1>1. CASE Load
  <2>1. /\ pc = "off" /\ UNCHANGED <<ini, wanted, before, torn, failed>>
        /\ UNCHANGED <<StoredPort, StoredHttps>>
        /\ config'.port = StoredPort /\ config'.https = Default.https
        /\ skipped => skipped'
        /\ \/ ini = NoKeys /\ pc' = "save" /\ key' = 1 /\ ret' = "start"
           \/ skipped' /\ pc' = "save" /\ key' = 1 /\ ret' = "security"
           \/ ini.fingerprint # None /\ pc' = "security"
    BY <1>1 DEF Load, SaveThen, Goto, StoredPort, StoredHttps
  <2>2. ini = NoKeys => StoredHttps = Default.https
    BY DEF NoKeys, StoredHttps
  <2> QED BY <2>1, <2>2
<1>2. CASE LoadSecurity
  <2>1. /\ pc = "security" /\ pc' = "start" /\ UNCHANGED <<ini, history>>
        /\ UNCHANGED <<StoredPort, StoredHttps>>
    BY <1>2 DEF LoadSecurity, Goto, StoredPort, StoredHttps
  <2>2. config' = [config EXCEPT !.https = HttpsRead] /\ config \in Settings
    BY <1>2 DEF LoadSecurity, RestOK
  <2>3. config'.https = HttpsRead /\ config'.port = config.port
    BY <2>2, HttpsField
  <2>4. HttpsRead = StoredHttps
    BY ConstantFacts, Zenon DEF HttpsRead, StoredHttps
  <2> QED BY <2>1, <2>3, <2>4
<1> QED BY <1>1, <1>2

\* What a key of the file comes to in a step of Save: nothing changes but to
\* the value in use, and what was lost is back only with the value confirmed.
LEMMA SavePort ==
  ASSUME RestOK, Save, ~(key > Len(Keys))
  PROVE  /\ StoredPort' \in {StoredPort, config.port}
         /\ LostPort => LostPort' \/ (StoredPort' = config.port /\ config.port = wanted.port)
         /\ key = 1 => SamePort'
<1> USE ConstantFacts DEF StoredPort, SamePort, LostPort, LostHttps
<1>0. config.port # None /\ UNCHANGED <<config, wanted>> /\ ini \in Inis
  <2>1. UNCHANGED <<config, wanted>>
    BY SaveWrites
  <2>2. config \in Settings /\ ini \in Inis
    BY DEF RestOK
  <2>3. config.port # None
    BY <2>2, FieldType
  <2> QED BY <2>1, <2>2, <2>3
<1>1. CASE key = 1 /\ ini' = [ini EXCEPT !.port = config.port]
           /\ failed' = IF config.port = wanted.port THEN failed \ {"port"} ELSE failed
  <2>1. ini'.port = config.port
    BY <1>0, <1>1, WriteFields
  <2> QED BY <1>0, <1>1, <2>1
<1>2. CASE key # 1 /\ ini'.port = ini.port /\ (LostPort => LostPort')
  BY <1>2
<1>3. CASE key = 1 /\ ini' = ini /\ ((ini.port = config.port /\ failed' = failed) \/ failed' = failed \cup {"port"})
  BY <1>0, <1>3
<1>4. key = 2 \/ key = 3 => ini'.port = ini.port /\ (LostPort => LostPort')
  <2>1. CASE ini' = [ini EXCEPT !.fingerprint = TRUE] /\ failed' = failed
    BY <1>0, <2>1, WriteFields
  <2>2. CASE ini' = [ini EXCEPT !.https = config.https] /\ failed' \in {failed, failed \ {"https"}}
    BY <1>0, <2>2, WriteFields
  <2>3. CASE ini' = ini /\ failed' \in {failed, failed \cup {"https"}}
    BY <2>3
  <2> QED BY <2>1, <2>2, <2>3, SaveWrites
<1> QED BY <1>1, <1>2, <1>3, <1>4, SaveWrites

LEMMA SaveHttps ==
  ASSUME RestOK, Save, ~(key > Len(Keys))
  PROVE  /\ StoredHttps' \in {StoredHttps, config.https}
         /\ LostHttps => LostHttps' \/ (StoredHttps' = config.https /\ config.https = wanted.https)
         /\ key = 3 => SameHttps'
<1> USE ConstantFacts DEF StoredHttps, SameHttps, LostPort, LostHttps
<1>0. config.https # None /\ UNCHANGED <<config, wanted>> /\ ini \in Inis
  <2>1. UNCHANGED <<config, wanted>>
    BY SaveWrites
  <2>2. config \in Settings /\ ini \in Inis
    BY DEF RestOK
  <2>3. config.https # None
    BY <2>2, FieldType
  <2> QED BY <2>1, <2>2, <2>3
<1>1. CASE key = 3 /\ ini' = [ini EXCEPT !.https = config.https]
           /\ failed' = IF config.https = wanted.https THEN failed \ {"https"} ELSE failed
  <2>1. ini'.https = config.https
    BY <1>0, <1>1, WriteFields
  <2> QED BY <1>0, <1>1, <2>1
<1>2. CASE key # 3 /\ ini'.https = ini.https /\ (LostHttps => LostHttps')
  BY <1>2
<1>3. CASE key = 3 /\ ini' = ini /\ ((ini.https = config.https /\ failed' = failed) \/ failed' = failed \cup {"https"})
  BY <1>0, <1>3
<1>4. key = 1 \/ key = 2 => ini'.https = ini.https /\ (LostHttps => LostHttps')
  <2>1. CASE ini' = [ini EXCEPT !.fingerprint = TRUE] /\ failed' = failed
    BY <1>0, <2>1, WriteFields
  <2>2. CASE ini' = [ini EXCEPT !.port = config.port] /\ failed' \in {failed, failed \ {"port"}}
    BY <1>0, <2>2, WriteFields
  <2>3. CASE ini' = ini /\ failed' \in {failed, failed \cup {"port"}}
    BY <2>3
  <2> QED BY <2>1, <2>2, <2>3, SaveWrites
<1> QED BY <1>1, <1>2, <1>3, <1>4, SaveWrites

LEMMA SaveKeepsSettings ==
  ASSUME RestOK, SettingsInv, Save
  PROVE  SettingsInv'
<1>0. pc = "save" /\ UNCHANGED <<config, wanted, before, torn, skipped>>
  BY SaveFrame DEF Save
<1>1. FileInv /\ SaveInv /\ key \in 1..4
  BY <1>0 DEF SettingsInv, SaveInv
<1>2. CASE key > Len(Keys)
  <2>1. pc' = ret /\ UNCHANGED <<ini, failed>> /\ key = 4
    BY <1>1, <1>2, SaveFrame, ConstantFacts
  <2>2. UNCHANGED <<StoredPort, StoredHttps, LostPort, LostHttps>> /\ SamePort /\ SameHttps
    BY <1>0, <1>1, <2>1 DEF StoredPort, StoredHttps, LostPort, LostHttps, SaveInv
  <2>3. UNCHANGED <<SamePort, SameHttps, GoodPort, GoodHttps>>
    BY <1>0, <2>2 DEF SamePort, SameHttps, GoodPort, GoodHttps
  <2>4. SamePort /\ SameHttps /\ config = wanted => GoodPort /\ GoodHttps
    BY DEF SamePort, SameHttps, GoodPort, GoodHttps
  <2>5. ret # "apply" => GoodPort /\ (GoodHttps \/ skipped)
    BY <1>1, Zenon DEF FileInv, Applying
  <2>6. ret \in {"start", "security", "apply", "main", "quiet"} /\ (ret = "apply" => config = wanted /\ ~torn)
    BY <1>0, <1>1 DEF SaveInv
  <2>7. pc' # "save"
    BY <2>1, <2>6
  <2>8. FileInv'
    BY <1>0, <2>2, <2>3, <2>4, <2>5, <2>6, Zenon DEF FileInv
  <2>9. UseInv'
    BY <1>0, <2>1, <2>2, <2>3, <2>6 DEF UseInv
  <2> QED BY <2>7, <2>8, <2>9, Zenon DEF SettingsInv, SaveInv
<1>3. CASE ~(key > Len(Keys))
  <2>0. key' = key + 1 /\ key \in 1..3 /\ pc' = pc /\ ret' = ret /\ skipped' = skipped
    BY <1>1, <1>3, SaveWrites, ConstantFacts
  <2>1. /\ SamePort \/ key = 1 => SamePort'
        /\ SameHttps \/ key = 3 => SameHttps'
    BY <1>0, <1>3, SavePort, SaveHttps DEF SamePort, SameHttps
  <2>2. /\ SamePort /\ GoodPort => GoodPort'
        /\ SameHttps /\ GoodHttps => GoodHttps'
    BY <1>0, <1>3, SavePort, SaveHttps DEF SamePort, SameHttps, GoodPort, GoodHttps
  <2>3. ret = "apply" =>
          /\ config' = wanted' /\ ~torn'
          /\ StoredPort' \in {before'.port, config'.port} \/ LostPort'
          /\ StoredHttps' \in {before'.https, config'.https} \/ LostHttps'
    BY <1>0, <1>1, <1>3, SavePort, SaveHttps DEF SaveInv
  <2>4. /\ ret # "apply" => SamePort
        /\ ret \in {"start", "main", "quiet"} => SameHttps
        /\ ret = "security" => skipped
        /\ ret \in {"start", "security", "apply", "main", "quiet"}
    BY <1>0, <1>1, Zenon DEF SaveInv
  <2>5. FileInv'
    <3>1. CASE ret = "apply"
      BY <1>0, <2>0, <3>1 DEF FileInv, Applying
    <3>2. CASE ret # "apply"
      <4>1. GoodPort /\ (GoodHttps \/ skipped)
        BY <1>1, <3>2, Zenon DEF FileInv, Applying
      <4>2. SamePort /\ (SameHttps \/ skipped)
        BY <2>4, <3>2, Zenon
      <4> QED BY <2>0, <2>2, <4>1, <4>2, Zenon DEF FileInv
    <3> QED BY <3>1, <3>2
  <2>6. UseInv'
    BY <1>0, <2>0 DEF UseInv, InUse, Shutdown
  <2>7. (key' > 1 => SamePort') /\ (key' > 3 => SameHttps') /\ key' \in 1..4
    <3>1. (key > 1 => SamePort) /\ (key > 3 => SameHttps)
      BY <1>0, <1>1, Zenon DEF SaveInv
    <3> QED BY <2>0, <2>1, <3>1
  <2>8. SaveInv'
    <3>1. ret' # "apply" => SamePort'
      BY <2>0, <2>1, <2>4, Zenon
    <3>2. ret' \in {"start", "main", "quiet"} => SameHttps'
      BY <2>0, <2>1, <2>4, Zenon
    <3>3. (ret' = "security" => skipped') /\ ret' \in {"start", "security", "apply", "main", "quiet"}
      BY <2>0, <2>4, Zenon
    <3>4. ret' = "apply" =>
            /\ config' = wanted' /\ ~torn'
            /\ StoredPort' \in {before'.port, config'.port} \/ LostPort'
            /\ StoredHttps' \in {before'.https, config'.https} \/ LostHttps'
      BY <2>0, <2>3, Zenon
    <3> QED BY <2>7, <3>1, <3>2, <3>3, <3>4, Zenon DEF SaveInv
  <2> QED BY <2>5, <2>6, <2>8, Zenon DEF SettingsInv
<1> QED BY <1>2, <1>3

LEMMA UserKeepsSettings ==
  ASSUME RestOK, SettingsInv, UserConfirms \/ ApplySettingChange \/ UserEdits
  PROVE  SettingsInv'
<1> USE ConstantFacts DEF SettingsInv, FileInv, UseInv, SaveInv, GoodPort, GoodHttps, SamePort, SameHttps,
        LostPort, LostHttps,
        Applying, InUse, Shutdown, settings, history, SaveThen
<1>1. CASE UserConfirms
  <2>1. UNCHANGED <<ini, StoredPort, StoredHttps>>
    BY <1>1 DEF UserConfirms, StoredPort, StoredHttps
  <2> QED BY <1>1, <2>1 DEF UserConfirms
<1>2. CASE ApplySettingChange
  <2>1. UNCHANGED <<ini, StoredPort, StoredHttps>>
    BY <1>2 DEF ApplySettingChange, StoredPort, StoredHttps
  <2> QED BY <1>2, <2>1 DEF ApplySettingChange
<1>3. CASE UserEdits
  <2>1. ini'.port = ini.port /\ ini'.https = ini.https
    BY <1>3, WriteFields DEF UserEdits, RestOK
  <2>2. UNCHANGED <<StoredPort, StoredHttps>>
    BY <2>1 DEF StoredPort, StoredHttps
  <2> QED BY <1>3, <2>2 DEF UserEdits, ui
<1> QED BY <1>1, <1>2, <1>3

LEMMA OffKeepsSettings ==
  ASSUME SettingsInv, Exit \/ Crash
  PROVE  SettingsInv'
<1>1. /\ pc' = "off" /\ UNCHANGED <<ini, wanted, before, failed, skipped>>
      /\ UNCHANGED <<StoredPort, StoredHttps, LostPort, LostHttps>>
  BY DEF Exit, Crash, Off, StoredPort, StoredHttps, LostPort, LostHttps
<1>2. torn \/ Applying => torn'
  BY Zenon DEF Exit, Crash, Applying
<1> QED
  BY <1>1, <1>2 DEF SettingsInv, FileInv, UseInv, SaveInv, GoodPort, GoodHttps, Applying, InUse, Shutdown

LEMMA SettingsStep == ASSUME RestOK, SettingsInv, [Next]_vars PROVE SettingsInv'
<1>1. CASE StartServices \/ UserQuits \/ StopDiscovery \/ StopListener \/ StopConnections \/ DrainUiEventsQuiet
  <2>1. UNCHANGED <<settings, history>> /\ pc \in InUse /\ pc' \in InUse \ {"apply"}
    BY <1>1 DEF StartServices, UserQuits, StopDiscovery, StopListener, StopConnections,
                DrainUiEventsQuiet, Goto, settings, history, InUse, Shutdown
  <2> QED BY <2>1, UseStep
<1>2. CASE SaveAtExit
  <2>1. pc = "clearing" /\ pc' = "save" /\ key' = 1 /\ ret' = "quiet" /\ UNCHANGED <<settings, history>>
    BY <1>2 DEF SaveAtExit, SaveThen
  <2>2. UNCHANGED <<StoredPort, StoredHttps>>
    BY <2>1 DEF StoredPort, StoredHttps, settings
  <2> QED BY <2>1, <2>2 DEF SettingsInv, FileInv, UseInv, SaveInv, GoodPort, GoodHttps, SamePort, SameHttps,
        LostPort, LostHttps,
                            Applying, InUse, Shutdown, settings, history
<1>3. CASE Announce \/ DiscoveryEnds \/ Accept \/ Admit \/ ListenerEnds \/ UNCHANGED vars
  BY <1>3, AboutStutter DEF Announce, DiscoveryEnds, Accept, Admit, ListenerEnds, vars, about,
                            settings, history, ui
<1>4. ASSUME NEW c \in Conns, Conn(c) PROVE SettingsInv'
  BY <1>4, AboutStutter DEF Conn, ConnAsks, UserAnswers, ConnEnds, ConnClosesAgain, ConnLeaves, about,
                            settings, history, ui
<1> QED
  BY <1>1, <1>2, <1>3, <1>4, LoadKeepsSettings, SaveKeepsSettings, UserKeepsSettings, OffKeepsSettings
     DEF Next, Ui

\* The settings in use are those confirmed last, after any number of starts,
\* kills, failed writes and edits of the file by hand: but for a setting that a
\* write failed for, for those whose Save was cut short, and for what a Load
\* replaced that found no fingerprint (Config::Load and Save).
THEOREM SettingsTheorem == Spec => []SettingsKept
<1>1. FlagsOK /\ RestOK /\ SettingsInv /\ [Next]_vars => (FlagsOK /\ RestOK /\ SettingsInv)'
  BY FlagsStep, RestStep, SettingsStep
<1>2. SettingsInv => SettingsKept
  BY DEF SettingsInv, FileInv, UseInv, GoodPort, GoodHttps, SamePort, SameHttps,
        LostPort, LostHttps, SettingsKept, Kept, InUse, Applying
<1> QED
  BY <1>1, <1>2, InitType, InitFlags, SettingsInit, PTL DEF Spec

-----------------------------------------------------------------------------
(* What is announced                                                        *)

LEMMA PhaseInit == Init => PhaseInv /\ ServedInv
  BY DEF Init, PhaseInv, ServedInv, AnnouncedIsServed, Starting, Ending, Shutdown

LEMMA PhaseStep == ASSUME RestOK, SettingsInv, PhaseInv, ServedInv, [Next]_vars PROVE PhaseInv'
<1> USE DEF PhaseInv, Starting, Ending, Shutdown, ServedInv, Goto, SaveThen
<1>1. CASE Load \/ LoadSecurity \/ UserConfirms \/ ApplySettingChange \/ UserEdits
  BY <1>1 DEF Load, LoadSecurity, UserConfirms, ApplySettingChange, UserEdits, services, pool, marks,
              settings, ui
<1>2. CASE Save
  <2>1. pc = "save" /\ ret \in {"start", "security", "apply", "main", "quiet"}
    BY <1>2 DEF Save, SettingsInv, SaveInv
  <2>2. UNCHANGED <<quitting, services, pool, marks>> /\ (UNCHANGED <<pc, ret>> \/ pc' = ret)
    BY <1>2 DEF Save
  <2> QED BY <2>1, <2>2 DEF services, pool, marks
<1>3. CASE StartServices \/ Announce
  BY <1>3 DEF StartServices, Announce, ui, services, pool
<1>4. CASE UserQuits \/ DiscoveryEnds \/ StopDiscovery \/ StopListener \/ StopConnections
  BY <1>4 DEF UserQuits, DiscoveryEnds, StopDiscovery, StopListener, StopConnections, services, ui, pool, marks
<1>5. CASE SaveAtExit \/ DrainUiEventsQuiet \/ Exit \/ Crash
  BY <1>5 DEF SaveAtExit, DrainUiEventsQuiet, Exit, Crash, Off, services, pool, marks
<1>6. CASE Accept \/ Admit \/ ListenerEnds \/ UNCHANGED vars
  BY <1>6 DEF Accept, Admit, ListenerEnds, services, marks, ui, vars
<1>7. ASSUME NEW c \in Conns, Conn(c) PROVE PhaseInv'
  BY <1>7 DEF Conn, ConnAsks, UserAnswers, ConnEnds, ConnClosesAgain, ConnLeaves, services, marks, ui
<1> QED
  BY <1>1, <1>2, <1>3, <1>4, <1>5, <1>6, <1>7 DEF Next, Ui

\* What of the state the announcements are about.
served == <<server, tls, protocol, disc, told, changed, quitting>>

LEMMA ServedStep == ASSUME FlagsOK, RestOK, PhaseInv, ServedInv, [Next]_vars PROVE ServedInv'
<1> USE DEF ServedInv, AnnouncedIsServed
<1>1. CASE UNCHANGED <<served, config>>
  BY <1>1 DEF served
<1>2. CASE Load \/ LoadSecurity
  <2>1. UNCHANGED served /\ server = None /\ told = None
    BY <1>2 DEF Load, LoadSecurity, served, services, marks, PhaseInv, Starting
  <2> QED BY <2>1 DEF served
<1>3. CASE UserConfirms
  <2>1. /\ UNCHANGED <<server, tls, protocol, disc, told, quitting>>
        /\ changed => changed'
        /\ config'.port # config.port => changed'
    BY <1>3, Zenon DEF UserConfirms, services
  <2> QED BY <2>1
<1>4. CASE StartServices
  <2>1. /\ server = None /\ told = None /\ ~quitting /\ UNCHANGED <<told, quitting, changed, config>>
        /\ disc # "running"
    BY <1>4 DEF StartServices, PhaseInv, Starting, marks, settings
  <2>2. PICK h \in {FALSE, config.https} :
          /\ protocol' = h
          /\ \/ server' = [port |-> config.port, https |-> h] /\ tls' = h
             \/ UNCHANGED <<server, tls, disc>>
    BY <1>4, Zenon DEF StartServices, Protocol, services
  <2>3. CASE server' = [port |-> config.port, https |-> h] /\ tls' = h
    <3>1. server'.https = protocol' /\ server'.port = config.port
      BY <2>2, <2>3
    <3>2. protocol' => tls'
      BY <2>2, <2>3, Zenon
    <3>3. config.port \in Ports /\ config.https \in BOOLEAN
      BY FieldType DEF RestOK
    <3>4. h \in BOOLEAN
      BY <2>2, <3>3, Zenon
    <3>5. server' # None
      BY <2>3, <3>3, <3>4, WriteType, ConstantFacts, Zenon
    <3> QED BY <2>1, <3>1, <3>2, <3>5
  <2> QED BY <2>1, <2>2, <2>3
<1>5. CASE Announce
  <2>1. /\ UNCHANGED <<server, tls, protocol, disc, changed, quitting, config>>
        /\ told' = [port |-> config.port, https |-> protocol] /\ disc = "running"
    BY <1>5 DEF Announce, services, ui, settings
  <2>2. told'.https = protocol /\ told'.port = config.port
    BY <2>1
  <2> QED BY <2>1, <2>2
<1>6. CASE UserQuits \/ DiscoveryEnds
  BY <1>6 DEF UserQuits, DiscoveryEnds, ui, marks, settings
<1>7. CASE StopConnections
  <2>1. quitting /\ UNCHANGED <<quitting, disc>> /\ disc # "running"
    BY <1>7 DEF StopConnections, PhaseInv, Ending, Shutdown
  <2> QED BY <2>1
<1>8. CASE Exit \/ Crash
  BY <1>8 DEF Exit, Crash, Off
<1>9. CASE Save \/ ApplySettingChange \/ UserEdits \/ StopDiscovery \/ StopListener \/ SaveAtExit
           \/ DrainUiEventsQuiet
  <2>1. UNCHANGED <<served, config>>
    BY <1>9 DEF Save, ApplySettingChange, UserEdits, StopDiscovery, StopListener, SaveAtExit,
                DrainUiEventsQuiet, served, services, marks, ui, settings
  <2> QED BY <2>1, <1>1
<1>10. CASE Accept \/ Admit \/ ListenerEnds \/ UNCHANGED vars
  BY <1>10, <1>1 DEF Accept, Admit, ListenerEnds, served, services, marks, ui, settings, vars
<1>11. ASSUME NEW c \in Conns, Conn(c) PROVE ServedInv'
  BY <1>11, <1>1 DEF Conn, ConnAsks, UserAnswers, ConnEnds, ConnClosesAgain, ConnLeaves, served,
                     services, marks, ui, settings
<1> QED
  BY <1>2, <1>3, <1>4, <1>5, <1>6, <1>7, <1>8, <1>9, <1>10, <1>11 DEF Next, Ui

\* What peers are told is what the server was started with, also where TLS did
\* not come up, but for a port that was changed since (StartServices,
\* BuildDeviceInfo).
THEOREM AnnouncedTheorem == Spec => []AnnouncedIsServed
<1> DEFINE All == FlagsOK /\ RestOK /\ SettingsInv /\ PhaseInv /\ ServedInv
<1>1. All /\ [Next]_vars => All'
  BY FlagsStep, RestStep, SettingsStep, PhaseStep, ServedStep
<1>2. All => AnnouncedIsServed
  BY DEF ServedInv
<1>3. Init => All
  BY InitType, InitFlags, SettingsInit, PhaseInit
<1> HIDE DEF All
<1> QED
  BY <1>1, <1>2, <1>3, PTL DEF Spec

-----------------------------------------------------------------------------
(* The pool                                                                 *)

\* What of the state the pool is about.
poolAbout == <<listener, accepted, conn, handle, open, active, stolen>>

LEMMA PoolStutter == ASSUME PoolInv, UNCHANGED poolAbout PROVE PoolInv'
  BY DEF PoolInv, Busy, Threads, poolAbout

LEMMA ThreadsFinite == IsFiniteSet(Threads) /\ Cardinality(Threads) \in Nat
  BY ConstantFacts, FS_Subset, FS_CardinalityType, Threads \subseteq Conns DEF Threads

LEMMA NoThreads ==
  ASSUME conn = [c \in Conns |-> "none"], open = {}, active = 0, accepted = None, listener = "none"
  PROVE  PoolInv
<1>1. Threads = {}
  BY DEF Threads, Alive
<1>2. Cardinality(Threads) = 0
  BY <1>1, FS_EmptySet
<1> QED
  BY <1>2, ConstantFacts DEF PoolInv, Busy

LEMMA PoolInit == Init => PoolInv
  BY NoThreads DEF Init

LEMMA AcceptKeepsPool == ASSUME RestOK, PoolInv, Accept PROVE PoolInv'
<1>1. PICK h \in Handles \ open : accepted' = h /\ open' = open \cup {h}
  BY DEF Accept
<1>2. /\ accepted = None /\ listener' = "admit"
      /\ UNCHANGED <<conn, handle, active, stolen>> /\ UNCHANGED Threads
  BY DEF Accept, marks, PoolInv, Threads
<1>3. ~stolen => \A c \in Conns : Busy(c) => handle[c] # h
  BY <1>1 DEF PoolInv
<1>4. \A c \in Conns : Busy(c)' <=> Busy(c)
  BY <1>2 DEF Busy
<1>5. active' = Cardinality(Threads') /\ active' <= MaxConnections
  BY <1>2 DEF PoolInv
<1>6. accepted' # None
  BY <1>1, ConstantFacts
<1>7. \A g \in open' : g = accepted' \/ \E c \in Conns : handle'[c] = g /\ conn'[c] \in Alive
  BY <1>1, <1>2, ConstantFacts DEF PoolInv, RestOK
<1>8. ~stolen' =>
        /\ accepted' # None => accepted' \in open' /\ \A c \in Conns : Busy(c)' => handle'[c] # accepted'
        /\ \A c \in Conns : Busy(c)' =>
             handle'[c] \in open' /\ \A d \in Conns : Busy(d)' /\ handle'[d] = handle'[c] => d = c
  BY <1>1, <1>2, <1>3, <1>4 DEF PoolInv
<1> QED
  BY <1>2, <1>5, <1>6, <1>7, <1>8 DEF PoolInv

\* A thread that was free serves the handle.
LEMMA AdmitServes ==
  ASSUME RestOK, PoolInv, NEW n \in Conns, conn[n] = "none", active < MaxConnections, accepted # None,
         conn' = [conn EXCEPT ![n] = "serving"], handle' = [handle EXCEPT ![n] = accepted],
         active' = active + 1, open' = open, accepted' = None, listener' # "admit", stolen' = stolen
  PROVE  PoolInv'
<1>1. conn'[n] = "serving" /\ handle'[n] = accepted
      /\ \A c \in Conns : c # n => conn'[c] = conn[c] /\ handle'[c] = handle[c]
  BY DEF RestOK
<1>2. Threads' = Threads \cup {n} /\ n \notin Threads
  BY <1>1 DEF Threads, Alive
<1>3. active' = Cardinality(Threads') /\ active' <= MaxConnections
  <2>1. Cardinality(Threads \cup {n}) = Cardinality(Threads) + 1
    BY <1>2, ThreadsFinite, FS_AddElement
  <2>2. active = Cardinality(Threads) /\ active \in Int
    BY DEF PoolInv, RestOK
  <2> QED BY <1>2, <2>1, <2>2, ConstantFacts
<1>4. \A c \in Conns : Busy(c)' <=> Busy(c) \/ c = n
  BY <1>1 DEF Busy
<1>5. \A c \in Conns : conn'[c] = "leaving" => handle'[c] = None
  BY <1>1 DEF PoolInv
<1>6. \A g \in open' : g = accepted' \/ \E c \in Conns : handle'[c] = g /\ conn'[c] \in Alive
  <2>1. \A g \in open : g = accepted \/ \E c \in Conns : handle[c] = g /\ conn[c] \in Alive /\ c # n
    BY DEF PoolInv, Alive
  <2>2. conn'[n] \in Alive
    BY <1>1 DEF Alive
  <2> QED BY <1>1, <2>1, <2>2
<1>7. ~stolen => \A c \in Conns : Busy(c)' =>
        handle'[c] \in open' /\ \A d \in Conns : Busy(d)' /\ handle'[d] = handle'[c] => d = c
  BY <1>1, <1>4 DEF PoolInv, Busy
<1> QED
  BY <1>3, <1>5, <1>6, <1>7 DEF PoolInv

\* The handle is closed, and nobody has it.
LEMMA AdmitRefuses ==
  ASSUME RestOK, PoolInv, accepted # None, open' = open \ {accepted}, UNCHANGED <<conn, handle, active>>,
         accepted' = None, listener' # "admit", stolen' = stolen
  PROVE  PoolInv'
<1>1. \A c \in Conns : Busy(c)' <=> Busy(c)
  BY DEF Busy
<1>2. active' = Cardinality(Threads') /\ active' <= MaxConnections
  BY DEF PoolInv, Threads
<1>3. ~stolen => \A c \in Conns : Busy(c)' =>
        handle'[c] \in open' /\ \A d \in Conns : Busy(d)' /\ handle'[d] = handle'[c] => d = c
  BY <1>1 DEF PoolInv
<1> QED
  BY <1>2, <1>3 DEF PoolInv

LEMMA AdmitKeepsPool == ASSUME RestOK, PoolInv, Admit PROVE PoolInv'
<1>1. accepted # None /\ accepted' = None /\ listener' # "admit" /\ stolen' = stolen
  BY DEF Admit, PoolInv, marks
<1>2. CASE ~Full /\ \E c \in Conns : Free(c)
  <2> DEFINE n == CHOOSE c \in Conns : Free(c)
  <2>1. n \in Conns /\ conn[n] = "none"
    BY <1>2 DEF Free
  <2>2. active < MaxConnections
    BY <1>2, ConstantFacts DEF Full, RestOK
  <2>3. CASE /\ conn' = [conn EXCEPT ![n] = "serving"] /\ handle' = [handle EXCEPT ![n] = accepted]
             /\ active' = active + 1 /\ open' = open
    <3> HIDE DEF n
    <3> QED BY <1>1, <2>1, <2>2, <2>3, AdmitServes
  <2>4. CASE open' = open \ {accepted} /\ UNCHANGED <<conn, handle, active>>
    BY <1>1, <2>4, AdmitRefuses
  <2> QED BY <2>3, <2>4 DEF Admit
<1>3. CASE open' = open \ {accepted} /\ UNCHANGED <<conn, handle, active>>
  BY <1>1, <1>3, AdmitRefuses
<1> QED
  BY <1>2, <1>3 DEF Admit

LEMMA ConnKeepsPool == ASSUME RestOK, PoolInv, NEW n \in Conns, Conn(n) PROVE PoolInv'
<1>0. UNCHANGED <<listener, accepted>>
  BY DEF Conn, ConnAsks, UserAnswers, ConnEnds, ConnClosesAgain, ConnLeaves
<1>1. CASE ConnAsks(n) \/ UserAnswers(n)
  <2>1. /\ UNCHANGED <<handle, open, active, stolen>> /\ conn[n] \in {"serving", "asking"}
        /\ conn'[n] \in {"serving", "asking"} /\ \A c \in Conns : c # n => conn'[c] = conn[c]
    BY <1>1 DEF ConnAsks, UserAnswers, marks, RestOK
  <2>2. \A c \in Conns : (conn'[c] \in Alive <=> conn[c] \in Alive)
                         /\ (conn'[c] \in {"serving", "asking"} <=> conn[c] \in {"serving", "asking"})
                         /\ (conn'[c] = "leaving" <=> conn[c] = "leaving")
                         /\ (conn'[c] = "none" <=> conn[c] = "none")
    BY <2>1 DEF Alive
  <2>3. UNCHANGED Threads
    BY <2>2 DEF Threads
  <2> QED BY <1>0, <2>1, <2>2, <2>3, ConstantFacts DEF PoolInv, Busy, RestOK
<1>2. CASE ConnEnds(n) \/ ConnClosesAgain(n)
  <2>1. /\ conn[n] \in {"serving", "closing"} /\ conn'[n] \in {"closing", "leaving"}
        /\ \A c \in Conns : c # n => conn'[c] = conn[c] /\ handle'[c] = handle[c]
        /\ conn'[n] = "leaving" => handle'[n] = None
        /\ open' = open \ {handle[n]} /\ UNCHANGED active
    BY <1>2 DEF ConnEnds, ConnClosesAgain, RestOK
  <2>2. UNCHANGED Threads
    BY <2>1 DEF Threads, Alive
  <2>3. \A c \in Conns : Busy(c)' => Busy(c) /\ c # n
    BY <2>1 DEF Busy
  <2>4. \A g \in open' : g = accepted' \/ \E c \in Conns : handle'[c] = g /\ conn'[c] \in Alive
    BY <1>0, <2>1 DEF PoolInv
  <2>5. ~stolen' => ~stolen /\ (handle[n] \in open => Busy(n))
    BY <1>2, Zenon DEF ConnEnds, ConnClosesAgain, marks, Busy
  <2>6. ~stolen' => \A c \in Conns : Busy(c)' =>
          handle'[c] \in open' /\ \A d \in Conns : Busy(d)' /\ handle'[d] = handle'[c] => d = c
    BY <2>1, <2>3, <2>5 DEF PoolInv
  <2>7. \A c \in Conns : conn'[c] = "leaving" => handle'[c] = None
    BY <2>1 DEF PoolInv
  <2>8. ~stolen' => (accepted' # None => accepted' \in open'
                       /\ \A c \in Conns : Busy(c)' => handle'[c] # accepted')
    BY <1>0, <2>1, <2>3, <2>5 DEF PoolInv
  <2> QED BY <1>0, <2>1, <2>2, <2>4, <2>6, <2>7, <2>8 DEF PoolInv
<1>3. CASE ConnLeaves(n)
  <2>1. /\ conn[n] = "leaving" /\ conn'[n] = "none" /\ \A c \in Conns : c # n => conn'[c] = conn[c]
        /\ UNCHANGED <<handle, open, stolen>> /\ active' = active - 1 /\ handle[n] = None
    BY <1>3 DEF ConnLeaves, marks, RestOK, PoolInv
  <2>2. Threads' = Threads \ {n} /\ n \in Threads
    BY <2>1 DEF Threads, Alive
  <2>3. active' = Cardinality(Threads') /\ active' <= MaxConnections
    <3>1. Cardinality(Threads \ {n}) = Cardinality(Threads) - 1
      BY <2>2, ThreadsFinite, FS_RemoveElement
    <3>2. active = Cardinality(Threads) /\ active <= MaxConnections /\ active \in Int
      BY DEF PoolInv, RestOK
    <3> QED BY <2>1, <2>2, <3>1, <3>2, ConstantFacts
  <2>5. \A c \in Conns : Busy(c)' <=> Busy(c)
    BY <2>1 DEF Busy
  <2>6. \A g \in open' : g = accepted' \/ \E c \in Conns : handle'[c] = g /\ conn'[c] \in Alive
    BY <1>0, <2>1, ConstantFacts DEF PoolInv, RestOK
  <2>7. \A c \in Conns : conn'[c] = "leaving" => handle'[c] = None
    BY <2>1 DEF PoolInv
  <2>8. ~stolen' =>
          /\ accepted' # None => accepted' \in open' /\ \A c \in Conns : Busy(c)' => handle'[c] # accepted'
          /\ \A c \in Conns : Busy(c)' =>
               handle'[c] \in open' /\ \A d \in Conns : Busy(d)' /\ handle'[d] = handle'[c] => d = c
    BY <1>0, <2>1, <2>5 DEF PoolInv
  <2> QED BY <1>0, <2>3, <2>6, <2>7, <2>8 DEF PoolInv
<1> QED
  BY <1>1, <1>2, <1>3 DEF Conn

LEMMA PoolStep == ASSUME RestOK, PhaseInv, PoolInv, [Next]_vars PROVE PoolInv'
<1>1. CASE Load \/ LoadSecurity \/ Save \/ UserConfirms \/ ApplySettingChange \/ UserEdits
  BY <1>1, PoolStutter DEF Load, LoadSecurity, Save, UserConfirms, ApplySettingChange, UserEdits,
                           pool, marks, poolAbout
<1>2. CASE UserQuits \/ DiscoveryEnds \/ StopDiscovery \/ StopListener \/ StopConnections \/ SaveAtExit
           \/ Announce \/ UNCHANGED vars
  BY <1>2, PoolStutter DEF UserQuits, DiscoveryEnds, StopDiscovery, StopListener, StopConnections,
                           SaveAtExit, Announce, pool, marks, poolAbout, vars
<1>3. CASE StartServices \/ ListenerEnds
  <2>1. /\ UNCHANGED <<accepted, conn, handle, open, active, stolen>> /\ accepted = None
        /\ listener' # "admit"
    BY <1>3 DEF StartServices, ListenerEnds, marks, PoolInv, PhaseInv, Starting
  <2> QED BY <2>1 DEF PoolInv, Busy, Threads
<1>4. CASE DrainUiEventsQuiet
  <2>1. UNCHANGED <<listener, accepted, handle, open, active, stolen>>
    BY <1>4 DEF DrainUiEventsQuiet, marks
  <2>2. \A c \in Conns : conn'[c] = IF conn[c] = "asking" THEN "serving" ELSE conn[c]
    BY <1>4 DEF DrainUiEventsQuiet
  <2>3. \A c \in Conns : (conn'[c] \in Alive <=> conn[c] \in Alive)
                         /\ (conn'[c] \in {"serving", "asking"} <=> conn[c] \in {"serving", "asking"})
                         /\ (conn'[c] = "leaving" <=> conn[c] = "leaving")
                         /\ (conn'[c] = "none" <=> conn[c] = "none")
    BY <2>2 DEF Alive
  <2>4. UNCHANGED Threads
    BY <2>3 DEF Threads
  <2> QED BY <2>1, <2>3, <2>4, ConstantFacts DEF PoolInv, Busy, RestOK
<1>5. CASE Exit \/ Crash
  <2>1. /\ conn' = [c \in Conns |-> "none"] /\ open' = {} /\ active' = 0 /\ accepted' = None
        /\ listener' = "none"
    BY <1>5 DEF Exit, Crash, Off
  <2>2. Threads' = {}
    BY <2>1 DEF Threads, Alive
  <2>3. Cardinality(Threads') = 0
    BY <2>2, FS_EmptySet
  <2> QED
    BY <2>1, <2>3, ConstantFacts DEF PoolInv, Busy
<1> QED
  BY <1>1, <1>2, <1>3, <1>4, <1>5, AcceptKeepsPool, AdmitKeepsPool, ConnKeepsPool DEF Next, Ui

\* The count of the threads is exact and kMaxConnections a bound for any number
\* of them; no handle is left over; and a connection that is served has its
\* handle to itself until a second close hits it (ListenLoop, ConnectionEntry).
THEOREM PoolTheorem == Spec => []PoolExact
<1> DEFINE All == FlagsOK /\ RestOK /\ SettingsInv /\ PhaseInv /\ ServedInv /\ PoolInv
<1>1. All /\ [Next]_vars => All'
  BY FlagsStep, RestStep, SettingsStep, PhaseStep, ServedStep, PoolStep
<1>2. All => PoolExact
  BY DEF PoolInv, PoolExact, Busy, Threads
<1>3. Init => All
  BY InitType, InitFlags, SettingsInit, PhaseInit, PoolInit
<1> HIDE DEF All
<1> QED
  BY <1>1, <1>2, <1>3, PTL DEF Spec
=============================================================================
