---------------------------- MODULE GnssControl ----------------------------
(***************************************************************************)
(* The path of the framework's control calls to the engine: the HIDL       *)
(* services Gnss, GnssConfiguration and AGnss, GnssAPIClient,              *)
(* LocationAPIControlClient, LocationControlAPI, the interface table of    *)
(* libgnss and, on the adapter's thread, GnssAdapter's handlers for        *)
(* enable, disable, capabilities, configuration and engine restarts.       *)
(*                                                                         *)
(* A configuration item is a number of the framework, an enumeration or a  *)
(* set of bits in GnssConfig and in the engine, and a number again in      *)
(* mGps_conf: each of the conversions is the code's.  An update names one  *)
(* item, as every setter does, and updates are merged until the API        *)
(* exists.  A call of the engine may fail.  The engine forgets what        *)
(* MsgSetConfig re-sends when it goes down; the modem keeps the lock.      *)
(***************************************************************************)
EXTENDS Naturals, Sequences, FiniteSets

CONSTANTS
  Updates,               \* <<item, number>>: what the framework sets
  GpsConf,               \* the items gps.conf gives a value, with their values
  CAPABILITIES,          \* of gps.conf: which of MSB and MSA
  AGPS_CONFIG_INJECT,    \* of gps.conf
  IdWrap,                \* 0xFFFFFFFF, where session ids wrap around
  MaxFailedCalls,        \* bound: calls of a running engine that fail in one handler
  MaxControlMsgs         \* bound: messages waiting for the adapter's thread

Injected == {"SUPL_VER", "LPP_PROFILE", "A_GLONASS_POS_PROTOCOL_SELECT"}
Plain == {"LPPE_CP_TECHNOLOGY", "LPPE_UP_TECHNOLOGY"}
Local == {"USE_EMERGENCY_PDN_FOR_EMERGENCY_SUPL", "SUPL_ES", "SUPL_MODE"}
Lock == "GPS_LOCK"
Server == "SUPL_HOST"
ConfItems == Injected \cup Plain \cup Local \cup {Lock, Server}
UpdatedItems == {u[1] : u \in Updates}

(* The items the HIDL services have a setter for.                          *)
Settable == Injected \cup Local \cup {Lock, Server}

(* The framework sets nothing else, and there is a session id besides 0.   *)
ASSUME ControlAssumption == UpdatedItems \subseteq Settable /\ IdWrap \in Nat /\ IdWrap > 1

(* gps.conf gives its items unsigned numbers; of the name of the server    *)
(* only whether there is one is kept.                                      *)
ASSUME GpsConfAssumption ==
  \A i \in DOMAIN GpsConf \cap ConfItems : GpsConf[i] \in Nat /\ (i = Server => GpsConf[i] \in 0..1)

(* What MsgSetConfig sends whenever the engine comes up.                   *)
Resent == Plain \cup (IF AGPS_CONFIG_INJECT THEN Injected ELSE {})

-----------------------------------------------------------------------------
(* The setters of the HIDL services: which numbers each one accepts and    *)
(* what it puts into GnssConfig.                                           *)
setGpsLock ==
  [n \in 0..3 |-> CASE n = 0 -> "NONE" [] n = 1 -> "MO" [] n = 2 -> "NI" [] n = 3 -> "MO_AND_NI"]
setSuplVersion ==
  [n \in {131074, 131072, 65536} |->
     CASE n = 131074 -> "2_0_2" [] n = 131072 -> "2_0_0" [] n = 65536 -> "1_0_0"]
setLppProfile ==
  [n \in 0..3 |-> CASE n = 0 -> "RRLP_ON_LTE" [] n = 1 -> "UP" [] n = 2 -> "CP" [] n = 3 -> "UP_AND_CP"]
setSuplMode ==
  [n \in 0..3 |-> CASE n = 0 -> {} [] n = 1 -> {"MSB"} [] n = 2 -> {"MSA"} [] n = 3 -> {"MSB", "MSA"}]
setSuplEs == [n \in 0..1 |-> IF n = 1 THEN "YES" ELSE "NO"]
setEmergencySuplPdn == [n \in 0..1 |-> IF n = 1 THEN "YES" ELSE "NO"]
setServer == [n \in 0..1 |-> IF n = 1 THEN "host:port" ELSE ""]

(* Masks: the names of the bits, from bit 0 up; all have four or fewer.    *)
SuplModeBits == <<"MSB", "MSA">>
AGloBits == <<"RRC_CP", "RRLP_UP", "LLP_UP", "LLP_CP">>
LppeBits == <<"DBH", "WLAN_AP", "SRN_AP", "BARO">>
Weight == <<1, 2, 4, 8>>
HasBit(mask, b) == (mask \div Weight[b]) % 2 = 1
FromMask(bits, mask) == {bits[b] : b \in {k \in DOMAIN bits : HasBit(mask, k)}}
ToMask(bits, names) ==
  LET bit(b) == IF b \in DOMAIN bits /\ bits[b] \in names THEN Weight[b] ELSE 0 IN
  bit(1) + bit(2) + bit(3) + bit(4)
setGlonassPositioningProtocol == [p \in 0..255 |-> FromMask(AGloBits, p)]

Setter(item) ==
  CASE item = "GPS_LOCK" -> setGpsLock
    [] item = "SUPL_VER" -> setSuplVersion
    [] item = "LPP_PROFILE" -> setLppProfile
    [] item = "SUPL_MODE" -> setSuplMode
    [] item = "SUPL_ES" -> setSuplEs
    [] item = "SUPL_HOST" -> setServer
    [] item = "USE_EMERGENCY_PDN_FOR_EMERGENCY_SUPL" -> setEmergencySuplPdn
    [] item = "A_GLONASS_POS_PROTOCOL_SELECT" -> setGlonassPositioningProtocol

(* GnssAdapter's conversions of GnssConfig to the numbers of mGps_conf.    *)
convertGpsLock(lock) ==
  CASE lock = "MO" -> 1 [] lock = "NI" -> 2 [] lock = "MO_AND_NI" -> 3 [] OTHER -> 0
convertSuplVersion(version) ==
  CASE version = "2_0_0" -> 131072 [] version = "2_0_2" -> 131074 [] OTHER -> 65536
convertLppProfile(profile) ==
  CASE profile = "UP" -> 1 [] profile = "CP" -> 2 [] profile = "UP_AND_CP" -> 3 [] OTHER -> 0
convertYes(answer) == IF answer = "YES" THEN 1 ELSE 0
convertLppe(names) == ToMask(LppeBits, names)
convertAGloProt(names) == ToMask(AGloBits, names)
convertSuplMode(names) == ToMask(SuplModeBits, names)

Stored(item, v) ==
  CASE item = "GPS_LOCK" -> convertGpsLock(v)
    [] item = "SUPL_VER" -> convertSuplVersion(v)
    [] item = "LPP_PROFILE" -> convertLppProfile(v)
    [] item = "SUPL_MODE" -> convertSuplMode(v)
    [] item \in Plain -> convertLppe(v)
    [] item = "A_GLONASS_POS_PROTOCOL_SELECT" -> convertAGloProt(v)
    [] OTHER -> convertYes(v)

(* And the way back, for what the engine is told out of mGps_conf.         *)
GpsLockOf(n) == CASE n = 1 -> "MO" [] n = 2 -> "NI" [] n = 3 -> "MO_AND_NI" [] OTHER -> "NONE"
SuplVersionOf(n) == CASE n = 131072 -> "2_0_0" [] n = 131074 -> "2_0_2" [] OTHER -> "1_0_0"
LppProfileOf(n) == CASE n = 1 -> "UP" [] n = 2 -> "CP" [] n = 3 -> "UP_AND_CP" [] OTHER -> "RRLP_ON_LTE"
LppeOf(n) == FromMask(LppeBits, n)

ToEngine(item, n) ==
  CASE item = "GPS_LOCK" -> GpsLockOf(n)
    [] item = "SUPL_VER" -> SuplVersionOf(n)
    [] item = "LPP_PROFILE" -> LppProfileOf(n)
    [] item \in Plain -> LppeOf(n)
    [] item = "SUPL_MODE" -> FromMask(SuplModeBits, n)
    [] item = "A_GLONASS_POS_PROTOCOL_SELECT" -> FromMask(AGloBits, n)
    [] item = "SUPL_HOST" -> setServer[n]
    [] OTHER -> IF n = 1 THEN "YES" ELSE "NO"

(* The defaults, and gps.conf read over them.                              *)
Defaults ==
  [i \in ConfItems |->
     CASE i = "SUPL_VER" -> 65536
       [] i \in {"SUPL_MODE", "USE_EMERGENCY_PDN_FOR_EMERGENCY_SUPL"} -> 1
       [] OTHER -> 0]
gpsConfRead == [i \in ConfItems |-> IF i \in DOMAIN GpsConf THEN GpsConf[i] ELSE Defaults[i]]

(* getCarrierCapabilities, in what getCapabilities makes of it.            *)
getCapabilities(conf) == CAPABILITIES \cap FromMask(SuplModeBits, conf["SUPL_MODE"])

-----------------------------------------------------------------------------
VARIABLES
  mGnssCbIface,          \* Gnss: has the framework set its callback
  mCached,               \* GnssAPIClient: <<mLocationCapabilitiesMask>> once it is cached
  mApi,                  \* Gnss: has the API client been created
  mPendingConfig,        \* Gnss: updates merged before that, a function on items
  mEnabled,              \* LocationAPIControlClient
  ctrlSession,           \* session of mRequestQueues[CTRL_REQUEST_CONTROL]
  mConfig,               \* LocationAPIControlClient: the last update passed on
  mSessionIdCounter,     \* LocAdapterBase
  mPowerVoteId,          \* GnssAdapter
  mGps_conf,             \* ContextBase
  mServerUrl,            \* GnssAdapter
  modemVote,             \* the last modemPowerVote
  engineConf,            \* what the engine was last told, by item
  engineRuns,            \* is the engine up
  failed,                \* items whose last call of the engine failed
  told,                  \* <<capabilities>> the framework's callback was told, or <<>>
  wanted,                \* what the framework last asked for, by item
  controlQ               \* messages of the adapter's thread

clientVars == <<mGnssCbIface, mApi, mPendingConfig, mEnabled, ctrlSession, mConfig, wanted>>
engineVars == <<engineConf, engineRuns, failed>>
capVars == <<mCached, told>>
controlVars == <<clientVars, engineVars, capVars, mSessionIdCounter, mPowerVoteId, mGps_conf,
                 mServerUrl, modemVote, controlQ>>

(* A GnssConfig: some items, each with a value its setter produces.        *)
IsConfig(config) == \A i \in DOMAIN config : \E n \in DOMAIN Setter(i) : config[i] = Setter(i)[n]

(* A vote's message has a session id, an update's a configuration.         *)
IsControlMsg(msg) ==
  \/ msg.type \in {"enable", "disable"} /\ msg.id \in 1..(IdWrap - 1)
  \/ msg.type \in {"readConfig", "setConfig", "capabilities"}
  \/ msg.type = "update" /\ IsConfig(msg.config)

(* Every variable of the control path has its type.                        *)
ControlTypeOK ==
  /\ {mGnssCbIface, mApi, mEnabled, modemVote, engineRuns} \subseteq BOOLEAN
  /\ IsConfig(mPendingConfig) /\ IsConfig(mConfig)
  /\ DOMAIN wanted \subseteq UpdatedItems
  /\ {ctrlSession, mPowerVoteId} \subseteq 0..(IdWrap - 1)
  /\ mSessionIdCounter \in 1..(IdWrap - 1)
  /\ mGps_conf \in [ConfItems -> Nat] /\ DOMAIN engineConf = ConfItems
  /\ mServerUrl \in {":", "", "host:port"}
  /\ \A c \in {mCached, told} : Len(c) <= 1 /\ \A k \in DOMAIN c : c[k] \subseteq CAPABILITIES
  /\ failed \subseteq ConfItems
  /\ \A k \in DOMAIN controlQ : IsControlMsg(controlQ[k])

ControlInit ==
  /\ mGnssCbIface = FALSE /\ mApi = FALSE /\ mPendingConfig = << >>
  /\ mEnabled = FALSE /\ ctrlSession = 0 /\ mConfig = << >> /\ wanted = << >>
  /\ mSessionIdCounter = 1 /\ mPowerVoteId = 0
  /\ mGps_conf = [i \in ConfItems |-> 0]
  /\ mServerUrl = ":" /\ modemVote = FALSE /\ told = <<>> /\ mCached = <<>>
  /\ engineConf = [i \in ConfItems |-> ToEngine(i, 0)] /\ engineRuns = TRUE /\ failed = {}
  /\ controlQ = <<>>

-----------------------------------------------------------------------------
(* The adapter's commands, on the caller's thread.                         *)

(* The n-th id from now: 1 follows IdWrap - 1.                             *)
generateSessionId(n) == ((mSessionIdCounter + n - 1) % (IdWrap - 1)) + 1

enableCommand ==
  /\ mSessionIdCounter' = generateSessionId(1)
  /\ controlQ' = Append(controlQ, [type |-> "enable", id |-> generateSessionId(1)])
  /\ modemVote' = TRUE

disableCommand(id) ==
  /\ controlQ' = Append(controlQ, [type |-> "disable", id |-> id])
  /\ modemVote' = FALSE
  /\ UNCHANGED mSessionIdCounter

(* One session id per item of the update.                                  *)
gnssUpdateConfigCommand(config) ==
  /\ mSessionIdCounter' = generateSessionId(Cardinality(DOMAIN config))
  /\ controlQ' = Append(controlQ, [type |-> "update", config |-> config])
  /\ UNCHANGED modemVote

-----------------------------------------------------------------------------
(* LocationAPIControlClient, with the queue of CTRL_REQUEST_CONTROL kept   *)
(* as its session: what a response does with a request changes nothing.    *)

locAPIEnable ==
  IF mEnabled
    THEN UNCHANGED <<mEnabled, ctrlSession, mSessionIdCounter, modemVote, controlQ>>
    ELSE enableCommand /\ mEnabled' = TRUE /\ ctrlSession' = generateSessionId(1)

\* Mutant: the vote of an earlier session is released.
DisableStale ==
  IF mEnabled /\ ctrlSession > 0
    THEN disableCommand(IF ctrlSession > 1 THEN ctrlSession - 1 ELSE 1) /\ mEnabled' = FALSE /\ UNCHANGED ctrlSession
    ELSE UNCHANGED <<mEnabled, ctrlSession, mSessionIdCounter, modemVote, controlQ>>

locAPIDisable ==
  IF mEnabled /\ ctrlSession > 0
    THEN disableCommand(ctrlSession) /\ mEnabled' = FALSE /\ UNCHANGED ctrlSession
    ELSE UNCHANGED <<mEnabled, ctrlSession, mSessionIdCounter, modemVote, controlQ>>

(* An update equal to the last one is not passed on.                       *)
locAPIGnssUpdateConfig(config) ==
  IF config = mConfig \/ DOMAIN config = {}
    THEN UNCHANGED <<mConfig, mSessionIdCounter, modemVote, controlQ>>
    ELSE gnssUpdateConfigCommand(config) /\ mConfig' = config

-----------------------------------------------------------------------------
(* The HIDL services.                                                      *)

(* The first call creates the API client and with it the adapter, which    *)
(* posts MsgReadConfig and MsgSetConfig; LocationAPI asks for capabilities *)
(* and the pending configuration is passed on.  setCallback then enables.  *)
getApi(enable) ==
  LET n == Cardinality(DOMAIN mPendingConfig)
      last == generateSessionId(IF enable THEN n + 1 ELSE n)
  IN
  /\ controlQ' = controlQ \o <<[type |-> "readConfig"], [type |-> "setConfig"], [type |-> "capabilities"]>>
                   \o (IF n > 0 THEN <<[type |-> "update", config |-> mPendingConfig]>> ELSE <<>>)
                   \o (IF enable THEN <<[type |-> "enable", id |-> last]>> ELSE <<>>)
  /\ mApi' = TRUE /\ mConfig' = mPendingConfig /\ mPendingConfig' = << >>
  /\ mSessionIdCounter' = last
  /\ IF enable THEN ctrlSession' = last /\ mEnabled' = TRUE /\ modemVote' = TRUE
               ELSE UNCHANGED <<ctrlSession, mEnabled, modemVote>>

(* onCapabilitiesCb: cached, and passed to the framework's callback.       *)
onCapabilitiesCb(mask) ==
  /\ mCached' = <<mask>>
  /\ told' = IF mGnssCbIface THEN <<mask>> ELSE told

(* A new callback has been told nothing; it is told what is cached.        *)
setCallback ==
  /\ mGnssCbIface' = TRUE
  /\ IF mApi THEN locAPIEnable /\ UNCHANGED <<mApi, mConfig, mPendingConfig>> ELSE getApi(TRUE)
  /\ told' = mCached
  /\ UNCHANGED <<engineVars, mCached, mPowerVoteId, mGps_conf, mServerUrl, wanted>>

setGnssNiCb ==
  /\ ~mApi /\ getApi(FALSE)
  /\ UNCHANGED <<mGnssCbIface, engineVars, capVars, mPowerVoteId, mGps_conf, mServerUrl, wanted>>

(* What becomes of an update before the API exists: the items are merged,  *)
(* but the name of a server is copied only over another one.               *)
pendingConfig(config) ==
  [i \in DOMAIN config \cup DOMAIN mPendingConfig |->
     IF i \notin DOMAIN config THEN mPendingConfig[i] ELSE IF i = Server THEN setServer[0] ELSE config[i]]

(* A setter, which refuses numbers it does not know, and                   *)
(* Gnss::updateConfiguration.                                              *)
updateConfiguration(item, number) ==
  LET config == [i \in {item} |-> Setter(i)[number]] IN
  /\ number \in DOMAIN Setter(item)
  /\ wanted' = [i \in {item} \cup DOMAIN wanted |-> IF i = item THEN number ELSE wanted[i]]
  /\ IF mApi
       THEN locAPIGnssUpdateConfig(config) /\ UNCHANGED mPendingConfig
       ELSE /\ mPendingConfig' = pendingConfig(config)
            /\ UNCHANGED <<mConfig, mSessionIdCounter, modemVote, controlQ>>
  /\ UNCHANGED <<mGnssCbIface, mApi, mEnabled, ctrlSession, engineVars, capVars, mPowerVoteId,
                 mGps_conf, mServerUrl>>

(* cleanup, and serviceDied, which stops the session and cleans up.        *)
cleanup ==
  /\ mApi
  /\ locAPIDisable
  /\ UNCHANGED <<mGnssCbIface, mApi, mPendingConfig, mConfig, wanted, engineVars, capVars,
                 mPowerVoteId, mGps_conf, mServerUrl>>

-----------------------------------------------------------------------------
(* The engine.                                                             *)

EngineDies ==
  /\ mApi /\ engineRuns /\ engineRuns' = FALSE
  /\ engineConf' = [i \in ConfItems |-> IF i \in Resent THEN ToEngine(i, 0) ELSE engineConf[i]]
  /\ UNCHANGED <<clientVars, failed, capVars, mSessionIdCounter, mPowerVoteId, mGps_conf,
                 mServerUrl, modemVote, controlQ>>

EngineComesUp ==
  /\ ~engineRuns /\ engineRuns' = TRUE
  /\ controlQ' = Append(controlQ, [type |-> "setConfig"])
  /\ UNCHANGED <<clientVars, engineConf, failed, capVars, mSessionIdCounter, mPowerVoteId,
                 mGps_conf, mServerUrl, modemVote>>

(* The engine is called for each item of a set; some of the calls fail,    *)
(* and all of them while it is down.                                       *)
CallEngine(items, value(_)) ==
  \E bad \in IF engineRuns THEN {b \in SUBSET items : Cardinality(b) <= MaxFailedCalls} ELSE {items} :
    /\ engineConf' = [i \in ConfItems |-> IF i \in items \ bad THEN value(i) ELSE engineConf[i]]
    /\ failed' = (failed \ items) \cup bad
    /\ UNCHANGED engineRuns

-----------------------------------------------------------------------------
(* The adapter's thread.                                                   *)

ControlHandles(type) ==
  /\ controlQ # <<>> /\ Head(controlQ).type = type /\ controlQ' = Tail(controlQ)
  /\ UNCHANGED <<clientVars, mSessionIdCounter, modemVote>>

MsgEnableGnss ==
  /\ ControlHandles("enable")
  /\ IF mPowerVoteId > 0
       THEN UNCHANGED <<mPowerVoteId, engineVars>>
       ELSE /\ mPowerVoteId' = Head(controlQ).id
            /\ CallEngine({Lock}, LAMBDA i : "NONE")
  /\ UNCHANGED <<mGps_conf, mServerUrl, capVars>>

MsgDisableGnss ==
  /\ ControlHandles("disable")
  /\ IF mPowerVoteId # Head(controlQ).id
       THEN UNCHANGED <<mPowerVoteId, engineVars>>
       ELSE /\ mPowerVoteId' = 0
            /\ CallEngine({Lock}, LAMBDA i : ToEngine(i, mGps_conf[i]))
  /\ UNCHANGED <<mGps_conf, mServerUrl, capVars>>

MsgReadConfig ==
  /\ ControlHandles("readConfig")
  /\ mGps_conf' = gpsConfRead
  /\ UNCHANGED <<engineVars, capVars, mPowerVoteId, mServerUrl>>

MsgRequestCapabilities ==
  /\ ControlHandles("capabilities")
  /\ onCapabilitiesCb(getCapabilities(mGps_conf))
  /\ UNCHANGED <<engineVars, mPowerVoteId, mGps_conf, mServerUrl>>

(* The server is sent only when it differs from the one sent last.         *)
ServerChanges(url) == IF AGPS_CONFIG_INJECT /\ url # mServerUrl THEN {Server} ELSE {}

ControlSetConfig ==
  LET url == ToEngine(Server, mGps_conf[Server]) IN
  /\ ControlHandles("setConfig")
  /\ CallEngine(Resent \cup ServerChanges(url), LAMBDA i : ToEngine(i, mGps_conf[i]))
  /\ mServerUrl' = IF AGPS_CONFIG_INJECT THEN url ELSE mServerUrl
  /\ UNCHANGED <<capVars, mPowerVoteId, mGps_conf>>

\* Mutant: a new lock is sent whether or not the framework holds a vote.
UpdateLocks(config) ==
  {i \in DOMAIN config \cap Resent : Stored(i, config[i]) # mGps_conf[i]}
    \cup (DOMAIN config \cap {Lock})
    \cup (IF Server \in DOMAIN config THEN ServerChanges(config[Server]) ELSE {})

(* The items an update stores, and the ones it calls the engine for.       *)
Stores(config) == DOMAIN config \cap (Resent \cup Local \cup {Lock})
Calls(config) ==
  {i \in DOMAIN config \cap Resent : Stored(i, config[i]) # mGps_conf[i]}
    \cup (IF Lock \in DOMAIN config /\ mPowerVoteId = 0 THEN {Lock} ELSE {})
    \cup (IF Server \in DOMAIN config THEN ServerChanges(config[Server]) ELSE {})

MsgGnssUpdateConfig ==
  LET config == Head(controlQ).config IN
  /\ ControlHandles("update")
  /\ mGps_conf' = [i \in ConfItems |-> IF i \in Stores(config) THEN Stored(i, config[i]) ELSE mGps_conf[i]]
  /\ CallEngine(Calls(config), LAMBDA i : config[i])
  /\ mServerUrl' = IF Server \in Calls(config) THEN config[Server] ELSE mServerUrl
  /\ IF mGps_conf'["SUPL_MODE"] # mGps_conf["SUPL_MODE"]
       THEN onCapabilitiesCb(getCapabilities(mGps_conf')) ELSE UNCHANGED capVars
  /\ UNCHANGED mPowerVoteId

ControlNext ==
  \/ MsgEnableGnss \/ MsgDisableGnss \/ MsgReadConfig \/ MsgRequestCapabilities
  \/ ControlSetConfig \/ MsgGnssUpdateConfig
  \/ EngineDies
  \/ /\ Len(controlQ) < MaxControlMsgs
     /\ \/ setCallback \/ setGnssNiCb \/ cleanup \/ EngineComesUp
        \/ \E u \in Updates : updateConfiguration(u[1], u[2])

ControlSpec == ControlInit /\ [][ControlNext]_controlVars

-----------------------------------------------------------------------------
(* When nothing waits to be handled, mGps_conf holds the numbers the       *)
(* framework last set, whether it set them before or after the API was     *)
(* created, and the running engine was told what those numbers mean,       *)
(* through the setter's enumeration or back from mGps_conf after a         *)
(* restart, unless its last call failed.  The lock is the exception: while *)
(* the framework holds its vote the engine is unlocked, and the stored     *)
(* lock takes effect when the vote is released.  The framework's callback, *)
(* old or new, knows the capabilities the current SUPL mode allows.        *)
(* (The assistance server is left out: see the hazards of Gnss.cpp and     *)
(* setSuplHostServer.)                                                     *)
EngineFollowsFramework ==
  controlQ = <<>> /\ mApi =>
    /\ \A i \in DOMAIN wanted \ ({Server} \cup (Injected \ Resent)) : mGps_conf[i] = wanted[i]
    /\ mGnssCbIface => told = <<getCapabilities(mGps_conf)>>
    /\ engineRuns => \A i \in (Resent \cap DOMAIN wanted) \ failed : engineConf[i] = Setter(i)[wanted[i]]
    /\ Lock \notin failed =>
         engineConf[Lock] = IF mPowerVoteId > 0 THEN "NONE" ELSE GpsLockOf(mGps_conf[Lock])

(* The adapter's vote, the modem's power vote and mEnabled of the client   *)
(* agree once the calls are handled, even when session ids wrap around:    *)
(* no sequence of enables, disables and deaths of the framework leaves a   *)
(* vote nobody can release.                                                *)
VoteFollowsClient ==
  /\ modemVote = mEnabled
  /\ controlQ = <<>> => (mPowerVoteId = IF mEnabled THEN ctrlSession ELSE 0)
=============================================================================
