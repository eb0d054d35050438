---------------------------- MODULE GnssTracking ----------------------------
(***************************************************************************)
(* Tracking sessions of the GNSS adapter (gps/gnss/GnssAdapter.cpp).       *)
(*                                                                         *)
(* "Api doesn't support multiple clients for time based tracking, so       *)
(* mutiplex": any number of clients hold sessions, each with its own       *)
(* options, over one engine that runs one fix.  The adapter's thread       *)
(* starts, changes and stops that fix as sessions come and go; any call to *)
(* the engine may fail; the engine may restart at any time, which loses    *)
(* the fix and posts a message that starts it again.                       *)
(*                                                                         *)
(* A command is one step of the adapter's thread, taken when the message   *)
(* is handled; removing a client makes several engine calls and takes one  *)
(* step for each.  No ULP library is installed: UlpProxyBase declines      *)
(* every call, so startTracking always reaches the engine.                 *)
(***************************************************************************)
EXTENDS Naturals, FiniteSets

CONSTANTS
  Clients,         \* LocationAPI clients
  NoClient,        \* no client is being removed
  Ids,             \* session ids in use at a time, naturals
  Intervals,       \* values of LocationOptions.minInterval, naturals
  Modes,           \* values of LocationOptions.mode
  NoFix,           \* the engine runs no fix
  RestartMayFail,  \* may startFix fail on an engine that has just come up
  MaxRestarts      \* bound: restart messages waiting in the queue

ASSUME TrackingAssumption ==
  /\ NoClient \notin Clients
  /\ Ids \subseteq Nat
  /\ Intervals \subseteq Nat
  /\ NoFix \notin [minInterval : Intervals, mode : Modes]
  /\ RestartMayFail \in BOOLEAN
  /\ MaxRestarts \in Nat \ {0}

VARIABLES
  mClientData,        \* callbacks each client registered
  mTrackingSessions,  \* options of each session, by LocationSessionKey
  removing,           \* client being removed by the adapter's thread
  todo,               \* ... its sessions not visited yet
  fix,                \* options the engine runs
  engineUp,           \* is the engine up
  restarts            \* MsgRestartSessions in the queue

vars == <<mClientData, mTrackingSessions, removing, todo, fix, engineUp, restarts>>

LocationSessionKey == [client : Clients, id : Ids]
LocationOptions == [minInterval : Intervals, mode : Modes]

Sessions == DOMAIN mTrackingSessions

TypeOK ==
  /\ mClientData \in [Clients -> {"none", "tracking", "other"}]
  /\ Sessions \subseteq LocationSessionKey
  /\ mTrackingSessions \in [Sessions -> LocationOptions]
  /\ removing \in Clients \cup {NoClient}
  /\ todo \subseteq LocationSessionKey
  /\ fix \in LocationOptions \cup {NoFix}
  /\ engineUp \in BOOLEAN
  /\ restarts \in Nat

Init ==
  /\ mClientData = [c \in Clients |-> "none"]
  /\ mTrackingSessions = [k \in {} |-> NoFix]
  /\ removing = NoClient /\ todo = {}
  /\ fix = NoFix
  /\ engineUp = TRUE
  /\ restarts = 0

-----------------------------------------------------------------------------
(* The engine.  A call that fails leaves the engine as it was; an engine   *)
(* that is down starts nothing.  ok is what the caller is told.            *)

startFix(options, ok) ==
  /\ ok => engineUp
  /\ fix' = IF ok THEN options ELSE fix

stopFix(ok) == fix' = IF ok THEN NoFix ELSE fix

startTracking(options, ok) == startFix(options, ok)
stopTracking(ok) == stopFix(ok)

NothingToDo(ok) == ok /\ UNCHANGED fix

-----------------------------------------------------------------------------
(* Sessions.                                                               *)

saveTrackingSession(key, options) ==
  mTrackingSessions' =
    [k \in Sessions \cup {key} |-> IF k = key THEN options ELSE mTrackingSessions[k]]

eraseTrackingSession(key) ==
  mTrackingSessions' = [k \in Sessions \ {key} |-> mTrackingSessions[k]]

(* smallestIntervalOptions: the scan over the map, in the order of the     *)
(* ids, keeps the first session with the smallest interval.                *)
smallestInterval(K) ==
  {k \in K : \A j \in K :
     \/ mTrackingSessions[k].minInterval < mTrackingSessions[j].minInterval
     \/ mTrackingSessions[k].minInterval = mTrackingSessions[j].minInterval /\ k.id <= j.id}

\* Mutant: the new session always restarts the fix.
StartMultiplexAlways(options, ok) == startTracking(options, ok)

startTrackingMultiplex(options, ok) ==
  \/ /\ Sessions = {}
     /\ startTracking(options, ok)
  \/ \E k \in smallestInterval(Sessions) :
       IF options.minInterval < mTrackingSessions[k].minInterval
       THEN startTracking(options, ok)
       ELSE NothingToDo(ok)

\* Mutant: a session that slows down leaves the fix alone.
UpdateMultiplexFasterOnly(key, options, ok) ==
  \/ /\ Sessions = {key}
     /\ startTracking(options, ok)
  \/ \E k \in smallestInterval(Sessions \ {key}) :
       IF options.minInterval < mTrackingSessions[k].minInterval
       THEN startTracking(options, ok)
       ELSE NothingToDo(ok)

updateTrackingMultiplex(key, options, ok) ==
  \/ /\ Sessions = {key}
     /\ startTracking(options, ok)
  \/ \E k \in smallestInterval(Sessions \ {key}) :
       IF options.minInterval < mTrackingSessions[k].minInterval
       THEN startTracking(options, ok)
       ELSE IF mTrackingSessions[key].minInterval < mTrackingSessions[k].minInterval
       THEN startTracking(mTrackingSessions[k], ok)
       ELSE NothingToDo(ok)

\* Mutant: the engine is stopped with the fastest session.
StopMultiplexStops(key, ok) ==
  \/ /\ Sessions = {key}
     /\ stopTracking(ok)
  \/ \E k \in smallestInterval(Sessions \ {key}) :
       IF mTrackingSessions[key].minInterval < mTrackingSessions[k].minInterval
       THEN stopTracking(ok)
       ELSE NothingToDo(ok)

stopTrackingMultiplex(key, ok) ==
  \/ /\ Sessions = {key}
     /\ stopTracking(ok)
  \/ \E k \in smallestInterval(Sessions \ {key}) :
       IF mTrackingSessions[key].minInterval < mTrackingSessions[k].minInterval
       THEN startTracking(mTrackingSessions[k], ok)
       ELSE NothingToDo(ok)

-----------------------------------------------------------------------------
(* Commands, handled while no removal is going on.                         *)

Idle == removing = NoClient

addClientCommand(c) ==
  /\ Idle
  /\ \E kind \in {"tracking", "other"} : mClientData' = [mClientData EXCEPT ![c] = kind]
  /\ UNCHANGED <<mTrackingSessions, removing, todo, fix, engineUp, restarts>>

\* generateSessionId never returns the id of a session that is still there.
startTrackingCommand(c, options) ==
  /\ Idle
  /\ mClientData[c] = "tracking"
  /\ \E id \in Ids \ {k.id : k \in Sessions}, ok \in BOOLEAN :
       /\ startTrackingMultiplex(options, ok)
       /\ IF ok THEN saveTrackingSession([client |-> c, id |-> id], options)
                ELSE UNCHANGED mTrackingSessions
  /\ UNCHANGED <<mClientData, removing, todo, engineUp, restarts>>

updateTrackingOptionsCommand(key, options) ==
  /\ Idle
  /\ key \in Sessions
  /\ \E ok \in BOOLEAN :
       /\ updateTrackingMultiplex(key, options, ok)
       /\ IF ok THEN saveTrackingSession(key, options) ELSE UNCHANGED mTrackingSessions
  /\ UNCHANGED <<mClientData, removing, todo, engineUp, restarts>>

\* A session is erased only if the engine took the change.
StopSession(key) ==
  /\ key \in Sessions
  /\ \E ok \in BOOLEAN :
       /\ stopTrackingMultiplex(key, ok)
       /\ IF ok THEN eraseTrackingSession(key) ELSE UNCHANGED mTrackingSessions
  /\ UNCHANGED <<mClientData, engineUp, restarts>>

stopTrackingCommand(key) ==
  /\ Idle
  /\ StopSession(key)
  /\ UNCHANGED <<removing, todo>>

\* removeClientCommand: stopClientSessions visits the sessions in order of id.
removeClientCommand(c) ==
  /\ Idle
  /\ mClientData[c] # "none"
  /\ removing' = c
  /\ todo' = {k \in Sessions : k.client = c}
  /\ UNCHANGED <<mClientData, mTrackingSessions, fix, engineUp, restarts>>

stopClientSessions ==
  /\ ~Idle
  /\ \E key \in todo :
       /\ \A k \in todo : key.id <= k.id
       /\ StopSession(key)
       /\ todo' = todo \ {key}
  /\ UNCHANGED removing

eraseClient ==
  /\ ~Idle /\ todo = {}
  /\ mClientData' = [mClientData EXCEPT ![removing] = "none"]
  /\ removing' = NoClient
  /\ UNCHANGED <<mTrackingSessions, todo, fix, engineUp, restarts>>

-----------------------------------------------------------------------------
(* Engine restart.                                                         *)

\* Mutant: the sessions are not restarted.
RestartSessionsForgotten ==
  /\ Idle
  /\ restarts > 0
  /\ restarts' = restarts - 1
  /\ UNCHANGED <<mClientData, mTrackingSessions, removing, todo, fix, engineUp>>

(* MsgRestartSessions: the result of startFix is not looked at.  (It also  *)
(* clears mOdcpiRequestActive, which is no part of the tracking state.)    *)
restartSessions ==
  /\ Idle
  /\ restarts > 0
  /\ restarts' = restarts - 1
  /\ \/ Sessions = {} /\ UNCHANGED fix
     \/ \E k \in smallestInterval(Sessions), ok \in BOOLEAN :
          /\ startFix(mTrackingSessions[k], ok)
          /\ engineUp /\ ~RestartMayFail => ok
  /\ UNCHANGED <<mClientData, mTrackingSessions, removing, todo, engineUp>>

\* The modem restarts: the fix is gone.
engineDown ==
  /\ engineUp
  /\ engineUp' = FALSE
  /\ fix' = NoFix
  /\ UNCHANGED <<mClientData, mTrackingSessions, removing, todo, restarts>>

handleEngineUpEvent ==
  /\ ~engineUp
  /\ restarts < MaxRestarts
  /\ engineUp' = TRUE
  /\ restarts' = restarts + 1
  /\ UNCHANGED <<mClientData, mTrackingSessions, removing, todo, fix>>

-----------------------------------------------------------------------------
Removal == stopClientSessions \/ eraseClient

Next ==
  \/ \E c \in Clients :
       \/ addClientCommand(c)
       \/ removeClientCommand(c)
       \/ \E options \in LocationOptions : startTrackingCommand(c, options)
  \/ \E key \in {k \in Sessions : mClientData[k.client] # "none"} :
       \/ stopTrackingCommand(key)
       \/ \E options \in LocationOptions : updateTrackingOptionsCommand(key, options)
  \/ Removal
  \/ restartSessions
  \/ engineDown
  \/ handleEngineUpEvent

Spec == Init /\ [][Next]_vars

(* The adapter's thread finishes the message it handles, and gets to every *)
(* restart message: its queue is a FIFO (MsgTask), so the messages ahead   *)
(* of it, which may come in any number, do not keep it from its turn.      *)
FairSpec == Spec /\ WF_vars(Removal) /\ SF_vars(restartSessions)

-----------------------------------------------------------------------------
(* Properties.                                                             *)

(* "get the LocationOptions that has the smallest interval, which should   *)
(* be the active one" (GnssAdapter.cpp): whatever sessions came, changed   *)
(* and went, whatever calls failed and whenever the engine restarted, a    *)
(* fix that runs runs for somebody and at the smallest interval asked for. *)
FixIsSmallest ==
  fix # NoFix =>
    /\ \E k \in Sessions : mTrackingSessions[k].minInterval = fix.minInterval
    /\ \A k \in Sessions : fix.minInterval <= mTrackingSessions[k].minInterval

(* A session the client was told is started has a fix behind it, unless    *)
(* the engine is down or its restart is still to be handled: saving and    *)
(* erasing a session never run ahead of the engine.                        *)
AcceptedIsTracked ==
  engineUp /\ restarts = 0 /\ Sessions # {} => fix # NoFix

(* The comment quoted above, of the options as a whole: the fix runs with  *)
(* the options of one of the sessions.                                     *)
FixOptionsAreASessions ==
  fix # NoFix => \E k \in Sessions : mTrackingSessions[k] = fix

(* restartSessions brings tracking back after engine restarts.             *)
TrackingResumes ==
  <>[]engineUp => (Sessions # {} ~> (fix # NoFix \/ Sessions = {}))
=============================================================================
