----------------------------- MODULE ApiClient -----------------------------
(***************************************************************************)
(* A client of the location API: LocationAPIClientBase with its request    *)
(* queues and its dictionaries of client ids and sessions, LocationAPI's   *)
(* choice of an interface, and the services behind the interfaces, which   *)
(* handle the calls they get in order and answer by session.               *)
(*                                                                         *)
(* apiRole is what the client is used for: tracking (GnssAPIClient and     *)
(* MeasurementAPIClient), batching sessions of one id (BatchingAPIClient)  *)
(* or geofences (GeofenceAPIClient); each has a client of its own.  The    *)
(* tracking client of the GNSS service also answers network-initiated      *)
(* requests, whose responses have a queue of their own.  A call holds      *)
(* mMutex until its request is queued, so an answer, which takes it too,   *)
(* never overtakes its request.                                            *)
(***************************************************************************)
EXTENDS Naturals, Sequences, FiniteSets

CONSTANTS
  GeofenceIds,           \* ids the framework gives its geofences
  mDefaultId,            \* the one session id of BatchingAPIClient
  BreachTypes,           \* transitions a geofence may report
  NiIds,                 \* ids of network-initiated requests, from a counter of their own
  MaxApiSessions,        \* bound: sessions an interface hands out
  MaxApiCalls,           \* bound: calls waiting in an interface
  MaxRequests            \* bound: requests waiting for an answer

(* A call names the geofences of an array, and there is a session id.      *)
ASSUME ApiAssumption ==
  IsFiniteSet(GeofenceIds) /\ MaxApiSessions \in Nat \ {0} /\ NiIds \subseteq Nat \ {0}

Interfaces == {"gnss", "flp", "geofence"}
SessionModes == {"ON_FULL", "ON_FIX", "ON_TRIP_COMPLETED"}
Sessions == 1..MaxApiSessions

(* The requests of LocationAPI.h a client makes.                           *)
Operations == {"start", "stop", "update", "getBatched", "add", "remove", "modify", "pause", "resume"}

VARIABLES
  apiRole,
  interfaces,                      \* the libraries that could be loaded
  mLocationAPI,                    \* has the client an API instance
  mTracking,
  reqSession, reqQueue,            \* the request queue of the role
  forwardMap, backwardMap, extMap, \* the dictionary of the role
  lastSession,                     \* by interface: the last session handed out
  live,                            \* by interface: sessions that run
  calls,                           \* by interface: calls not yet handled
  niSession, niRequest,            \* the queue of NI responses: session, is one waiting
  niCalls,                         \* NI responses not yet handled by gnss
  refused,                         \* sessions whose stop or removal failed
  mismatch,                        \* was a request given another call's answer
  collided                         \* history variable: was a session also the id of an NI response

clientSide == <<reqSession, reqQueue, mTracking, forwardMap, backwardMap, extMap>>
niSide == <<niSession, niRequest, niCalls>>
apiVars == <<apiRole, interfaces, mLocationAPI, clientSide, lastSession, live, calls, niSide, refused,
             mismatch, collided>>

(* The queue, the dictionary and the services have their types.            *)
ApiTypeOK ==
  /\ apiRole \in {"tracking", "session", "geofence"}
  /\ interfaces \subseteq Interfaces
  /\ {mLocationAPI, mTracking, niRequest, mismatch, collided} \subseteq BOOLEAN
  /\ reqSession \in 0..MaxApiSessions
  /\ \A i \in DOMAIN reqQueue : reqQueue[i].op \in Operations /\ DOMAIN reqQueue[i].removed \subseteq Sessions
  /\ DOMAIN forwardMap \subseteq GeofenceIds \cup {mDefaultId}
  /\ DOMAIN backwardMap = DOMAIN extMap /\ DOMAIN extMap \subseteq 0..MaxApiSessions
  /\ lastSession \in [Interfaces -> 0..MaxApiSessions]
  /\ live \in [Interfaces -> SUBSET Sessions] /\ refused \in [Interfaces -> SUBSET Sessions]
  /\ \A i \in Interfaces : calls[i] \in Seq([op : Operations, sessions : SUBSET (0..MaxApiSessions),
                                             ids : SUBSET (GeofenceIds \cup {mDefaultId})])
  /\ niSession \in NiIds \cup {0} /\ \A k \in DOMAIN niCalls : niCalls[k].id \in NiIds

ApiInit ==
  /\ apiRole \in {"tracking", "session", "geofence"} /\ interfaces = {}
  /\ mLocationAPI = FALSE /\ mTracking = FALSE
  /\ reqSession = 0 /\ reqQueue = <<>>
  /\ forwardMap = << >> /\ backwardMap = << >> /\ extMap = << >>
  /\ lastSession = [i \in Interfaces |-> 0] /\ live = [i \in Interfaces |-> {}]
  /\ calls = [i \in Interfaces |-> <<>>] /\ refused = [i \in Interfaces |-> {}]
  /\ niSession = 0 /\ niRequest = FALSE /\ niCalls = <<>>
  /\ mismatch = FALSE /\ collided = FALSE

-----------------------------------------------------------------------------
(* RequestQueue and BiDict.                                                *)

Request(op) == [op |-> op, removed |-> << >>]
Without(f, S) == [x \in DOMAIN f \ S |-> f[x]]
With(f, x, v) == [y \in DOMAIN f \cup {x} |-> IF y = x THEN v ELSE f[y]]
getId(f, s) == IF s \in DOMAIN f THEN f[s] ELSE 0

(* rmById(id), if present, then set(id, session, ext).                     *)
Rebind(id, session, ext) ==
  LET old == IF id \in DOMAIN forwardMap THEN {forwardMap[id]} ELSE {} IN
  /\ forwardMap' = With(forwardMap, id, session)
  /\ backwardMap' = With(Without(backwardMap, old), session, id)
  /\ extMap' = With(Without(extMap, old), session, ext)

rmBySession(S) ==
  /\ forwardMap' = Without(forwardMap, {backwardMap[s] : s \in S})
  /\ backwardMap' = Without(backwardMap, S)
  /\ extMap' = Without(extMap, S)

dict == <<forwardMap, backwardMap, extMap>>

-----------------------------------------------------------------------------
(* LocationAPI: which interface serves a call.  A stop or an update goes   *)
(* to both tracking interfaces; the one that does not know the session     *)
(* does not answer.                                                        *)

needsGnssTrackingInfo == apiRole = "tracking"

(* The interface of a new tracking session; none if none is loaded.        *)
TrackingInterface(minDistance) ==
  IF minDistance > 0 /\ "flp" \in interfaces THEN {"flp"}
  ELSE IF "gnss" \in interfaces /\ needsGnssTrackingInfo THEN {"gnss"}
  ELSE IF "flp" \in interfaces THEN {"flp"}
  ELSE {"gnss"} \cap interfaces

\* An interface hands out the ids of its own counter.
NextSession(to) == IF to = {} THEN 0 ELSE lastSession[CHOOSE i \in to : TRUE] + 1
Allocated(to, n) ==
  lastSession' = [i \in Interfaces |-> IF i \in to THEN lastSession[i] + n ELSE lastSession[i]]

Call(op, sessions, ids) == [op |-> op, sessions |-> sessions, ids |-> ids]
Sent(cs, to, call) == [i \in Interfaces |-> IF i \in to \cap interfaces THEN Append(cs[i], call) ELSE cs[i]]

(* The interfaces the callbacks of a role ask for; another client may have *)
(* loaded gnss for a batching client.                                      *)
Wanted == IF apiRole = "geofence" THEN {"geofence"} ELSE {"gnss", "flp"}

(* A library that cannot be loaded leaves no interface; the client is      *)
(* created all the same.                                                   *)
createInstance == mLocationAPI' = TRUE /\ interfaces' \in SUBSET Wanted

locAPISetCallbacks ==
  /\ ~mLocationAPI /\ createInstance
  /\ UNCHANGED <<apiRole, clientSide, lastSession, live, calls, niSide, refused, mismatch>>

-----------------------------------------------------------------------------
(* Tracking.                                                               *)

ClientCalls(role) ==
  /\ apiRole = role /\ mLocationAPI
  /\ UNCHANGED <<apiRole, interfaces, mLocationAPI, live, niSide, refused, mismatch>>

\* Mutant: a second start is not recognised.
StartAgain(minDistance) ==
  LET to == TrackingInterface(minDistance) IN
  /\ ClientCalls("tracking")
  /\ reqSession' = NextSession(to) /\ reqQueue' = <<Request("start")>>
  /\ mTracking' = TRUE
  /\ Allocated(to, 1)
  /\ calls' = Sent(calls, to, Call("start", {NextSession(to)}, {}))
  /\ UNCHANGED dict

\* Mutant: the queue keeps the requests of the last session.
StartKeepsQueue(minDistance) ==
  LET to == TrackingInterface(minDistance) IN
  /\ ClientCalls("tracking") /\ ~mTracking
  /\ reqSession' = NextSession(to) /\ reqQueue' = Append(reqQueue, Request("start"))
  /\ mTracking' = TRUE
  /\ Allocated(to, 1)
  /\ calls' = Sent(calls, to, Call("start", {NextSession(to)}, {}))
  /\ UNCHANGED dict

locAPIStartTracking(minDistance) ==
  LET to == TrackingInterface(minDistance) IN
  /\ ClientCalls("tracking") /\ ~mTracking
  /\ reqSession' = NextSession(to) /\ reqQueue' = <<Request("start")>>
  /\ mTracking' = TRUE
  /\ Allocated(to, 1)
  /\ calls' = Sent(calls, to, Call("start", {NextSession(to)}, {}))
  /\ UNCHANGED dict

(* locAPIStopTracking, and locAPIUpdateTrackingOptions, which does not     *)
(* touch mTracking.                                                        *)
StopOrUpdateTracking(op) ==
  /\ ClientCalls("tracking") /\ reqSession > 0
  /\ reqQueue' = Append(reqQueue, Request(op))
  /\ calls' = Sent(calls, {"gnss", "flp"}, Call(op, {reqSession}, {}))
  /\ mTracking' = IF op = "stop" THEN FALSE ELSE mTracking
  /\ UNCHANGED <<reqSession, dict, lastSession>>

(* A response to a network-initiated request: its queue is reset, so it    *)
(* holds one request.  gnss, if loaded, handles its calls in their order:  *)
(* ahead counts the tracking calls that were there first.                  *)
locAPIGnssNiResponse(id) ==
  /\ apiRole = "tracking" /\ mLocationAPI
  /\ niSession' = id /\ niRequest' = TRUE
  /\ niCalls' = IF "gnss" \in interfaces THEN Append(niCalls, [id |-> id, ahead |-> Len(calls["gnss"])])
                                         ELSE niCalls
  /\ UNCHANGED <<apiRole, interfaces, mLocationAPI, clientSide, lastSession, live, calls, refused, mismatch>>

-----------------------------------------------------------------------------
(* Sessions of one id: tracking when the mode is ON_FIX, else batching,    *)
(* which only flp offers.                                                  *)

SessionInterface(mode) == IF mode = "ON_FIX" THEN TrackingInterface(0) ELSE {"flp"} \cap interfaces
StopInterfaces(mode) == IF mode = "ON_FIX" THEN {"gnss", "flp"} ELSE {"flp"}

locAPIStartSession(mode) ==
  LET to == SessionInterface(mode) IN
  /\ ClientCalls("session") /\ mDefaultId \notin DOMAIN forwardMap
  /\ reqQueue' = Append(reqQueue, Request("start"))
  /\ Rebind(mDefaultId, NextSession(to), mode)
  /\ Allocated(to, 1)
  /\ calls' = Sent(calls, to, Call("start", {NextSession(to)}, {}))
  /\ UNCHANGED <<reqSession, mTracking>>

locAPIStopSession ==
  /\ ClientCalls("session") /\ mDefaultId \in DOMAIN forwardMap
  /\ LET s == forwardMap[mDefaultId] IN
     calls' = Sent(calls, StopInterfaces(extMap[s]), Call("stop", {s}, {}))
  /\ reqQueue' = Append(reqQueue, Request("stop"))
  /\ UNCHANGED <<reqSession, mTracking, dict, lastSession>>

(* A change between tracking and batching stops the one and starts the     *)
(* other; one request stands for both calls.                               *)
locAPIUpdateSessionOptions(mode) ==
  LET s == forwardMap[mDefaultId]
      old == extMap[s]
      to == SessionInterface(mode)
      switch == (mode = "ON_FIX") # (old = "ON_FIX")
  IN
  /\ ClientCalls("session") /\ mDefaultId \in DOMAIN forwardMap
  /\ reqQueue' = Append(reqQueue, Request("update"))
  /\ IF switch
       THEN /\ Rebind(mDefaultId, NextSession(to), mode)
            /\ Allocated(to, 1)
            /\ calls' = Sent(Sent(calls, StopInterfaces(old), Call("stop", {s}, {})),
                             to, Call("start", {NextSession(to)}, {}))
       ELSE /\ Rebind(mDefaultId, s, mode)
            /\ calls' = Sent(calls, StopInterfaces(mode), Call("update", {s}, {}))
            /\ UNCHANGED lastSession
  /\ UNCHANGED <<reqSession, mTracking>>

locAPIGetBatchedLocations ==
  /\ ClientCalls("session") /\ mDefaultId \in DOMAIN forwardMap
  /\ extMap[forwardMap[mDefaultId]] # "ON_FIX"
  /\ reqQueue' = Append(reqQueue, Request("getBatched"))
  /\ calls' = Sent(calls, {"flp"}, Call("getBatched", {forwardMap[mDefaultId]}, {}))
  /\ UNCHANGED <<reqSession, mTracking, dict, lastSession>>

-----------------------------------------------------------------------------
(* Geofences.                                                              *)

(* The caller adds an id once; a missing library is answered at once.      *)
locAPIAddGeofences(ids, mask) ==
  /\ ClientCalls("geofence") /\ "geofence" \in interfaces /\ ids \cap DOMAIN forwardMap = {}
  /\ \E f \in [ids -> (lastSession["geofence"] + 1)..(lastSession["geofence"] + Cardinality(ids))] :
       /\ \A a, b \in ids : f[a] = f[b] => a = b
       /\ forwardMap' = [i \in DOMAIN forwardMap \cup ids |-> IF i \in ids THEN f[i] ELSE forwardMap[i]]
       /\ calls' = Sent(calls, {"geofence"}, Call("add", {f[i] : i \in ids}, ids))
  /\ backwardMap' = [s \in {forwardMap'[i] : i \in DOMAIN forwardMap'} |->
                       CHOOSE i \in DOMAIN forwardMap' : forwardMap'[i] = s]
  /\ extMap' = [s \in DOMAIN backwardMap' |-> IF s \in DOMAIN extMap THEN extMap[s] ELSE mask]
  /\ reqSession' = 1 /\ reqQueue' = Append(reqQueue, Request("add"))
  /\ Allocated({"geofence"}, Cardinality(ids))
  /\ UNCHANGED mTracking

(* The known ids of a call and their sessions.                             *)
KnownSessions(ids) == {forwardMap[i] : i \in ids \cap DOMAIN forwardMap}

GeofenceCall(op, ids, request) ==
  /\ ClientCalls("geofence") /\ reqSession = 1 /\ KnownSessions(ids) # {}
  /\ reqQueue' = Append(reqQueue, request)
  /\ calls' = Sent(calls, {"geofence"}, Call(op, KnownSessions(ids), ids \cap DOMAIN forwardMap))
  /\ UNCHANGED <<reqSession, mTracking, lastSession>>

(* The request keeps what is needed to translate the answer.               *)
locAPIRemoveGeofences(ids) ==
  /\ GeofenceCall("remove", ids,
       [op |-> "remove", removed |-> [s \in KnownSessions(ids) |-> backwardMap[s]]])
  /\ rmBySession(KnownSessions(ids))

(* Modify and resume store a new mask of transitions, pause does not.      *)
SetMask(ids, mask) ==
  /\ extMap' = [s \in DOMAIN extMap |-> IF s \in KnownSessions(ids) THEN mask ELSE extMap[s]]
  /\ UNCHANGED <<forwardMap, backwardMap>>

locAPIModifyGeofences(ids, mask) == GeofenceCall("modify", ids, Request("modify")) /\ SetMask(ids, mask)
locAPIPauseGeofences(ids) == GeofenceCall("pause", ids, Request("pause")) /\ UNCHANGED dict
locAPIResumeGeofences(ids, mask) == GeofenceCall("resume", ids, Request("resume")) /\ SetMask(ids, mask)

-----------------------------------------------------------------------------
(* The HIDL services' calls, with what each passes on.  Removing all       *)
(* geofences, also when the framework dies, is a TODO that does nothing.   *)

gnssStart(preferredAccuracy) == locAPIStartTracking(preferredAccuracy)
gnssStop == StopOrUpdateTracking("stop")
gnssSetPositionMode == StopOrUpdateTracking("update")
gnssNiRespond(id) == locAPIGnssNiResponse(id)
measurementSetCallback == locAPIStartTracking(0)
measurementClose == StopOrUpdateTracking("stop")

\* BatchingAPIClient asks for ON_FULL or for no reports; the other modes are for other users.
startSession == \E m \in SessionModes : locAPIStartSession(m)
updateSessionOptions == \E m \in SessionModes : locAPIUpdateSessionOptions(m)
stopSession == locAPIStopSession
flushBatchedLocations == locAPIGetBatchedLocations

\* Only entered and exited are passed on as transitions to monitor.
Monitored(transitions) == transitions \cap {"enter", "exit"}
geofenceAdd(id, transitions) == locAPIAddGeofences({id}, Monitored(transitions))
geofencePause(id) == locAPIPauseGeofences({id})
geofenceResume(id, transitions) == locAPIResumeGeofences({id}, Monitored(transitions))
geofenceRemove(id) == locAPIRemoveGeofences({id})

-----------------------------------------------------------------------------
(* Callbacks, on the service's thread.                                     *)

(* The queue whose request an answer for the session takes, if it has one: *)
(* the tracking queue is looked at first, then that of the NI responses;   *)
(* sessions of one id share a queue.                                       *)
getRequestBySession(s) ==
  IF apiRole = "tracking"
    THEN IF reqSession = s THEN {"calls"} ELSE IF niSession = s THEN {"ni"} ELSE {}
    ELSE IF s \in DOMAIN backwardMap THEN {"calls"} ELSE {}

(* onResponse of a request: a session that did not start, or that was      *)
(* stopped, leaves the dictionary.                                         *)
Ended(op, s, ok) == s \in DOMAIN backwardMap /\ ((op = "start" /\ ~ok) \/ (op = "stop" /\ ok))

onResponseCb(call, ok) ==
  LET s == CHOOSE x \in call.sessions : TRUE
      op == Head(reqQueue).op
  IN
  IF "calls" \in getRequestBySession(s) /\ reqQueue # <<>>
    THEN /\ reqQueue' = Tail(reqQueue)
         /\ mismatch' = (mismatch \/ op # call.op)
         /\ IF Ended(op, s, ok) THEN rmBySession({s}) ELSE UNCHANGED dict
         /\ UNCHANGED niRequest
    ELSE /\ mismatch' = (mismatch \/ ("ni" \in getRequestBySession(s) /\ niRequest))
         /\ niRequest' = (niRequest /\ "ni" \notin getRequestBySession(s))
         /\ UNCHANGED <<reqQueue, dict>>

(* onCollectiveResponse of a request: a removal names the ids it was       *)
(* called with, the others look them up when the answer comes.             *)
IdsTold(request, sessions) ==
  {getId(IF request.op = "remove" THEN request.removed ELSE backwardMap, s) : s \in sessions}

onCollectiveResponseCb(call) ==
  LET request == Head(reqQueue) IN
  /\ reqQueue' = Tail(reqQueue)
  /\ mismatch' = (mismatch \/ request.op # call.op
                   \/ (call.op = "remove" /\ IdsTold(request, call.sessions) # call.ids))
  /\ UNCHANGED dict

(* A service handles its next call.  It answers a start and a geofence     *)
(* call always, the other calls when it knows the session.                 *)
Serve(i) ==
  /\ i = "gnss" /\ niCalls # <<>> => Head(niCalls).ahead > 0
  /\ niCalls' = IF i = "gnss" THEN [k \in DOMAIN niCalls |-> [niCalls[k] EXCEPT !.ahead = @ - 1]] ELSE niCalls
  /\ calls[i] # <<>> /\ calls' = [calls EXCEPT ![i] = Tail(calls[i])]
  /\ LET call == Head(calls[i])
         known == call.sessions \subseteq live[i]
     IN \E ok \in BOOLEAN :
          /\ live' = [live EXCEPT ![i] =
               IF ~ok THEN @ ELSE IF call.op \in {"start", "add"} THEN @ \cup call.sessions
               ELSE IF call.op \in {"stop", "remove"} THEN @ \ call.sessions ELSE @]
          /\ refused' = [refused EXCEPT ![i] =
               IF call.op \in {"stop", "remove"} /\ ~ok THEN @ \cup (call.sessions \cap live[i]) ELSE @]
          /\ IF apiRole = "geofence" THEN onCollectiveResponseCb(call) /\ UNCHANGED niRequest
             ELSE IF call.op = "start" \/ known THEN onResponseCb(call, ok)
             ELSE UNCHANGED <<reqQueue, mismatch, dict, niRequest>>
  /\ UNCHANGED <<apiRole, interfaces, mLocationAPI, reqSession, mTracking, lastSession, niSession>>

(* gnss handles an NI response, which it always answers, with its id.      *)
ServeNi ==
  LET id == Head(niCalls).id
      taken == getRequestBySession(id)
  IN
  /\ niCalls # <<>> /\ Head(niCalls).ahead = 0 /\ niCalls' = Tail(niCalls)
  /\ reqQueue' = IF "calls" \in taken /\ reqQueue # <<>> THEN Tail(reqQueue) ELSE reqQueue
  /\ niRequest' = (niRequest /\ "ni" \notin taken)
  /\ mismatch' = (mismatch \/ ("calls" \in taken /\ (reqQueue # <<>> \/ (niRequest /\ niSession = id))))
  /\ UNCHANGED <<apiRole, interfaces, mLocationAPI, reqSession, mTracking, dict, lastSession, live, calls,
                 niSession, refused>>

(* A breach is reported with the client's id if its mask asks for it.      *)
beforeGeofenceBreachCb(s, type) ==
  /\ apiRole = "geofence" /\ s \in live["geofence"]
  /\ LET wants == s \in DOMAIN extMap /\ type \in extMap[s] IN
     mismatch' = (mismatch \/ (wants /\ s \notin DOMAIN backwardMap))
  /\ UNCHANGED <<apiRole, interfaces, mLocationAPI, clientSide, lastSession, live, calls, niSide, refused>>

(* A trip is over: the session has ended by itself.                        *)
beforeBatchingStatusCb(s) ==
  /\ apiRole = "session" /\ s \in live["flp"]
  /\ s \in DOMAIN extMap /\ extMap[s] = "ON_TRIP_COMPLETED"
  /\ live' = [live EXCEPT !["flp"] = @ \ {s}]
  /\ rmBySession({s})
  /\ UNCHANGED <<apiRole, interfaces, mLocationAPI, reqSession, reqQueue, mTracking, lastSession, calls,
                 niSide, refused, mismatch>>

(* Calls of the framework, and of other users of LocationAPIClientBase,    *)
(* which may name several geofences at once.                               *)
ApiCalls ==
  \/ \E d \in {0, 1} : gnssStart(d)
  \/ measurementSetCallback \/ gnssStop \/ measurementClose \/ gnssSetPositionMode
  \/ startSession \/ updateSessionOptions \/ stopSession \/ flushBatchedLocations
  \/ \E id \in GeofenceIds : geofencePause(id) \/ geofenceRemove(id)
  \/ \E id \in GeofenceIds, t \in SUBSET BreachTypes : geofenceAdd(id, t) \/ geofenceResume(id, t)
  \/ \E t \in SUBSET BreachTypes : locAPIAddGeofences(GeofenceIds, t) \/ locAPIModifyGeofences(GeofenceIds, t)
  \/ locAPIRemoveGeofences(GeofenceIds)

ApiOperation ==
  \/ locAPISetCallbacks
  \/ Len(niCalls) < MaxApiCalls /\ \E id \in NiIds : gnssNiRespond(id)
  \/ ServeNi
  \/ /\ Len(reqQueue) < MaxRequests /\ \A i \in Interfaces : Len(calls[i]) < MaxApiCalls
     /\ ApiCalls
     /\ \A i \in Interfaces : lastSession'[i] <= MaxApiSessions
  \/ \E i \in Interfaces : Serve(i)
  \/ \E s \in Sessions : beforeBatchingStatusCb(s) \/ \E t \in BreachTypes : beforeGeofenceBreachCb(s, t)

(* Is an NI response under way whose id is a session that the client or a  *)
(* waiting call uses?                                                      *)
IdShared ==
  LET pending == {niCalls[k].id : k \in DOMAIN niCalls} \cup (IF niRequest THEN {niSession} ELSE {}) IN
  \E n \in pending : \/ n = reqSession
                      \/ \E i \in Interfaces : \E k \in DOMAIN calls[i] : n \in calls[i][k].sessions

ApiNext == ApiOperation /\ collided' = (collided \/ IdShared')

ApiSpec == ApiInit /\ [][ApiNext]_apiVars

-----------------------------------------------------------------------------
(* What the two properties below are about.  TLC refutes both for batching *)
(* sessions, whose one queue keeps the request of a second stop that is    *)
(* never answered, and the first where tracking is served by gnss and flp, *)
(* whose session ids are drawn from two counters (see the hazards).  The   *)
(* ids of NI responses are drawn from a third: TLC refutes the first where *)
(* one of them is a tracking session's, which collided records.            *)
InScope == apiRole # "session" /\ ~({"gnss", "flp"} \subseteq interfaces)

(* Every answer reaches the request of the call it answers, and a removal  *)
(* is answered with the ids it was called with: the answers of a stopped   *)
(* session never complete the requests of the next one, and a geofence     *)
(* removed and added again is not confused with the old one, and neither   *)
(* are tracking and NI responses as long as their ids were never the same. *)
AnswersMatchRequests == InScope /\ ~collided => ~mismatch

(* A session or geofence that runs can still be ended by the client: its   *)
(* session is the one a stop would name, or its end is already on the way, *)
(* unless the service refused to end it.                                   *)
LiveCanBeEnded ==
  InScope => \A i \in Interfaces : \A s \in live[i] \ refused[i] :
    \/ \E k \in DOMAIN calls[i] : calls[i][k].op \in {"stop", "remove"} /\ s \in calls[i][k].sessions
    \/ apiRole = "tracking" /\ mTracking /\ reqSession = s
    \/ apiRole # "tracking" /\ s \in DOMAIN backwardMap /\ forwardMap[backwardMap[s]] = s
=============================================================================
