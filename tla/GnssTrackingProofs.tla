------------------------- MODULE GnssTrackingProofs -------------------------
(***************************************************************************)
(* Proofs about GnssTracking: for any number of clients, sessions,         *)
(* intervals and modes, a running fix runs at the smallest interval, and   *)
(* an accepted session has a fix behind it.                                *)
(***************************************************************************)
EXTENDS GnssTracking, TLAPS

Tracked == RestartMayFail \/ AcceptedIsTracked

IInv == TypeOK /\ FixIsSmallest /\ Tracked

(* Intervals are numbers, so they can be compared.                         *)
LEMMA Numbers ==
  ASSUME TypeOK
  PROVE  /\ \A k \in Sessions : /\ mTrackingSessions[k] \in LocationOptions
                                /\ mTrackingSessions[k].minInterval \in Nat
         /\ fix # NoFix => fix.minInterval \in Nat
         /\ \A o \in LocationOptions : o.minInterval \in Nat /\ o # NoFix
  BY TrackingAssumption DEF TypeOK, LocationOptions

(* What the scan for the smallest interval returns.                        *)
LEMMA ScanIsSmallest ==
  ASSUME TypeOK, NEW K, K \subseteq Sessions, NEW k \in smallestInterval(K)
  PROVE  /\ k \in K
         /\ \A j \in K : mTrackingSessions[k].minInterval <= mTrackingSessions[j].minInterval
  BY Numbers DEF smallestInterval

(* Saving a session changes that session only.                             *)
LEMMA SaveSession ==
  ASSUME TypeOK, NEW key \in LocationSessionKey, NEW options \in LocationOptions,
         saveTrackingSession(key, options)
  PROVE  /\ Sessions' = Sessions \cup {key}
         /\ mTrackingSessions' \in [Sessions' -> LocationOptions]
         /\ Sessions' \subseteq LocationSessionKey
         /\ mTrackingSessions'[key] = options
         /\ \A k \in Sessions \ {key} : mTrackingSessions'[k] = mTrackingSessions[k]
  BY DEF TypeOK, saveTrackingSession, Sessions

(* Erasing a session changes nothing else.                                 *)
LEMMA EraseSession ==
  ASSUME TypeOK, NEW key, eraseTrackingSession(key)
  PROVE  /\ Sessions' = Sessions \ {key}
         /\ mTrackingSessions' \in [Sessions' -> LocationOptions]
         /\ Sessions' \subseteq LocationSessionKey
         /\ \A k \in Sessions' : mTrackingSessions'[k] = mTrackingSessions[k]
  BY DEF TypeOK, eraseTrackingSession, Sessions

(* A command whose engine call failed changes nothing.                     *)
LEMMA FailedCommand ==
  ASSUME IInv, UNCHANGED <<mTrackingSessions, fix, engineUp, restarts>>
  PROVE  FixIsSmallest' /\ Tracked'
  BY DEF IInv, FixIsSmallest, Tracked, AcceptedIsTracked, Sessions

(* startTrackingCommand: the fix follows a session that is faster than all *)
(* others, and ignores one that is not.                                    *)
LEMMA StartStep ==
  ASSUME IInv, NEW c \in Clients, NEW options \in LocationOptions,
         startTrackingCommand(c, options)
  PROVE  IInv'
<1> USE DEF IInv
<1>1. PICK id \in Ids \ {k.id : k \in Sessions}, ok \in BOOLEAN :
        /\ startTrackingMultiplex(options, ok)
        /\ IF ok THEN saveTrackingSession([client |-> c, id |-> id], options)
                 ELSE UNCHANGED mTrackingSessions
  BY DEF startTrackingCommand
<1> DEFINE key == [client |-> c, id |-> id]
<1>k. key \in LocationSessionKey /\ key \notin Sessions
  BY <1>1 DEF LocationSessionKey
<1>u. UNCHANGED <<mClientData, removing, todo, engineUp, restarts>>
  BY DEF startTrackingCommand
<1>2. CASE ~ok
  <2>1. fix' = fix /\ UNCHANGED mTrackingSessions
    BY <1>1, <1>2 DEF startTrackingMultiplex, startTracking, startFix, NothingToDo
  <2>2. TypeOK' BY <2>1, <1>u DEF TypeOK, Sessions
  <2> QED BY <2>1, <2>2, <1>u, FailedCommand
<1>3. CASE ok
  <2>1. saveTrackingSession(key, options) BY <1>1, <1>3
  <2> HIDE DEF key
  <2>2. /\ Sessions' = Sessions \cup {key}
        /\ mTrackingSessions' \in [Sessions' -> LocationOptions]
        /\ Sessions' \subseteq LocationSessionKey
        /\ mTrackingSessions'[key] = options
        /\ \A k \in Sessions : mTrackingSessions'[k] = mTrackingSessions[k]
    BY <1>k, <2>1, SaveSession
  <2>3. ASSUME fix' = options,
               \A k \in Sessions : options.minInterval <= mTrackingSessions[k].minInterval
        PROVE  IInv'
    <3>1. FixIsSmallest' BY <2>3, <2>2, Numbers DEF FixIsSmallest
    <3>2. Tracked' BY <2>3, Numbers DEF Tracked, AcceptedIsTracked
    <3>3. TypeOK' BY <2>3, <2>2, <1>u DEF TypeOK
    <3> QED BY <3>1, <3>2, <3>3
  <2>4. CASE Sessions = {} /\ startTracking(options, ok)
    BY <2>3, <2>4, <1>3 DEF startTracking, startFix
  <2>5. ASSUME NEW k \in smallestInterval(Sessions),
               IF options.minInterval < mTrackingSessions[k].minInterval
               THEN startTracking(options, ok) ELSE NothingToDo(ok)
        PROVE  IInv'
    <3>1. /\ k \in Sessions
          /\ \A j \in Sessions : mTrackingSessions[k].minInterval <= mTrackingSessions[j].minInterval
      BY ScanIsSmallest
    <3>2. CASE options.minInterval < mTrackingSessions[k].minInterval
      <4>1. fix' = options BY <1>3, <2>5, <3>2 DEF startTracking, startFix
      <4>2. \A j \in Sessions : options.minInterval <= mTrackingSessions[j].minInterval
        BY <3>1, <3>2, Numbers
      <4> QED BY <4>1, <4>2, <2>3
    <3>3. CASE ~(options.minInterval < mTrackingSessions[k].minInterval)
      <4>1. fix' = fix BY <2>5, <3>3 DEF NothingToDo
      <4>2. fix # NoFix => fix.minInterval <= options.minInterval
        BY <3>1, <3>3, Numbers DEF FixIsSmallest
      <4>3. FixIsSmallest' BY <4>1, <4>2, <2>2 DEF FixIsSmallest
      <4>4. Tracked' BY <4>1, <3>1, <1>u DEF Tracked, AcceptedIsTracked
      <4>5. TypeOK' BY <4>1, <2>2, <1>u DEF TypeOK
      <4> QED BY <4>3, <4>4, <4>5
    <3> QED BY <3>2, <3>3
  <2> QED BY <1>1, <2>4, <2>5 DEF startTrackingMultiplex
<1> QED BY <1>2, <1>3

(* updateTrackingOptionsCommand: the fix follows the updated session if it *)
(* becomes the fastest, and the next one if it was and no longer is.       *)
LEMMA UpdateStep ==
  ASSUME IInv, NEW key \in Sessions, NEW options \in LocationOptions,
         updateTrackingOptionsCommand(key, options)
  PROVE  IInv'
<1> USE DEF IInv
<1>1. PICK ok \in BOOLEAN :
        /\ updateTrackingMultiplex(key, options, ok)
        /\ IF ok THEN saveTrackingSession(key, options) ELSE UNCHANGED mTrackingSessions
  BY DEF updateTrackingOptionsCommand
<1>u. UNCHANGED <<mClientData, removing, todo, engineUp, restarts>>
  BY DEF updateTrackingOptionsCommand
<1>2. CASE ~ok
  <2>1. fix' = fix /\ UNCHANGED mTrackingSessions
    BY <1>1, <1>2 DEF updateTrackingMultiplex, startTracking, startFix, NothingToDo
  <2>2. TypeOK' BY <2>1, <1>u DEF TypeOK, Sessions
  <2> QED BY <2>1, <2>2, <1>u, FailedCommand
<1>3. CASE ok
  <2>2. /\ Sessions' = Sessions
        /\ mTrackingSessions' \in [Sessions' -> LocationOptions]
        /\ Sessions' \subseteq LocationSessionKey
        /\ mTrackingSessions'[key] = options
        /\ \A j \in Sessions \ {key} : mTrackingSessions'[j] = mTrackingSessions[j]
    <3>1. key \in LocationSessionKey BY DEF TypeOK
    <3> QED BY <3>1, <1>1, <1>3, SaveSession
  <2>3. ASSUME fix' = options,
               \A j \in Sessions \ {key} : options.minInterval <= mTrackingSessions[j].minInterval
        PROVE  IInv'
    <3>1. FixIsSmallest' BY <2>3, <2>2, Numbers DEF FixIsSmallest
    <3>2. Tracked' BY <2>3, Numbers DEF Tracked, AcceptedIsTracked
    <3>3. TypeOK' BY <2>3, <2>2, <1>u DEF TypeOK
    <3> QED BY <3>1, <3>2, <3>3
  <2>4. CASE Sessions = {key} /\ startTracking(options, ok)
    BY <2>3, <2>4, <1>3 DEF startTracking, startFix
  <2>5. ASSUME NEW k \in smallestInterval(Sessions \ {key}),
               IF options.minInterval < mTrackingSessions[k].minInterval
               THEN startTracking(options, ok)
               ELSE IF mTrackingSessions[key].minInterval < mTrackingSessions[k].minInterval
               THEN startTracking(mTrackingSessions[k], ok)
               ELSE NothingToDo(ok)
        PROVE  IInv'
    <3>1. /\ k \in Sessions \ {key}
          /\ \A j \in Sessions \ {key} :
               mTrackingSessions[k].minInterval <= mTrackingSessions[j].minInterval
      BY ScanIsSmallest
    <3>2. CASE options.minInterval < mTrackingSessions[k].minInterval
      <4>1. fix' = options BY <1>3, <2>5, <3>2 DEF startTracking, startFix
      <4>2. \A j \in Sessions \ {key} : options.minInterval <= mTrackingSessions[j].minInterval
        BY <3>1, <3>2, Numbers
      <4> QED BY <4>1, <4>2, <2>3
    <3>3. CASE /\ ~(options.minInterval < mTrackingSessions[k].minInterval)
               /\ mTrackingSessions[key].minInterval < mTrackingSessions[k].minInterval
      <4>1. fix' = mTrackingSessions[k] BY <1>3, <2>5, <3>3 DEF startTracking, startFix
      <4>2. mTrackingSessions[k].minInterval <= options.minInterval BY <3>1, <3>3, Numbers
      <4>3. FixIsSmallest' BY <4>1, <4>2, <3>1, <2>2, Numbers DEF FixIsSmallest
      <4>4. Tracked' BY <4>1, <3>1, Numbers DEF Tracked, AcceptedIsTracked
      <4>5. TypeOK' BY <4>1, <3>1, <2>2, <1>u, Numbers DEF TypeOK
      <4> QED BY <4>3, <4>4, <4>5
    <3>4. CASE /\ ~(options.minInterval < mTrackingSessions[k].minInterval)
               /\ ~(mTrackingSessions[key].minInterval < mTrackingSessions[k].minInterval)
      <4>1. fix' = fix BY <2>5, <3>4 DEF NothingToDo
      <4>2. ASSUME fix # NoFix
            PROVE  /\ fix.minInterval = mTrackingSessions[k].minInterval
                   /\ mTrackingSessions[k].minInterval <= options.minInterval
        <5>1. fix.minInterval <= mTrackingSessions[k].minInterval
          BY <4>2, <3>1 DEF FixIsSmallest
        <5>2. mTrackingSessions[k].minInterval <= fix.minInterval
          <6>1. PICK j \in Sessions : mTrackingSessions[j].minInterval = fix.minInterval
            BY <4>2 DEF FixIsSmallest
          <6>2. CASE j = key BY <6>1, <6>2, <3>1, <3>4, Numbers
          <6>3. CASE j # key BY <6>1, <6>3, <3>1
          <6> QED BY <6>2, <6>3
        <5> QED BY <5>1, <5>2, <3>1, <3>4, <4>2, Numbers
      <4>3. FixIsSmallest' BY <4>1, <4>2, <3>1, <2>2 DEF FixIsSmallest
      <4>4. Tracked' BY <4>1, <1>u DEF Tracked, AcceptedIsTracked
      <4>5. TypeOK' BY <4>1, <2>2, <1>u DEF TypeOK
      <4> QED BY <4>3, <4>4, <4>5
    <3> QED BY <3>2, <3>3, <3>4
  <2> QED BY <1>1, <2>4, <2>5 DEF updateTrackingMultiplex
<1> QED BY <1>2, <1>3

(* A session that is stopped, by its client or with it: the fix stops with *)
(* the last one and slows down with the fastest one.                       *)
LEMMA StopStep ==
  ASSUME IInv, NEW key, StopSession(key)
  PROVE  /\ FixIsSmallest' /\ Tracked'
         /\ Sessions' \subseteq LocationSessionKey
         /\ mTrackingSessions' \in [Sessions' -> LocationOptions]
         /\ fix' \in LocationOptions \cup {NoFix}
<1> USE DEF IInv
<1>1. PICK ok \in BOOLEAN :
        /\ stopTrackingMultiplex(key, ok)
        /\ IF ok THEN eraseTrackingSession(key) ELSE UNCHANGED mTrackingSessions
  BY DEF StopSession
<1>k. key \in Sessions BY DEF StopSession
<1>u. UNCHANGED <<engineUp, restarts>> BY DEF StopSession
<1>2. CASE ~ok
  <2>1. fix' = fix /\ UNCHANGED mTrackingSessions
    BY <1>1, <1>2 DEF stopTrackingMultiplex, startTracking, startFix, stopTracking, stopFix,
       NothingToDo
  <2> QED BY <2>1, <1>u, FailedCommand DEF TypeOK, Sessions
<1>3. CASE ok
  <2>2. /\ Sessions' = Sessions \ {key}
        /\ mTrackingSessions' \in [Sessions' -> LocationOptions]
        /\ Sessions' \subseteq LocationSessionKey
        /\ \A j \in Sessions' : mTrackingSessions'[j] = mTrackingSessions[j]
    BY <1>1, <1>3, EraseSession
  <2>3. CASE Sessions = {key} /\ stopTracking(ok)
    <3>1. fix' = NoFix BY <2>3, <1>3 DEF stopTracking, stopFix
    <3>2. Sessions' = {} BY <2>2, <2>3
    <3>3. FixIsSmallest' /\ Tracked' BY <3>1, <3>2 DEF FixIsSmallest, Tracked, AcceptedIsTracked
    <3> QED BY <3>1, <3>3, <2>2
  <2>4. ASSUME NEW k \in smallestInterval(Sessions \ {key}),
               IF mTrackingSessions[key].minInterval < mTrackingSessions[k].minInterval
               THEN startTracking(mTrackingSessions[k], ok)
               ELSE NothingToDo(ok)
        PROVE  FixIsSmallest' /\ Tracked' /\ fix' \in LocationOptions \cup {NoFix}
    <3>1. /\ k \in Sessions \ {key}
          /\ \A j \in Sessions \ {key} :
               mTrackingSessions[k].minInterval <= mTrackingSessions[j].minInterval
      BY ScanIsSmallest
    <3>2. CASE mTrackingSessions[key].minInterval < mTrackingSessions[k].minInterval
      <4>1. fix' = mTrackingSessions[k] BY <1>3, <2>4, <3>2 DEF startTracking, startFix
      <4>2. FixIsSmallest' BY <4>1, <3>1, <2>2 DEF FixIsSmallest
      <4>3. Tracked' BY <4>1, <3>1, Numbers DEF Tracked, AcceptedIsTracked
      <4> QED BY <4>1, <4>2, <4>3, <3>1, Numbers
    <3>3. CASE ~(mTrackingSessions[key].minInterval < mTrackingSessions[k].minInterval)
      <4>1. fix' = fix BY <2>4, <3>3 DEF NothingToDo
      <4>2. fix # NoFix => fix.minInterval = mTrackingSessions[k].minInterval
        <5> SUFFICES ASSUME fix # NoFix PROVE fix.minInterval = mTrackingSessions[k].minInterval
          OBVIOUS
        <5>1. fix.minInterval <= mTrackingSessions[k].minInterval
          BY <3>1 DEF FixIsSmallest
        <5>2. mTrackingSessions[k].minInterval <= fix.minInterval
          <6>1. PICK j \in Sessions : mTrackingSessions[j].minInterval = fix.minInterval
            BY DEF FixIsSmallest
          <6>2. CASE j = key BY <6>1, <6>2, <3>1, <3>3, Numbers
          <6>3. CASE j # key BY <6>1, <6>3, <3>1
          <6> QED BY <6>2, <6>3
        <5> QED BY <5>1, <5>2, <3>1, Numbers
      <4>3. FixIsSmallest' BY <4>1, <4>2, <3>1, <2>2 DEF FixIsSmallest
      <4>4. Tracked' BY <4>1, <3>1, <1>u DEF Tracked, AcceptedIsTracked
      <4> QED BY <4>1, <4>3, <4>4 DEF TypeOK
    <3> QED BY <3>2, <3>3
  <2> QED BY <1>1, <2>2, <2>3, <2>4 DEF stopTrackingMultiplex
<1> QED BY <1>2, <1>3

(* MsgRestartSessions: the fix is started with the smallest interval, or   *)
(* stays lost if the engine has gone down again.                           *)
LEMMA RestartStep ==
  ASSUME IInv, restartSessions
  PROVE  IInv'
<1> USE DEF IInv
<1>u. /\ UNCHANGED <<mClientData, mTrackingSessions, removing, todo, engineUp>>
      /\ restarts' \in Nat /\ Sessions' = Sessions
  BY DEF restartSessions, TypeOK, Sessions
<1>1. CASE Sessions = {} /\ UNCHANGED fix
  <2>1. FixIsSmallest' /\ Tracked' BY <1>1, <1>u DEF FixIsSmallest, Tracked, AcceptedIsTracked
  <2>2. TypeOK' BY <1>1, <1>u DEF TypeOK
  <2> QED BY <2>1, <2>2
<1>2. ASSUME NEW k \in smallestInterval(Sessions), NEW ok \in BOOLEAN,
             startFix(mTrackingSessions[k], ok),
             engineUp /\ ~RestartMayFail => ok
      PROVE  IInv'
  <2>1. /\ k \in Sessions
        /\ \A j \in Sessions : mTrackingSessions[k].minInterval <= mTrackingSessions[j].minInterval
    BY ScanIsSmallest
  <2>2. CASE ok
    <3>1. fix' = mTrackingSessions[k] BY <1>2, <2>2 DEF startFix
    <3>2. FixIsSmallest' BY <3>1, <2>1, <1>u DEF FixIsSmallest
    <3>3. Tracked' BY <3>1, <2>1, Numbers DEF Tracked, AcceptedIsTracked
    <3>4. TypeOK' BY <3>1, <2>1, <1>u, Numbers DEF TypeOK
    <3> QED BY <3>2, <3>3, <3>4
  <2>3. CASE ~ok
    <3>1. fix' = fix BY <1>2, <2>3 DEF startFix
    <3>2. FixIsSmallest' BY <3>1, <1>u DEF FixIsSmallest
    <3>3. Tracked' BY <1>2, <2>3, <1>u DEF Tracked, AcceptedIsTracked
    <3>4. TypeOK' BY <3>1, <1>u DEF TypeOK
    <3> QED BY <3>2, <3>3, <3>4
  <2> QED BY <2>2, <2>3
<1> QED BY <1>1, <1>2 DEF restartSessions

(* Every step preserves the invariant.                                     *)
LEMMA IInvStep == IInv /\ [Next]_vars => IInv'
<1> SUFFICES ASSUME IInv, [Next]_vars PROVE IInv'
  OBVIOUS
<1> USE DEF IInv
<1>s. ASSUME UNCHANGED <<mTrackingSessions, fix, engineUp, restarts>>
      PROVE  FixIsSmallest' /\ Tracked'
  BY <1>s, FailedCommand
<1>1. ASSUME NEW c \in Clients, addClientCommand(c) PROVE IInv'
  <2>1. TypeOK' BY <1>1 DEF addClientCommand, TypeOK, Sessions
  <2> QED BY <1>1, <1>s, <2>1 DEF addClientCommand
<1>2. ASSUME NEW c \in Clients, removeClientCommand(c) PROVE IInv'
  <2>1. TypeOK' BY <1>2 DEF removeClientCommand, TypeOK, Sessions
  <2> QED BY <1>2, <1>s, <2>1 DEF removeClientCommand
<1>3. ASSUME NEW c \in Clients, NEW options \in LocationOptions, startTrackingCommand(c, options)
      PROVE  IInv'
  BY <1>3, StartStep
<1>4. ASSUME NEW key \in Sessions, stopTrackingCommand(key) PROVE IInv'
  <2>1. StopSession(key) BY <1>4 DEF stopTrackingCommand
  <2>2. TypeOK' BY <1>4, <2>1, StopStep DEF stopTrackingCommand, StopSession, TypeOK
  <2> QED BY <2>1, <2>2, StopStep
<1>5. ASSUME NEW key \in Sessions, NEW options \in LocationOptions,
             updateTrackingOptionsCommand(key, options)
      PROVE  IInv'
  BY <1>5, UpdateStep
<1>6. CASE stopClientSessions
  <2>1. PICK key \in todo : StopSession(key) /\ todo' = todo \ {key}
    BY <1>6 DEF stopClientSessions
  <2>2. TypeOK' BY <1>6, <2>1, StopStep DEF stopClientSessions, StopSession, TypeOK
  <2> QED BY <2>1, <2>2, StopStep
<1>7. CASE eraseClient
  <2>1. TypeOK' BY <1>7 DEF eraseClient, TypeOK, Sessions
  <2> QED BY <1>7, <1>s, <2>1 DEF eraseClient
<1>8. CASE restartSessions BY <1>8, RestartStep
<1>9. CASE engineDown
  <2>1. TypeOK' BY <1>9 DEF engineDown, TypeOK, Sessions
  <2>2. FixIsSmallest' /\ Tracked'
    BY <1>9 DEF engineDown, FixIsSmallest, Tracked, AcceptedIsTracked
  <2> QED BY <2>1, <2>2
<1>10. CASE handleEngineUpEvent
  <2>1. TypeOK' BY <1>10 DEF handleEngineUpEvent, TypeOK, Sessions
  <2>2. FixIsSmallest' BY <1>10 DEF handleEngineUpEvent, FixIsSmallest, Sessions
  <2>3. restarts' # 0 BY <1>10 DEF handleEngineUpEvent, TypeOK
  <2>4. Tracked' BY <2>3 DEF Tracked, AcceptedIsTracked
  <2> QED BY <2>1, <2>2, <2>4
<1>11. CASE UNCHANGED vars
  <2>1. TypeOK' BY <1>11 DEF vars, TypeOK, Sessions
  <2> QED BY <1>11, <1>s, <2>1 DEF vars
<1> QED
  BY <1>1, <1>2, <1>3, <1>4, <1>5, <1>6, <1>7, <1>8, <1>9, <1>10, <1>11 DEF Next, Removal

(* The invariant holds in every reachable state.                           *)
LEMMA Invariance == Spec => []IInv
<1>1. Init => IInv
  BY TrackingAssumption DEF Init, IInv, TypeOK, Sessions, FixIsSmallest, Tracked, AcceptedIsTracked
<1> QED BY <1>1, IInvStep, PTL DEF Spec

(* Types are respected in every reachable state of the session map, the    *)
(* client map and the engine.                                              *)
THEOREM TypeCorrect == Spec => []TypeOK
<1>1. IInv => TypeOK BY DEF IInv
<1> QED BY Invariance, <1>1, PTL

(* The multiplexing of GnssAdapter is right for any number of clients and  *)
(* sessions: a fix that runs has the smallest interval asked for.          *)
THEOREM MultiplexingCorrect == Spec => []FixIsSmallest
<1>1. IInv => FixIsSmallest BY DEF IInv
<1> QED BY Invariance, <1>1, PTL

(* If startFix works on an engine that is up when restartSessions calls    *)
(* it, every session a client was told is started has a fix behind it.     *)
THEOREM AcceptedSessionsAreTracked ==
  ASSUME RestartMayFail = FALSE
  PROVE  Spec => []AcceptedIsTracked
<1>1. IInv => AcceptedIsTracked BY DEF IInv, Tracked
<1> QED BY Invariance, <1>1, PTL
=============================================================================
