----------------------------- MODULE AgpsProofs -----------------------------
(***************************************************************************)
(* Proofs about the AGPS manager, for every set of handles, every bound    *)
(* and both settings of the emergency PDN.                                 *)
(***************************************************************************)
EXTENDS Agps, FiniteSetTheorems, SequenceTheorems, TLAPS

USE ConstantsAssumption

(* What the messages are made of. *)
LEMMA MessagesTyped ==
  /\ \A h \in Handles, t \in Nifs : RequestATL(h, t) \in Messages
  /\ \A h \in Handles : ReleaseATL(h) \in Messages
  /\ \A m \in Nifs, e \in ProviderEvent : AtlEvent(m, e) \in Messages
  /\ \A msg \in Messages :
       /\ msg.msg = "RequestATL" => msg.handle \in Handles /\ msg.agpsType \in Nifs
       /\ msg.msg = "ReleaseATL" => msg.handle \in Handles
       /\ msg.msg = "AtlEvent" => msg.agpsType \in Nifs /\ msg.event \in ProviderEvent
  BY DEF Messages, RequestATL, ReleaseATL, AtlEvent

(* Handling a message removes the head of the queue and appends what the   *)
(* handler posts.                                                          *)
LEMMA PostedTyped ==
  ASSUME NEW msgs \in Seq(Messages), queue \in Seq(Messages), queue # <<>>, Posted(msgs)
  PROVE  queue' \in Seq(Messages)
  <1>1. Tail(queue) \in Seq(Messages)
    OBVIOUS
  <1> QED BY <1>1 DEF Posted

LEMMA HandledTyped ==
  ASSUME queue \in Seq(Messages), queue # <<>>, Handled
  PROVE  queue' \in Seq(Messages)
  <1>1. <<>> \in Seq(Messages)
    OBVIOUS
  <1> QED BY <1>1, PostedTyped DEF Handled

(* The SUPL requests posted for denied DS subscribers, in any list order.  *)
LEMMA FallbackTyped ==
  ASSUME NEW S \in SUBSET Handles, NEW order \in SetToSeqs(S)
  PROVE  [i \in 1..Len(order) |-> RequestATL(order[i], "SUPL")] \in Seq(Messages)
  <1>1. Cardinality(S) \in Nat
    BY HandlesAssumption, FS_Subset, FS_CardinalityType
  <1>2. order \in [1..Cardinality(S) -> S]
    BY DEF SetToSeqs
  <1>3. order \in Seq(S) /\ Len(order) \in Nat
    BY <1>1, <1>2
  <1>4. \A i \in 1..Len(order) : RequestATL(order[i], "SUPL") \in Messages
    BY <1>3, MessagesTyped DEF Nifs
  <1> QED BY <1>3, <1>4

-----------------------------------------------------------------------------
(* Typing of the helpers of AgpsStateMachine.                              *)

LEMMA NotificationsTyped ==
  ASSUME TypeOK, NEW H, AtlOpened(H) \/ AtlOpenFailed(H) \/ AtlClosed(H)
  PROVE  modem' \in [Handles -> {"idle", "opening", "open", "closing"}]
  BY DEF TypeOK, AtlOpened, AtlOpenFailed, AtlClosed

ListsTyped ==
  /\ mSubscriberList \in [Nifs -> SUBSET Handles]
  /\ mWaitForCloseComplete \in [Nifs -> SUBSET Handles]
  /\ mIsInactive \in [Nifs -> SUBSET Handles]

LEMMA AddTyped ==
  ASSUME TypeOK, NEW h \in Handles, NEW m \in Nifs, NEW wait \in BOOLEAN,
         addSubscriber(h, m, wait)
  PROVE  ListsTyped'
  <1>1. CASE h \in mSubscriberList[m]
    BY <1>1 DEF TypeOK, ListsTyped, addSubscriber
  <1>2. CASE h \notin mSubscriberList[m]
    <2> DEFINE waits == IF wait THEN mWaitForCloseComplete[m] \cup {h}
                        ELSE mWaitForCloseComplete[m]
    <2>1. mSubscriberList[m] \cup {h} \in SUBSET Handles /\ waits \in SUBSET Handles
      BY DEF TypeOK
    <2> HIDE DEF waits
    <2>2. /\ mSubscriberList' = [mSubscriberList EXCEPT ![m] = mSubscriberList[m] \cup {h}]
          /\ mWaitForCloseComplete' = [mWaitForCloseComplete EXCEPT ![m] = waits]
          /\ UNCHANGED mIsInactive
      BY <1>2 DEF addSubscriber, waits
    <2> QED BY <2>1, <2>2 DEF TypeOK, ListsTyped
  <1> QED BY <1>1, <1>2

LEMMA DeleteTyped ==
  ASSUME TypeOK, NEW D, NEW m \in Nifs, deleteSubscribers(D, m)
  PROVE  ListsTyped'
  BY DEF TypeOK, ListsTyped, deleteSubscribers

SentTyped ==
  /\ outstanding \in [Nifs -> Seq({"request", "release"})]
  /\ queue \in Seq(Messages)
  /\ mRetries \in 0..MaxStartDataCallRetries
  /\ timers \in Nat

LEMMA SendTyped ==
  ASSUME TypeOK, NEW m \in Nifs, NEW cmd \in {"request", "release"}, send(m, cmd)
  PROVE  outstanding' \in [Nifs -> Seq({"request", "release"})]
  BY DEF TypeOK, send

LEMMA RequestTyped ==
  ASSUME TypeOK, queue # <<>>, NEW m \in Nifs, NEW active \in SUBSET Handles,
         RequestSent(m) \/ RequestFailed(m, active)
  PROVE  SentTyped'
  <1>1. CASE RequestSent(m)
    BY <1>1, HandledTyped, SendTyped DEF TypeOK, SentTyped, RequestSent
  <1>2. CASE DataCallBusy
    BY <1>2, HandledTyped DEF TypeOK, SentTyped, DataCallBusy, RetryTimer
  <1>3. CASE DataCallRefused(active)
    <2>1. PICK h \in active : Posted(<<RequestATL(h, "SUPL")>>)
      BY <1>3 DEF DataCallRefused
    <2>2. <<RequestATL(h, "SUPL")>> \in Seq(Messages)
      BY MessagesTyped DEF Nifs
    <2>3. queue' \in Seq(Messages)
      BY <2>1, <2>2, PostedTyped DEF TypeOK
    <2> QED BY <1>3, <2>3 DEF TypeOK, SentTyped, DataCallRefused
  <1>4. CASE DataCallError
    BY <1>4, HandledTyped DEF TypeOK, SentTyped, DataCallError
  <1> QED BY <1>1, <1>2, <1>3, <1>4 DEF RequestFailed

-----------------------------------------------------------------------------
(* Typing of the handlers.                                                 *)

LEMMA SubscribeTyped ==
  ASSUME TypeOK, queue # <<>>, NEW h \in Handles, NEW m \in Nifs, NEW wait \in BOOLEAN,
         \/ SubscribeReleased(h, m, wait)
         \/ SubscribeWaits(h, m, wait)
         \/ SubscribeAcquired(h, m, wait)
  PROVE  /\ mState' \in [Nifs -> AgpsState] /\ ListsTyped' /\ SentTyped'
         /\ modem' \in [Handles -> {"idle", "opening", "open", "closing"}]
  <1>1. ListsTyped'
    BY AddTyped DEF SubscribeReleased, SubscribeWaits, SubscribeAcquired
  <1>2. mState' \in [Nifs -> AgpsState]
    BY DEF TypeOK, AgpsState, SubscribeReleased, SubscribeWaits, SubscribeAcquired,
           transitionState
  <1>3. modem' \in [Handles -> {"idle", "opening", "open", "closing"}]
    BY NotificationsTyped
       DEF TypeOK, SubscribeReleased, SubscribeWaits, SubscribeAcquired
  <1>4. SentTyped'
    <2>1. CASE SubscribeReleased(h, m, wait)
      <3>1. activeSubscribers(m) \cup {h} \in SUBSET Handles
        BY DEF TypeOK, activeSubscribers
      <3> QED BY <2>1, <3>1, RequestTyped DEF SubscribeReleased
    <2>2. CASE SubscribeWaits(h, m, wait) \/ SubscribeAcquired(h, m, wait)
      BY <2>2, HandledTyped DEF TypeOK, SentTyped, SubscribeWaits, SubscribeAcquired
    <2> QED BY <2>1, <2>2
  <1> QED BY <1>1, <1>2, <1>3, <1>4

LEMMA requestATLTyped ==
  ASSUME TypeOK, requestATL
  PROVE  TypeOK'
  <1> DEFINE msg == Head(queue)
             h == msg.handle
             t == msg.agpsType
             m == getAgpsStateMachine(t)
  <1>1. msg \in Messages /\ msg.msg = "RequestATL" /\ queue # <<>>
    BY DEF TypeOK, requestATL
  <1>2. h \in Handles /\ m \in Nifs /\ (t = "SUPL_ES") \in BOOLEAN
    BY <1>1, MessagesTyped DEF Nifs, getAgpsStateMachine
  <1>3. CASE /\ m = DsNif /\ ~dsCreated
             /\ AtlOpenFailed({h})
             /\ Handled
             /\ UNCHANGED <<machines, dsCreated, mRetries, timers, outstanding>>
    BY <1>1, <1>3, HandledTyped, NotificationsTyped DEF TypeOK, machines, requestATL
  <1>4. CASE /\ dsCreated' = (dsCreated \/ m = DsNif)
             /\ \/ SubscribeReleased(h, m, t = "SUPL_ES")
                \/ SubscribeWaits(h, m, t = "SUPL_ES")
                \/ SubscribeAcquired(h, m, t = "SUPL_ES")
    <2> HIDE DEF msg, h, t, m
    <2>1. /\ mState' \in [Nifs -> AgpsState] /\ ListsTyped' /\ SentTyped'
          /\ modem' \in [Handles -> {"idle", "opening", "open", "closing"}]
      BY <1>1, <1>2, <1>4, SubscribeTyped
    <2>2. dsCreated' \in BOOLEAN
      BY <1>4 DEF TypeOK
    <2>3. conn' \in [Nifs -> BOOLEAN]
      BY DEF TypeOK, requestATL
    <2> QED BY <2>1, <2>2, <2>3 DEF TypeOK, ListsTyped, SentTyped
  <1> QED BY <1>3, <1>4 DEF requestATL

LEMMA LeaveTyped ==
  ASSUME TypeOK, NEW h \in Handles, NEW m \in Nifs, Leave(h, m)
  PROVE  /\ ListsTyped'
         /\ modem' \in [Handles -> {"idle", "opening", "open", "closing"}]
  <1>1. CASE h \in mWaitForCloseComplete[m]
    <2>1. mIsInactive[m] \cup {h} \in SUBSET Handles
      BY DEF TypeOK
    <2> QED BY <1>1, <2>1 DEF TypeOK, ListsTyped, Leave
  <1>2. CASE h \notin mWaitForCloseComplete[m]
    BY <1>2, DeleteTyped, NotificationsTyped DEF Leave
  <1> QED BY <1>1, <1>2

LEMMA UnsubscribeTyped ==
  ASSUME TypeOK, NEW h \in Handles, NEW m \in Nifs,
         \/ UnsubscribeReleased(h, m)
         \/ UnsubscribeConnected(h, m)
         \/ UnsubscribeReleasing(h, m)
  PROVE  /\ mState' \in [Nifs -> AgpsState] /\ ListsTyped'
         /\ outstanding' \in [Nifs -> Seq({"request", "release"})]
         /\ modem' \in [Handles -> {"idle", "opening", "open", "closing"}]
  <1>1. CASE UnsubscribeReleased(h, m)
    BY <1>1, NotificationsTyped DEF TypeOK, ListsTyped, machines, UnsubscribeReleased
  <1>2. CASE UnsubscribeConnected(h, m)
    BY <1>2, LeaveTyped, SendTyped DEF TypeOK, AgpsState, UnsubscribeConnected, transitionState
  <1>3. CASE UnsubscribeReleasing(h, m)
    BY <1>3, LeaveTyped DEF TypeOK, AgpsState, UnsubscribeReleasing, transitionState
  <1> QED BY <1>1, <1>2, <1>3

LEMMA releaseATLTyped ==
  ASSUME TypeOK, releaseATL
  PROVE  TypeOK'
  <1> DEFINE h == Head(queue).handle
  <1>1. h \in Handles /\ queue # <<>>
    BY MessagesTyped DEF TypeOK, releaseATL
  <1>2. /\ queue' \in Seq(Messages)
        /\ UNCHANGED <<dsCreated, mRetries, timers, conn>>
    BY <1>1, HandledTyped DEF TypeOK, releaseATL
  <1>3. CASE AtlClosed({h}) /\ UNCHANGED <<machines, outstanding>>
    BY <1>2, <1>3, NotificationsTyped DEF TypeOK, machines
  <1>4. ASSUME NEW m \in Nifs,
               \/ UnsubscribeReleased(h, m)
               \/ UnsubscribeConnected(h, m)
               \/ UnsubscribeReleasing(h, m)
        PROVE  TypeOK'
    <2> HIDE DEF h
    <2> QED BY <1>1, <1>2, <1>4, UnsubscribeTyped DEF TypeOK, ListsTyped
  <1> QED BY <1>3, <1>4 DEF releaseATL

LEMMA EventTyped ==
  ASSUME TypeOK, queue # <<>>, NEW m \in Nifs, Granted(m) \/ Released(m) \/ Denied(m)
  PROVE  /\ mState' \in [Nifs -> AgpsState] /\ ListsTyped' /\ SentTyped'
         /\ modem' \in [Handles -> {"idle", "opening", "open", "closing"}]
  <1>1. CASE Granted(m)
    BY <1>1, HandledTyped, NotificationsTyped
       DEF TypeOK, AgpsState, ListsTyped, SentTyped, Granted, transitionState
  <1>2. CASE ForcedRelease(m)
    BY <1>2, HandledTyped, NotificationsTyped, DeleteTyped
       DEF TypeOK, AgpsState, SentTyped, ForcedRelease, transitionState
  <1>3. CASE ReleaseCompleted(m)
    <2>1. activeSubscribers(m) \in SUBSET Handles
      BY DEF TypeOK, activeSubscribers
    <2>2. SentTyped'
      BY <1>3, <2>1, HandledTyped, RequestTyped DEF TypeOK, SentTyped, ReleaseCompleted
    <2> QED BY <1>3, <2>2, NotificationsTyped, DeleteTyped
            DEF TypeOK, AgpsState, ReleaseCompleted, transitionState
  <1>4. CASE OpenDenied(m)
    <2>1. /\ ListsTyped'
          /\ mState' \in [Nifs -> AgpsState]
          /\ modem' \in [Handles -> {"idle", "opening", "open", "closing"}]
      BY <1>4, NotificationsTyped, DeleteTyped
         DEF TypeOK, AgpsState, OpenDenied, transitionState
    <2>2. queue' \in Seq(Messages)
      <3>1. CASE m # DsNif
        BY <1>4, <3>1, HandledTyped DEF TypeOK, OpenDenied
      <3>2. CASE m = DsNif
        <4>1. PICK order \in SetToSeqs(mSubscriberList[m]) :
                Posted([i \in 1..Len(order) |-> RequestATL(order[i], "SUPL")])
          BY <1>4, <3>2 DEF OpenDenied
        <4>2. mSubscriberList[m] \in SUBSET Handles
          BY DEF TypeOK
        <4>3. [i \in 1..Len(order) |-> RequestATL(order[i], "SUPL")] \in Seq(Messages)
          BY <4>2, FallbackTyped
        <4> QED BY <4>1, <4>3, PostedTyped DEF TypeOK
      <3> QED BY <3>1, <3>2
    <2> QED BY <1>4, <2>1, <2>2 DEF TypeOK, SentTyped, OpenDenied
  <1>5. CASE EventIgnored
    BY <1>5, HandledTyped DEF TypeOK, ListsTyped, SentTyped, machines, EventIgnored
  <1> QED BY <1>1, <1>2, <1>3, <1>4, <1>5 DEF Released, Denied

LEMMA reportEventTyped ==
  ASSUME TypeOK, reportEvent
  PROVE  TypeOK'
  <1>1. PICK m \in Nifs : Granted(m) \/ Released(m) \/ Denied(m)
    BY MessagesTyped DEF TypeOK, reportEvent
  <1>2. queue # <<>> /\ UNCHANGED <<dsCreated, conn>>
    BY DEF reportEvent
  <1> QED BY <1>1, <1>2, EventTyped DEF TypeOK, ListsTyped, SentTyped

LEMMA EnvironmentTyped ==
  ASSUME TypeOK,
         \/ retryCallback
         \/ \E h \in Handles, t \in RequestTypes : modemOpen(h, t)
         \/ \E h \in Handles : modemClose(h)
         \/ \E m \in Nifs : Provider(m) \/ providerLosesConnection(m)
  PROVE  TypeOK'
  <1>1. CASE retryCallback
    <2>1. DsNif \in Nifs /\ "SUPL_ES" \in Nifs
      BY DEF Nifs, DsNif
    <2>2. queue' \in Seq(Messages)
      <3>1. CASE UNCHANGED queue
        BY <3>1 DEF TypeOK
      <3>2. ASSUME NEW h \in activeSubscribers(DsNif),
                   queue' = Append(queue, RequestATL(h, "SUPL_ES"))
            PROVE  queue' \in Seq(Messages)
        <4>1. h \in Handles
          BY <2>1 DEF TypeOK, activeSubscribers
        <4>2. RequestATL(h, "SUPL_ES") \in Messages
          BY <2>1, <4>1, MessagesTyped
        <4> QED BY <3>2, <4>2 DEF TypeOK
      <3> QED BY <1>1, <3>1, <3>2 DEF retryCallback
    <2>3. timers' \in Nat
      BY <1>1 DEF TypeOK, retryCallback
    <2> QED BY <1>1, <2>2, <2>3 DEF TypeOK, machines, retryCallback
  <1>2. ASSUME NEW h \in Handles, NEW t \in RequestTypes, modemOpen(h, t)
        PROVE  TypeOK'
    BY <1>2, MessagesTyped DEF TypeOK, machines, modemOpen
  <1>3. ASSUME NEW h \in Handles, modemClose(h)
        PROVE  TypeOK'
    BY <1>3, MessagesTyped DEF TypeOK, machines, modemClose
  <1>4. ASSUME NEW m \in Nifs, Provider(m)
        PROVE  TypeOK'
    <2>1. outstanding[m] # <<>>
      BY <1>4 DEF Provider, providerOpens, providerRefuses, providerCloses,
                  providerCannotClose, providerCancels, NextCommand
    <2>2. ASSUME NEW up \in BOOLEAN, NEW e \in ProviderEvent, Answer(m, up, e)
          PROVE  TypeOK'
      BY <2>1, <2>2, MessagesTyped DEF TypeOK, machines, Answer
    <2>3. CASE providerCancels(m)
      BY <2>1, <2>3 DEF TypeOK, machines, providerCancels
    <2> QED BY <1>4, <2>2, <2>3 DEF TypeOK, ProviderEvent, Provider, providerOpens,
            providerRefuses, providerCloses, providerCannotClose
  <1>5. ASSUME NEW m \in Nifs, providerLosesConnection(m)
        PROVE  TypeOK'
    BY <1>5, MessagesTyped DEF TypeOK, machines, ProviderEvent, providerLosesConnection
  <1> QED BY <1>1, <1>2, <1>3, <1>4, <1>5

(* Type correctness: in particular the retry counter of the DS machine     *)
(* stays within its limit and every message handled is well formed.        *)
THEOREM TypeCorrect == Spec => []TypeOK
  <1>1. Init => TypeOK
    <2> SUFFICES ASSUME Init PROVE TypeOK
      OBVIOUS
    <2>1. dsCreated \in BOOLEAN
      BY DEF Init
    <2> QED BY <2>1 DEF Init, TypeOK, AgpsState
  <1>2. TypeOK /\ [Next]_vars => TypeOK'
    <2>1. CASE UNCHANGED vars
      BY <2>1 DEF TypeOK, vars, machines
    <2>2. CASE Next
      BY <2>2, requestATLTyped, releaseATLTyped, reportEventTyped, EnvironmentTyped
         DEF Next, Adapter
    <2> QED BY <2>1, <2>2
  <1> QED BY <1>1, <1>2, PTL DEF Spec

-----------------------------------------------------------------------------
(* Connection and demand.  ConnMatchesDemand alone is not inductive: that  *)
(* nobody is left waiting when the list becomes empty needs FlagsMatchList, *)
(* and FlagsMatchList in turn is what keeps an inactive subscriber on the   *)
(* list while the machine is releasing.                                    *)
DemandInv == FlagsMatchList /\ ConnMatchesDemand /\ ReleasedIsIdle

LEMMA AddEffect ==
  ASSUME TypeOK, NEW h \in Handles, NEW m \in Nifs, NEW wait \in BOOLEAN,
         addSubscriber(h, m, wait)
  PROVE  /\ mSubscriberList'[m] = mSubscriberList[m] \cup {h}
         /\ mWaitForCloseComplete'[m] \subseteq mWaitForCloseComplete[m] \cup {h}
         /\ mWaitForCloseComplete[m] \subseteq mWaitForCloseComplete'[m]
         /\ mIsInactive' = mIsInactive
         /\ \A n \in Nifs \ {m} : /\ mSubscriberList'[n] = mSubscriberList[n]
                                  /\ mWaitForCloseComplete'[n] = mWaitForCloseComplete[n]
  BY DEF TypeOK, addSubscriber

LEMMA SubscribeDemand ==
  ASSUME TypeOK, DemandInv, NEW h \in Handles, NEW m \in Nifs, NEW wait \in BOOLEAN,
         \/ SubscribeReleased(h, m, wait)
         \/ SubscribeWaits(h, m, wait)
         \/ SubscribeAcquired(h, m, wait)
  PROVE  DemandInv'
  <1>1. addSubscriber(h, m, wait)
    BY DEF SubscribeReleased, SubscribeWaits, SubscribeAcquired
  <1>2. /\ mSubscriberList'[m] = mSubscriberList[m] \cup {h}
        /\ mWaitForCloseComplete'[m] \subseteq mWaitForCloseComplete[m] \cup {h}
        /\ mWaitForCloseComplete[m] \subseteq mWaitForCloseComplete'[m]
        /\ mIsInactive' = mIsInactive
        /\ \A n \in Nifs \ {m} : /\ mSubscriberList'[n] = mSubscriberList[n]
                                 /\ mWaitForCloseComplete'[n] = mWaitForCloseComplete[n]
    BY <1>1, AddEffect
  <1>3. /\ \A n \in Nifs \ {m} : mState'[n] = mState[n]
        /\ \/ mState'[m] = mState[m] /\ (mState[m] = "RELEASED" => m = DsNif)
           \/ mState[m] = "RELEASED" /\ mState'[m] = "PENDING"
    BY DEF TypeOK, AgpsState, SubscribeReleased, SubscribeWaits, SubscribeAcquired,
           RequestFailed, transitionState
  <1>4. FlagsMatchList'
    BY <1>2 DEF DemandInv, FlagsMatchList
  <1>5. ConnMatchesDemand'
    BY <1>2, <1>3 DEF DemandInv, ConnMatchesDemand, activeSubscribers
  <1>6. ReleasedIsIdle'
    BY <1>2, <1>3 DEF DemandInv, ReleasedIsIdle
  <1> QED BY <1>4, <1>5, <1>6 DEF DemandInv

LEMMA UnsubscribeDemand ==
  ASSUME TypeOK, DemandInv, NEW h \in Handles, NEW m \in Nifs, h \in mSubscriberList[m],
         \/ UnsubscribeReleased(h, m)
         \/ UnsubscribeConnected(h, m)
         \/ UnsubscribeReleasing(h, m)
  PROVE  DemandInv'
  <1>1. CASE UnsubscribeReleased(h, m)
    BY <1>1 DEF UnsubscribeReleased, machines, DemandInv, FlagsMatchList,
                ConnMatchesDemand, ReleasedIsIdle, activeSubscribers
  <1>2. ASSUME Leave(h, m)
        PROVE  /\ FlagsMatchList'
               /\ mIsInactive[m] \subseteq mIsInactive'[m]
               /\ \A n \in Nifs \ {m} : /\ mSubscriberList'[n] = mSubscriberList[n]
                                        /\ mIsInactive'[n] = mIsInactive[n]
    <2>1. CASE h \in mWaitForCloseComplete[m]
      <3>1. /\ mIsInactive'[m] = mIsInactive[m] \cup {h}
            /\ \A n \in Nifs \ {m} : mIsInactive'[n] = mIsInactive[n]
            /\ UNCHANGED <<mSubscriberList, mWaitForCloseComplete>>
        BY <1>2, <2>1 DEF TypeOK, Leave
      <3> QED BY <2>1, <3>1 DEF DemandInv, FlagsMatchList
    <2>2. CASE h \notin mWaitForCloseComplete[m]
      <3>1. /\ mSubscriberList'[m] = mSubscriberList[m] \ {h}
            /\ mWaitForCloseComplete'[m] = mWaitForCloseComplete[m] \ {h}
            /\ mIsInactive'[m] = mIsInactive[m] \ {h}
            /\ \A n \in Nifs \ {m} : /\ mSubscriberList'[n] = mSubscriberList[n]
                                     /\ mWaitForCloseComplete'[n] = mWaitForCloseComplete[n]
                                     /\ mIsInactive'[n] = mIsInactive[n]
        BY <1>2, <2>2 DEF TypeOK, Leave, deleteSubscribers
      <3> QED BY <2>2, <3>1 DEF DemandInv, FlagsMatchList
    <2> QED BY <2>1, <2>2
  <1>3. CASE UnsubscribeConnected(h, m)
    <2>1. Leave(h, m)
      BY <1>3 DEF UnsubscribeConnected
    <2>2. /\ \A n \in Nifs \ {m} : mState'[n] = mState[n]
          /\ \/ mState'[m] = "RELEASED" /\ mSubscriberList'[m] = {}
             \/ /\ mState'[m] = "RELEASING" /\ mSubscriberList'[m] # {}
                /\ mSubscriberList'[m] \ mIsInactive'[m] = {}
             \/ /\ mState'[m] \in {"PENDING", "ACQUIRED"}
                /\ mSubscriberList'[m] \ mIsInactive'[m] # {}
      BY <1>3 DEF TypeOK, AgpsState, UnsubscribeConnected, transitionState
    <2>3. ConnMatchesDemand'
      BY <1>2, <2>1, <2>2 DEF DemandInv, FlagsMatchList, ConnMatchesDemand, activeSubscribers
    <2>4. ReleasedIsIdle'
      BY <1>2, <2>1, <2>2 DEF DemandInv, ReleasedIsIdle
    <2> QED BY <1>2, <2>1, <2>3, <2>4 DEF DemandInv
  <1>4. CASE UnsubscribeReleasing(h, m)
    <2>1. Leave(h, m)
      BY <1>4 DEF UnsubscribeReleasing
    <2>2. mIsInactive'[m] # {} /\ mSubscriberList'[m] # {}
      BY <1>2, <1>4, <2>1 DEF DemandInv, ConnMatchesDemand, FlagsMatchList, UnsubscribeReleasing
    <2>3. mState' = mState
      BY <1>4, <2>2 DEF UnsubscribeReleasing
    <2>4. ConnMatchesDemand'
      BY <1>2, <1>4, <2>1, <2>2, <2>3
         DEF DemandInv, ConnMatchesDemand, activeSubscribers, UnsubscribeReleasing
    <2>5. ReleasedIsIdle'
      BY <1>2, <1>4, <2>1, <2>3 DEF DemandInv, ReleasedIsIdle, UnsubscribeReleasing
    <2> QED BY <1>2, <2>1, <2>4, <2>5 DEF DemandInv
  <1> QED BY <1>1, <1>3, <1>4

LEMMA EventDemand ==
  ASSUME TypeOK, DemandInv, NEW m \in Nifs, Granted(m) \/ Released(m) \/ Denied(m)
  PROVE  DemandInv'
  <1>1. CASE Granted(m)
    <2>1. /\ UNCHANGED <<mSubscriberList, mWaitForCloseComplete, mIsInactive>>
          /\ \A n \in Nifs : \/ mState'[n] = mState[n]
                             \/ mState[n] = "PENDING" /\ mState'[n] = "ACQUIRED"
      BY <1>1 DEF TypeOK, Granted, transitionState
    <2> QED BY <2>1 DEF DemandInv, FlagsMatchList, ConnMatchesDemand, ReleasedIsIdle,
                        activeSubscribers
  <1>2. CASE ForcedRelease(m) \/ OpenDenied(m)
    <2>1. /\ mState' = [mState EXCEPT ![m] = "RELEASED"]
          /\ deleteSubscribers(mSubscriberList[m], m)
      BY <1>2 DEF ForcedRelease, OpenDenied, transitionState
    <2>2. /\ mState'[m] = "RELEASED"
          /\ mSubscriberList'[m] = {} /\ mWaitForCloseComplete'[m] = {}
          /\ mIsInactive'[m] = {}
          /\ \A n \in Nifs \ {m} : /\ mState'[n] = mState[n]
                                   /\ mSubscriberList'[n] = mSubscriberList[n]
                                   /\ mWaitForCloseComplete'[n] = mWaitForCloseComplete[n]
                                   /\ mIsInactive'[n] = mIsInactive[n]
      BY <2>1 DEF TypeOK, DemandInv, FlagsMatchList, deleteSubscribers
    <2> QED BY <2>2 DEF DemandInv, FlagsMatchList, ConnMatchesDemand, ReleasedIsIdle,
                        activeSubscribers
  <1>3. CASE ReleaseCompleted(m)
    <2>1. /\ mState' = [mState EXCEPT ![m] =
                          IF activeSubscribers(m) # {} THEN "PENDING" ELSE "RELEASED"]
          /\ deleteSubscribers(mIsInactive[m], m)
      BY <1>3 DEF ReleaseCompleted, transitionState
    <2>2. /\ mState'[m] = IF activeSubscribers(m) # {} THEN "PENDING" ELSE "RELEASED"
          /\ mSubscriberList'[m] = activeSubscribers(m)
          /\ mWaitForCloseComplete'[m] \subseteq mSubscriberList'[m]
          /\ mIsInactive'[m] = {}
          /\ \A n \in Nifs \ {m} : /\ mState'[n] = mState[n]
                                   /\ mSubscriberList'[n] = mSubscriberList[n]
                                   /\ mWaitForCloseComplete'[n] = mWaitForCloseComplete[n]
                                   /\ mIsInactive'[n] = mIsInactive[n]
      BY <2>1 DEF TypeOK, DemandInv, FlagsMatchList, deleteSubscribers, activeSubscribers
    <2> QED BY <2>2 DEF DemandInv, FlagsMatchList, ConnMatchesDemand, ReleasedIsIdle,
                        activeSubscribers
  <1>4. CASE EventIgnored
    BY <1>4 DEF EventIgnored, machines, DemandInv, FlagsMatchList, ConnMatchesDemand,
                ReleasedIsIdle, activeSubscribers
  <1> QED BY <1>1, <1>2, <1>3, <1>4 DEF Released, Denied

LEMMA DemandTogether == Spec => []DemandInv
  <1>1. Init => DemandInv
    BY DEF Init, DemandInv, FlagsMatchList, ConnMatchesDemand, ReleasedIsIdle
  <1>2. TypeOK /\ DemandInv /\ [Next]_vars => DemandInv'
    <2> SUFFICES ASSUME TypeOK, DemandInv, [Next]_vars
                 PROVE  DemandInv'
      OBVIOUS
    <2>1. CASE UNCHANGED machines
      BY <2>1 DEF machines, DemandInv, FlagsMatchList, ConnMatchesDemand, ReleasedIsIdle,
                  activeSubscribers
    <2>2. CASE requestATL
      <3>1. \/ UNCHANGED machines
            \/ \E h \in Handles, m \in Nifs, wait \in BOOLEAN :
                 \/ SubscribeReleased(h, m, wait)
                 \/ SubscribeWaits(h, m, wait)
                 \/ SubscribeAcquired(h, m, wait)
        <4> DEFINE msg == Head(queue)
        <4>1. msg \in Messages /\ msg.msg = "RequestATL"
          BY <2>2 DEF TypeOK, requestATL
        <4>2. msg.handle \in Handles /\ getAgpsStateMachine(msg.agpsType) \in Nifs
          BY <4>1, MessagesTyped DEF Nifs, getAgpsStateMachine
        <4> QED BY <2>2, <4>2 DEF requestATL
      <3> QED BY <2>1, <3>1, SubscribeDemand
    <2>3. CASE releaseATL
      <3>1. \/ UNCHANGED machines
            \/ \E h \in Handles, m \in Nifs :
                 /\ h \in mSubscriberList[m]
                 /\ \/ UnsubscribeReleased(h, m)
                    \/ UnsubscribeConnected(h, m)
                    \/ UnsubscribeReleasing(h, m)
        BY <2>3, MessagesTyped DEF TypeOK, releaseATL, SubscribedTo
      <3> QED BY <2>1, <3>1, UnsubscribeDemand
    <2>4. CASE reportEvent
      <3>1. \E m \in Nifs : Granted(m) \/ Released(m) \/ Denied(m)
        BY <2>4, MessagesTyped DEF TypeOK, reportEvent
      <3> QED BY <3>1, EventDemand
    <2>5. CASE \/ retryCallback
               \/ \E h \in Handles, t \in RequestTypes : modemOpen(h, t)
               \/ \E h \in Handles : modemClose(h)
               \/ \E m \in Nifs : Provider(m) \/ providerLosesConnection(m)
      <3>1. UNCHANGED machines
        BY <2>5 DEF retryCallback, modemOpen, modemClose, Provider, providerOpens,
                    providerRefuses, providerCloses, providerCannotClose, providerCancels,
                    providerLosesConnection, Answer
      <3> QED BY <2>1, <3>1
    <2>6. CASE UNCHANGED vars
      BY <2>1, <2>6 DEF vars
    <2> QED BY <2>2, <2>3, <2>4, <2>5, <2>6 DEF Next, Adapter
  <1> QED BY <1>1, <1>2, TypeCorrect, PTL DEF Spec

(* The three machines never hold or ask for a connection nobody wants, and *)
(* never forget a subscriber waiting for the close: ConnMatchesDemand and  *)
(* ReleasedIsIdle for any number of handles and any order of requests,     *)
(* releases, provider answers and retries.                                 *)
THEOREM DemandInvariant == Spec => [](ConnMatchesDemand /\ ReleasedIsIdle)
  BY DemandTogether, PTL DEF DemandInv

(* "Subscriber list should be empty if we are in released state"           *)
(* (Agps.cpp, processAgpsEventReleased): ReleasedIsIdle, for the machines  *)
(* of SUPL and WWAN_ANY.                                                   *)
THEOREM ReleasedMachinesAreIdle == Spec => []ReleasedIsIdle
  BY DemandInvariant, PTL

-----------------------------------------------------------------------------
(* What becomes of the queue.  Asks(i, h): message i is a request for h.   *)

Asks(i, h) == queue[i].msg = "RequestATL" /\ queue[i].handle = h
Queued(h) == \E i \in 1..Len(queue) : Asks(i, h)

LEMMA PostedPositions ==
  ASSUME NEW msgs \in Seq(Messages), queue \in Seq(Messages), queue # <<>>, Posted(msgs)
  PROVE  /\ Len(queue) \in Nat \ {0} /\ Len(msgs) \in Nat
         /\ Len(queue') = Len(queue) - 1 + Len(msgs)
         /\ \A i \in 1..(Len(queue) - 1) : queue'[i] = queue[i + 1]
         /\ \A i \in 1..Len(msgs) : queue'[Len(queue) - 1 + i] = msgs[i]
  <1> DEFINE t == Tail(queue)
  <1>1. t \in Seq(Messages) /\ Len(t) = Len(queue) - 1 /\ Len(queue) \in Nat \ {0}
    OBVIOUS
  <1>2. \A i \in 1..Len(t) : t[i] = queue[i + 1]
    BY <1>1
  <1>3. queue' = t \o msgs
    BY DEF Posted
  <1> HIDE DEF t
  <1>4. Len(queue') = Len(t) + Len(msgs) /\ Len(msgs) \in Nat
    <2>1. Len(t \o msgs) = Len(t) + Len(msgs)
      BY <1>1, ConcatProperties
    <2>2. Len(msgs) \in Nat
      OBVIOUS
    <2> QED BY <1>3, <2>1, <2>2
  <1>5. \A i \in 1..(Len(t) + Len(msgs)) :
          queue'[i] = IF i <= Len(t) THEN t[i] ELSE msgs[i - Len(t)]
    BY <1>1, <1>3
  <1>6. \A i \in 1..Len(t) : i \in 1..(Len(t) + Len(msgs)) /\ i <= Len(t)
    BY <1>1, <1>4
  <1>7. ASSUME NEW i \in 1..Len(msgs)
        PROVE  queue'[Len(t) + i] = msgs[i]
    <2>1. /\ Len(t) + i \in 1..(Len(t) + Len(msgs)) /\ ~(Len(t) + i <= Len(t))
          /\ Len(t) + i - Len(t) = i
      BY <1>1, <1>4
    <2> QED BY <1>5, <2>1
  <1>8. \A i \in 1..Len(t) : queue'[i] = queue[i + 1]
    BY <1>2, <1>5, <1>6
  <1> QED BY <1>1, <1>4, <1>7, <1>8

LEMMA HandledPositions ==
  ASSUME queue \in Seq(Messages), queue # <<>>, Handled
  PROVE  /\ Len(queue) \in Nat \ {0}
         /\ Len(queue') = Len(queue) - 1
         /\ \A i \in 1..(Len(queue) - 1) : queue'[i] = queue[i + 1]
  <1>1. <<>> \in Seq(Messages) /\ Len(<<>>) = 0
    OBVIOUS
  <1>2. /\ Len(queue) \in Nat \ {0}
        /\ Len(queue') = Len(queue) - 1 + Len(<<>>)
        /\ \A i \in 1..(Len(queue) - 1) : queue'[i] = queue[i + 1]
    BY <1>1, PostedPositions DEF Handled
  <1> QED BY <1>1, <1>2

LEMMA AppendedPositions ==
  ASSUME NEW msg \in Messages, queue \in Seq(Messages), queue' = Append(queue, msg)
  PROVE  /\ Len(queue) \in Nat /\ Len(queue') = Len(queue) + 1
         /\ \A i \in 1..Len(queue) : queue'[i] = queue[i]
         /\ queue'[Len(queue) + 1] = msg
  OBVIOUS

(* A message behind the head survives whatever the handler posts, and what *)
(* it posts is queued.                                                     *)
LEMMA PostedKeeps ==
  ASSUME NEW msgs \in Seq(Messages), queue \in Seq(Messages), queue # <<>>, Posted(msgs)
  PROVE  /\ \A i \in 1..Len(queue) : queue[i] # Head(queue) =>
              \E j \in 1..Len(queue') : queue'[j] = queue[i]
         /\ \A i \in 1..Len(msgs) : \E j \in 1..Len(queue') : queue'[j] = msgs[i]
  <1>1. Head(queue) = queue[1]
    OBVIOUS
  <1>2. ASSUME NEW i \in 1..Len(queue), queue[i] # Head(queue)
        PROVE  \E j \in 1..Len(queue') : queue'[j] = queue[i]
    <2>1. i - 1 \in 1..Len(queue') /\ queue'[i - 1] = queue[i]
      BY <1>1, <1>2, PostedPositions
    <2> QED BY <2>1
  <1>3. ASSUME NEW i \in 1..Len(msgs)
        PROVE  \E j \in 1..Len(queue') : queue'[j] = msgs[i]
    <2>1. /\ Len(queue) - 1 + i \in 1..Len(queue')
          /\ queue'[Len(queue) - 1 + i] = msgs[i]
      BY PostedPositions
    <2> QED BY <2>1
  <1> QED BY <1>2, <1>3

(* Every handler of the adapter's thread posts some messages.              *)
HandlesMessage == \E msgs \in Seq(Messages) : Posted(msgs)

LEMMA HandledPosts ==
  ASSUME Handled
  PROVE  HandlesMessage
  <1>1. <<>> \in Seq(Messages)
    OBVIOUS
  <1> QED BY <1>1 DEF Handled, HandlesMessage

LEMMA RequestPosts ==
  ASSUME TypeOK, NEW m \in Nifs, NEW active \in SUBSET Handles,
         RequestSent(m) \/ RequestFailed(m, active)
  PROVE  HandlesMessage
  <1>1. CASE DataCallRefused(active)
    <2>1. PICK h \in active : Posted(<<RequestATL(h, "SUPL")>>)
      BY <1>1 DEF DataCallRefused
    <2>2. <<RequestATL(h, "SUPL")>> \in Seq(Messages)
      BY MessagesTyped DEF Nifs
    <2> QED BY <2>1, <2>2 DEF HandlesMessage
  <1>2. CASE Handled
    BY <1>2, HandledPosts
  <1> QED BY <1>1, <1>2 DEF RequestFailed, RequestSent, DataCallBusy, DataCallError

LEMMA SubscribePosts ==
  ASSUME TypeOK, NEW h \in Handles, NEW m \in Nifs, NEW wait \in BOOLEAN,
         \/ SubscribeReleased(h, m, wait)
         \/ SubscribeWaits(h, m, wait)
         \/ SubscribeAcquired(h, m, wait)
  PROVE  HandlesMessage
  <1>1. CASE SubscribeReleased(h, m, wait)
    <2>1. activeSubscribers(m) \cup {h} \in SUBSET Handles
      BY DEF TypeOK, activeSubscribers
    <2> QED BY <1>1, <2>1, RequestPosts DEF SubscribeReleased
  <1> QED BY <1>1, HandledPosts DEF SubscribeWaits, SubscribeAcquired

(* The order in which denied DS subscribers are re-requested leaves none   *)
(* out.                                                                    *)
LEMMA FallbackCovers ==
  ASSUME NEW S \in SUBSET Handles, NEW order \in SetToSeqs(S), NEW h \in S
  PROVE  \E i \in 1..Len(order) : order[i] = h
  <1>1. IsFiniteSet(S) /\ Cardinality(S) \in Nat
    BY HandlesAssumption, FS_Subset, FS_CardinalityType
  <1> DEFINE n == Cardinality(S)
  <1>2. order \in [1..n -> S] /\ \A i, j \in 1..n : i # j => order[i] # order[j]
    BY DEF SetToSeqs
  <1>3. Len(order) = n
    BY <1>1, <1>2
  <1>4. IsFiniteSet(1..n) /\ Cardinality(1..n) = n
    BY <1>1, FS_Interval
  <1>5. order \in Injection(1..n, S)
    BY <1>2 DEF Injection, IsInjective
  <1>6. order \in Surjection(1..n, S)
    BY <1>1, <1>4, <1>5, FS_Injection
  <1> QED BY <1>3, <1>6 DEF Surjection

LEMMA QueuedStays ==
  ASSUME TypeOK, queue # <<>>, HandlesMessage, NEW h, Queued(h), ~Asks(1, h)
  PROVE  Queued(h)'
  <1>1. PICK msgs \in Seq(Messages) : Posted(msgs)
    BY DEF HandlesMessage
  <1>2. PICK i \in 1..Len(queue) : Asks(i, h)
    BY DEF Queued
  <1>3. Head(queue) = queue[1]
    BY DEF TypeOK
  <1>4. queue[i] # Head(queue)
    BY <1>2, <1>3 DEF Asks
  <1>5. PICK j \in 1..Len(queue') : queue'[j] = queue[i]
    BY <1>1, <1>4, PostedKeeps DEF TypeOK
  <1> QED BY <1>2, <1>5 DEF Queued, Asks

LEMMA QueuedStaysAppend ==
  ASSUME TypeOK, NEW msg \in Messages, queue' = Append(queue, msg), NEW h, Queued(h)
  PROVE  Queued(h)'
  BY AppendedPositions DEF TypeOK, Queued, Asks

(* The message a requestATL handles, and what it does with it.             *)
LEMMA requestATLCases ==
  ASSUME TypeOK, requestATL
  PROVE  /\ queue # <<>>
         /\ \E h \in Handles :
              /\ Asks(1, h) /\ \A g : Asks(1, g) => g = h
              /\ \/ /\ UseEmergencyPdn
                    /\ AtlOpenFailed({h})
                    /\ Handled
                    /\ UNCHANGED <<machines, outstanding>>
                 \/ \E m \in Nifs, wait \in BOOLEAN :
                      /\ ~UseEmergencyPdn => m # DsNif
                      /\ \/ SubscribeReleased(h, m, wait)
                         \/ SubscribeWaits(h, m, wait)
                         \/ SubscribeAcquired(h, m, wait)
  <1> DEFINE msg == Head(queue)
             m == getAgpsStateMachine(msg.agpsType)
  <1>1. msg \in Messages /\ msg.msg = "RequestATL" /\ queue # <<>> /\ msg = queue[1]
    BY DEF TypeOK, requestATL
  <1>2. msg.handle \in Handles /\ msg.agpsType \in Nifs
    BY <1>1, MessagesTyped
  <1>3. m \in Nifs /\ (~UseEmergencyPdn => m # DsNif)
    BY <1>2 DEF Nifs, DsNif, getAgpsStateMachine
  <1>4. Asks(1, msg.handle) /\ \A g : Asks(1, g) => g = msg.handle
    BY <1>1 DEF Asks
  <1>5. (msg.agpsType = "SUPL_ES") \in BOOLEAN
    OBVIOUS
  <1>6. \/ /\ m = DsNif
           /\ AtlOpenFailed({msg.handle})
           /\ Handled
           /\ UNCHANGED <<machines, outstanding>>
        \/ \/ SubscribeReleased(msg.handle, m, msg.agpsType = "SUPL_ES")
           \/ SubscribeWaits(msg.handle, m, msg.agpsType = "SUPL_ES")
           \/ SubscribeAcquired(msg.handle, m, msg.agpsType = "SUPL_ES")
    BY DEF requestATL
  <1> HIDE DEF msg, m
  <1> QED BY <1>1, <1>2, <1>3, <1>4, <1>5, <1>6

LEMMA releaseATLCases ==
  ASSUME TypeOK, releaseATL
  PROVE  /\ queue # <<>> /\ Handled /\ queue[1].msg = "ReleaseATL"
         /\ \E h \in Handles :
              /\ queue[1].handle = h
              /\ \/ /\ \A m \in Nifs : h \notin mSubscriberList[m]
                    /\ AtlClosed({h})
                    /\ UNCHANGED <<machines, outstanding>>
                 \/ \E m \in Nifs :
                      /\ h \in mSubscriberList[m]
                      /\ \/ UnsubscribeReleased(h, m)
                         \/ UnsubscribeConnected(h, m)
                         \/ UnsubscribeReleasing(h, m)
  <1>1. /\ Head(queue) \in Messages /\ Head(queue) = queue[1]
        /\ queue # <<>> /\ queue[1].msg = "ReleaseATL" /\ Handled
    BY DEF TypeOK, releaseATL
  <1>2. queue[1].handle \in Handles
    BY <1>1, MessagesTyped
  <1> QED BY <1>1, <1>2 DEF releaseATL, SubscribedTo

LEMMA reportEventCases ==
  ASSUME TypeOK, reportEvent
  PROVE  /\ queue # <<>> /\ queue[1].msg = "AtlEvent"
         /\ \E m \in Nifs :
              /\ queue[1].agpsType = m
              /\ \/ queue[1].event = "GRANTED" /\ Granted(m)
                 \/ queue[1].event = "RELEASED" /\ Released(m)
                 \/ queue[1].event = "DENIED" /\ Denied(m)
  <1>1. /\ Head(queue) \in Messages /\ Head(queue) = queue[1]
        /\ queue # <<>> /\ queue[1].msg = "AtlEvent"
    BY DEF TypeOK, reportEvent
  <1>2. queue[1].agpsType \in Nifs
    BY <1>1, MessagesTyped
  <1> QED BY <1>1, <1>2 DEF reportEvent

-----------------------------------------------------------------------------
(* A request is never forgotten.  OpenNotForgotten is inductive as it      *)
(* stands; the argument is about what each handler does with the handles   *)
(* it takes off a list or out of the queue.                                *)
Known(h) == (\E m \in Nifs : h \in mSubscriberList[m]) \/ Queued(h)

LEMMA requestATLRemembers ==
  ASSUME TypeOK, OpenNotForgotten, requestATL, NEW g \in Handles, modem'[g] = "opening"
  PROVE  Known(g)'
  <1>1. PICK h \in Handles :
           /\ Asks(1, h) /\ \A x : Asks(1, x) => x = h
           /\ \/ /\ AtlOpenFailed({h})
                 /\ Handled
                 /\ UNCHANGED <<machines, outstanding>>
              \/ \E m \in Nifs, wait \in BOOLEAN :
                   \/ SubscribeReleased(h, m, wait)
                   \/ SubscribeWaits(h, m, wait)
                   \/ SubscribeAcquired(h, m, wait)
    BY requestATLCases
  <1>2. CASE AtlOpenFailed({h}) /\ Handled /\ UNCHANGED <<machines, outstanding>>
    <2>1. g # h /\ modem[g] = "opening"
      BY <1>2 DEF AtlOpenFailed, TypeOK
    <2>2. HandlesMessage /\ queue # <<>>
      BY <1>2, HandledPosts, requestATLCases
    <2>3. Known(g)
      BY <2>1 DEF OpenNotForgotten, Known, Queued, Asks
    <2> QED BY <1>1, <1>2, <2>1, <2>2, <2>3, QueuedStays DEF Known, machines
  <1>3. ASSUME NEW m \in Nifs, NEW wait \in BOOLEAN,
               \/ SubscribeReleased(h, m, wait)
               \/ SubscribeWaits(h, m, wait)
               \/ SubscribeAcquired(h, m, wait)
        PROVE  Known(g)'
    <2>1. modem[g] = "opening"
      BY <1>3 DEF SubscribeReleased, SubscribeWaits, SubscribeAcquired, AtlOpened, TypeOK
    <2>2. HandlesMessage /\ queue # <<>>
      BY <1>3, SubscribePosts, requestATLCases
    <2>3. addSubscriber(h, m, wait)
      BY <1>3 DEF SubscribeReleased, SubscribeWaits, SubscribeAcquired
    <2>4. /\ h \in mSubscriberList'[m]
          /\ \A n \in Nifs : mSubscriberList[n] \subseteq mSubscriberList'[n]
      BY <2>3, AddEffect
    <2>5. Known(g)
      BY <2>1 DEF OpenNotForgotten, Known, Queued, Asks
    <2> QED BY <1>1, <2>2, <2>4, <2>5, QueuedStays DEF Known
  <1> QED BY <1>1, <1>2, <1>3

LEMMA releaseATLRemembers ==
  ASSUME TypeOK, OpenNotForgotten, releaseATL, NEW g \in Handles, modem'[g] = "opening"
  PROVE  Known(g)'
  <1>1. PICK h \in Handles :
           \/ AtlClosed({h}) /\ UNCHANGED <<machines, outstanding>>
           \/ \E m \in Nifs :
                \/ UnsubscribeReleased(h, m)
                \/ UnsubscribeConnected(h, m)
                \/ UnsubscribeReleasing(h, m)
    BY releaseATLCases
  <1>2. modem[g] = "opening" /\ \A m \in Nifs : g \in mSubscriberList[m] => g \in mSubscriberList'[m]
    <2>1. CASE AtlClosed({h}) /\ UNCHANGED mSubscriberList
      BY <2>1 DEF AtlClosed, TypeOK
    <2>2. ASSUME NEW m \in Nifs, Leave(h, m)
          PROVE  <1>2!1 /\ <1>2!2
      <3>1. CASE h \in mWaitForCloseComplete[m]
        BY <2>2, <3>1 DEF Leave
      <3>2. CASE h \notin mWaitForCloseComplete[m]
        <4>1. deleteSubscribers({h}, m) /\ AtlClosed({h})
          BY <2>2, <3>2 DEF Leave
        <4>2. g # h /\ modem[g] = "opening"
          BY <4>1 DEF AtlClosed, TypeOK
        <4> QED BY <4>1, <4>2 DEF deleteSubscribers, TypeOK
      <3> QED BY <3>1, <3>2
    <2> QED BY <1>1, <2>1, <2>2 DEF machines, UnsubscribeReleased, UnsubscribeConnected,
            UnsubscribeReleasing
  <1>3. Known(g) /\ ~Asks(1, g) /\ HandlesMessage /\ queue # <<>>
    BY <1>2, releaseATLCases, HandledPosts DEF OpenNotForgotten, Known, Queued, Asks
  <1> QED BY <1>2, <1>3, QueuedStays DEF Known

LEMMA reportEventRemembers ==
  ASSUME TypeOK, OpenNotForgotten, reportEvent, NEW g \in Handles, modem'[g] = "opening"
  PROVE  Known(g)'
  <1>1. PICK m \in Nifs : Granted(m) \/ Released(m) \/ Denied(m)
    BY reportEventCases
  <1>2. ~Asks(1, g) /\ queue # <<>>
    BY reportEventCases DEF Asks
  <1>3. ASSUME HandlesMessage, modem[g] = "opening",
               \A n \in Nifs : g \in mSubscriberList[n] => g \in mSubscriberList'[n]
        PROVE  Known(g)'
    <2>1. Known(g)
      BY <1>3 DEF OpenNotForgotten, Known, Queued, Asks
    <2> QED BY <1>2, <1>3, <2>1, QueuedStays DEF Known
  <1>4. ASSUME HandlesMessage, NEW D, deleteSubscribers(D, m), AtlClosed(D) \/ AtlOpenFailed(D)
        PROVE  Known(g)'
    <2>1. g \notin D /\ modem[g] = "opening"
      BY <1>4 DEF AtlClosed, AtlOpenFailed, TypeOK
    <2>2. \A n \in Nifs : g \in mSubscriberList[n] => g \in mSubscriberList'[n]
      BY <1>4, <2>1 DEF deleteSubscribers, TypeOK
    <2> QED BY <1>3, <1>4, <2>1, <2>2
  <1>5. CASE Granted(m)
    <2>1. HandlesMessage
      BY <1>5, HandledPosts DEF Granted
    <2>2. modem[g] = "opening" /\ UNCHANGED mSubscriberList
      BY <1>5 DEF Granted, AtlOpened, TypeOK
    <2> QED BY <1>3, <2>1, <2>2
  <1>6. CASE ForcedRelease(m)
    BY <1>4, <1>6, HandledPosts DEF ForcedRelease
  <1>7. CASE ReleaseCompleted(m)
    <2>1. activeSubscribers(m) \in SUBSET Handles
      BY DEF TypeOK, activeSubscribers
    <2>2. HandlesMessage
      BY <1>7, <2>1, HandledPosts, RequestPosts DEF ReleaseCompleted
    <2> QED BY <1>4, <1>7, <2>2 DEF ReleaseCompleted
  <1>8. CASE OpenDenied(m)
    <2>1. CASE m # DsNif
      BY <1>4, <1>8, <2>1, HandledPosts DEF OpenDenied
    <2>2. CASE m = DsNif
      <3>1. PICK order \in SetToSeqs(mSubscriberList[m]) :
              Posted([i \in 1..Len(order) |-> RequestATL(order[i], "SUPL")])
        BY <1>8, <2>2 DEF OpenDenied
      <3> DEFINE msgs == [i \in 1..Len(order) |-> RequestATL(order[i], "SUPL")]
      <3>2. mSubscriberList[m] \in SUBSET Handles
        BY DEF TypeOK
      <3>3. msgs \in Seq(Messages) /\ HandlesMessage
        BY <3>1, <3>2, FallbackTyped DEF HandlesMessage
      <3>4. CASE g \in mSubscriberList[m]
        <4>1. PICK i \in 1..Len(order) : order[i] = g
          BY <3>2, <3>4, FallbackCovers
        <4>2. i \in 1..Len(msgs) /\ msgs[i] = RequestATL(g, "SUPL")
          BY <3>3, <4>1
        <4>3. Posted(msgs)
          BY <3>1
        <4> HIDE DEF msgs
        <4>4. PICK j \in 1..Len(queue') : queue'[j] = msgs[i]
          BY <1>2, <3>3, <4>2, <4>3, PostedKeeps DEF TypeOK
        <4> QED BY <4>2, <4>4 DEF Known, Queued, Asks, RequestATL
      <3>5. CASE g \notin mSubscriberList[m]
        <4>1. deleteSubscribers(mSubscriberList[m], m) /\ UNCHANGED modem
          BY <1>8, <2>2 DEF OpenDenied
        <4>2. \A n \in Nifs : g \in mSubscriberList[n] => g \in mSubscriberList'[n]
          BY <3>5, <4>1 DEF deleteSubscribers, TypeOK
        <4> QED BY <1>3, <3>3, <4>1, <4>2
      <3> QED BY <3>4, <3>5
    <2> QED BY <2>1, <2>2
  <1>9. CASE EventIgnored
    BY <1>3, <1>9, HandledPosts DEF EventIgnored, machines
  <1> QED BY <1>1, <1>5, <1>6, <1>7, <1>8, <1>9 DEF Released, Denied

LEMMA EnvironmentAppends ==
  ASSUME TypeOK,
         \/ retryCallback
         \/ \E h \in Handles, t \in RequestTypes : modemOpen(h, t)
         \/ \E h \in Handles : modemClose(h)
         \/ \E m \in Nifs : Provider(m) \/ providerLosesConnection(m)
  PROVE  /\ UNCHANGED machines
         /\ UNCHANGED queue \/ \E msg \in Messages : queue' = Append(queue, msg)
  <1>1. CASE retryCallback
    <2>1. activeSubscribers(DsNif) \subseteq Handles /\ "SUPL_ES" \in Nifs
      BY DEF TypeOK, activeSubscribers, DsNif, Nifs
    <2> QED BY <1>1, <2>1, MessagesTyped DEF retryCallback
  <1>2. ASSUME NEW h \in Handles, NEW t \in RequestTypes, modemOpen(h, t)
        PROVE  UNCHANGED machines /\ \E msg \in Messages : queue' = Append(queue, msg)
    BY <1>2, MessagesTyped DEF modemOpen
  <1>3. ASSUME NEW h \in Handles, modemClose(h)
        PROVE  UNCHANGED machines /\ \E msg \in Messages : queue' = Append(queue, msg)
    BY <1>3, MessagesTyped DEF modemClose
  <1>4. ASSUME NEW m \in Nifs, NEW up, NEW e \in ProviderEvent, Answer(m, up, e)
        PROVE  UNCHANGED machines /\ \E msg \in Messages : queue' = Append(queue, msg)
    BY <1>4, MessagesTyped DEF Answer
  <1>5. ASSUME NEW m \in Nifs, Provider(m) \/ providerLosesConnection(m)
        PROVE  /\ UNCHANGED machines
               /\ UNCHANGED queue \/ \E msg \in Messages : queue' = Append(queue, msg)
    BY <1>4, <1>5, MessagesTyped
       DEF ProviderEvent, Provider, providerOpens, providerRefuses, providerCloses,
           providerCannotClose, providerCancels, providerLosesConnection
  <1> QED BY <1>1, <1>2, <1>3, <1>5

LEMMA EnvironmentRemembers ==
  ASSUME TypeOK, OpenNotForgotten, NEW g \in Handles, modem'[g] = "opening",
         \/ retryCallback
         \/ \E h \in Handles, t \in RequestTypes : modemOpen(h, t)
         \/ \E h \in Handles : modemClose(h)
         \/ \E m \in Nifs : Provider(m) \/ providerLosesConnection(m)
  PROVE  Known(g)'
  <1>1. CASE modem[g] = "opening"
    <2>1. Known(g)
      BY <1>1 DEF OpenNotForgotten, Known, Queued, Asks
    <2>2. UNCHANGED mSubscriberList
      BY EnvironmentAppends DEF machines
    <2>3. CASE UNCHANGED queue
      BY <2>1, <2>2, <2>3 DEF Known, Queued, Asks
    <2>4. ASSUME NEW msg \in Messages, queue' = Append(queue, msg)
          PROVE  Known(g)'
      BY <2>1, <2>2, <2>4, QueuedStaysAppend DEF Known
    <2> QED BY <2>3, <2>4, EnvironmentAppends
  <1>2. CASE modem[g] # "opening"
    <2>1. PICK t \in RequestTypes : modemOpen(g, t)
      BY <1>2 DEF TypeOK, retryCallback, modemOpen, modemClose, Provider, providerOpens,
         providerRefuses, providerCloses, providerCannotClose, providerCancels,
         providerLosesConnection, Answer
    <2>2. RequestATL(g, t) \in Messages /\ queue' = Append(queue, RequestATL(g, t))
      BY <2>1, MessagesTyped DEF modemOpen
    <2>3. Len(queue) + 1 \in 1..Len(queue') /\ queue'[Len(queue) + 1] = RequestATL(g, t)
      BY <2>2, AppendedPositions DEF TypeOK
    <2> QED BY <2>3 DEF Known, Queued, Asks, RequestATL
  <1> QED BY <1>1, <1>2

(* A request the modem waits for is on a machine's list or in the queue,   *)
(* for any number of handles, in both configurations of the emergency PDN  *)
(* and whatever the providers answer.                                      *)
THEOREM RequestsAreRemembered == Spec => []OpenNotForgotten
  <1>1. Init => OpenNotForgotten
    BY DEF Init, OpenNotForgotten
  <1>2. TypeOK /\ OpenNotForgotten /\ [Next]_vars => OpenNotForgotten'
    <2> SUFFICES ASSUME TypeOK, OpenNotForgotten, [Next]_vars
                 PROVE  OpenNotForgotten'
      OBVIOUS
    <2>1. CASE UNCHANGED vars
      BY <2>1 DEF vars, machines, OpenNotForgotten
    <2>2. CASE Next
      <3> SUFFICES ASSUME NEW g \in Handles, modem'[g] = "opening"
                   PROVE  Known(g)'
        BY DEF OpenNotForgotten, Known, Queued, Asks
      <3> QED BY <2>2, requestATLRemembers, releaseATLRemembers, reportEventRemembers,
                 EnvironmentRemembers DEF Next, Adapter
    <2> QED BY <2>1, <2>2
  <1> QED BY <1>1, <1>2, TypeCorrect, PTL DEF Spec

-----------------------------------------------------------------------------
(* A pending machine has a request to be answered.  What makes it          *)
(* inductive is that the request is the LAST command sent to the provider: *)
(* a machine that gives up sends the release behind it, and is no longer   *)
(* pending.                                                                *)
Answered(m) ==
  \E i \in 1..Len(queue) : queue[i] \in {AtlEvent(m, "GRANTED"), AtlEvent(m, "DENIED")}

LastAsked(m) ==
  outstanding[m] # <<>> /\ outstanding[m][Len(outstanding[m])] = "request"

PendingInv == \A m \in Nifs \ {DsNif} : mState[m] = "PENDING" => Answered(m) \/ LastAsked(m)

LEMMA PendingInvSuffices ==
  ASSUME TypeOK, PendingInv
  PROVE  FrameworkPendingHasRequest
  <1> SUFFICES ASSUME NEW m \in Nifs \ {DsNif}, mState[m] = "PENDING"
               PROVE  RequestOutstanding(m)
    BY DEF FrameworkPendingHasRequest
  <1>1. CASE LastAsked(m)
    <2>1. Len(outstanding[m]) \in 1..Len(outstanding[m])
      BY <1>1 DEF LastAsked, TypeOK
    <2> QED BY <1>1, <2>1 DEF LastAsked, RequestOutstanding
  <1>2. CASE Answered(m)
    BY <1>2 DEF Answered, RequestOutstanding
  <1> QED BY <1>1, <1>2 DEF PendingInv

LEMMA SendIsLast ==
  ASSUME TypeOK, NEW m \in Nifs, send(m, "request")
  PROVE  LastAsked(m)' /\ \A n \in Nifs \ {m} : outstanding'[n] = outstanding[n]
  <1>1. /\ outstanding'[m] = Append(outstanding[m], "request")
        /\ outstanding[m] \in Seq({"request", "release"})
        /\ \A n \in Nifs \ {m} : outstanding'[n] = outstanding[n]
    BY DEF TypeOK, send
  <1> DEFINE s == outstanding[m]
  <1> HIDE DEF s
  <1>2. /\ Append(s, "request") # <<>>
        /\ Append(s, "request")[Len(Append(s, "request"))] = "request"
    BY <1>1 DEF s
  <1> QED BY <1>1, <1>2 DEF LastAsked, s

(* A provider's answer stays in the queue until it is the head.            *)
LEMMA AnsweredStays ==
  ASSUME TypeOK, queue # <<>>, HandlesMessage, NEW m, Answered(m),
         queue[1] \notin {AtlEvent(m, "GRANTED"), AtlEvent(m, "DENIED")}
  PROVE  Answered(m)'
  <1>1. PICK msgs \in Seq(Messages) : Posted(msgs)
    BY DEF HandlesMessage
  <1>2. PICK i \in 1..Len(queue) : queue[i] \in {AtlEvent(m, "GRANTED"), AtlEvent(m, "DENIED")}
    BY DEF Answered
  <1>3. queue[i] # Head(queue)
    BY <1>2 DEF TypeOK
  <1>4. PICK j \in 1..Len(queue') : queue'[j] = queue[i]
    BY <1>1, <1>3, PostedKeeps DEF TypeOK
  <1> QED BY <1>2, <1>4 DEF Answered

LEMMA AnsweredStaysAppend ==
  ASSUME TypeOK, NEW msg \in Messages, queue' = Append(queue, msg), NEW m
  PROVE  /\ Answered(m) => Answered(m)'
         /\ msg \in {AtlEvent(m, "GRANTED"), AtlEvent(m, "DENIED")} => Answered(m)'
  <1>1. Answered(m) => Answered(m)'
    BY AppendedPositions DEF TypeOK, Answered
  <1>2. ASSUME msg \in {AtlEvent(m, "GRANTED"), AtlEvent(m, "DENIED")}
        PROVE  Answered(m)'
    <2>1. Len(queue) + 1 \in 1..Len(queue') /\ queue'[Len(queue) + 1] = msg
      BY AppendedPositions DEF TypeOK
    <2> QED BY <1>2, <2>1 DEF Answered
  <1> QED BY <1>1, <1>2

(* A handler that leaves machine n as it was and does not take its answer. *)
LEMMA PendingStays ==
  ASSUME TypeOK, PendingInv, queue # <<>>, HandlesMessage, NEW n \in Nifs \ {DsNif},
         mState[n] = "PENDING", outstanding'[n] = outstanding[n],
         queue[1] \notin {AtlEvent(n, "GRANTED"), AtlEvent(n, "DENIED")}
  PROVE  Answered(n)' \/ LastAsked(n)'
  <1>1. CASE Answered(n)
    BY <1>1, AnsweredStays
  <1>2. CASE LastAsked(n)
    BY <1>2 DEF LastAsked
  <1> QED BY <1>1, <1>2 DEF PendingInv

LEMMA requestATLPending ==
  ASSUME TypeOK, PendingInv, requestATL
  PROVE  PendingInv'
  <1> SUFFICES ASSUME NEW n \in Nifs \ {DsNif}, mState'[n] = "PENDING"
               PROVE  Answered(n)' \/ LastAsked(n)'
    BY DEF PendingInv
  <1>1. PICK h \in Handles :
           /\ Asks(1, h)
           /\ \/ Handled /\ UNCHANGED <<machines, outstanding>>
              \/ \E m \in Nifs, wait \in BOOLEAN :
                   \/ SubscribeReleased(h, m, wait)
                   \/ SubscribeWaits(h, m, wait)
                   \/ SubscribeAcquired(h, m, wait)
    BY requestATLCases
  <1>2. /\ queue # <<>>
        /\ queue[1] \notin {AtlEvent(n, "GRANTED"), AtlEvent(n, "DENIED")}
    BY <1>1, requestATLCases DEF Asks, AtlEvent
  <1>3. CASE Handled /\ UNCHANGED <<machines, outstanding>>
    BY <1>2, <1>3, HandledPosts, PendingStays DEF machines
  <1>4. ASSUME NEW m \in Nifs, NEW wait \in BOOLEAN,
               \/ SubscribeReleased(h, m, wait)
               \/ SubscribeWaits(h, m, wait)
               \/ SubscribeAcquired(h, m, wait)
        PROVE  Answered(n)' \/ LastAsked(n)'
    <2>1. HandlesMessage
      BY <1>4, SubscribePosts
    <2>2. CASE m = n /\ send(m, "request")
      BY <2>2, SendIsLast
    <2>3. CASE m # n \/ ~send(m, "request")
      <3>1. outstanding'[n] = outstanding[n]
        BY <1>4, <2>3 DEF TypeOK, SubscribeReleased, SubscribeWaits, SubscribeAcquired,
           RequestSent, RequestFailed, DataCallBusy, DataCallRefused, DataCallError, send
      <3>2. mState[n] = "PENDING"
        BY <1>4, <2>3 DEF TypeOK, SubscribeReleased, SubscribeWaits, SubscribeAcquired,
           RequestSent, transitionState
      <3> QED BY <1>2, <2>1, <3>1, <3>2, PendingStays
    <2> QED BY <2>2, <2>3
  <1> QED BY <1>1, <1>3, <1>4

LEMMA releaseATLPending ==
  ASSUME TypeOK, PendingInv, releaseATL
  PROVE  PendingInv'
  <1> SUFFICES ASSUME NEW n \in Nifs \ {DsNif}, mState'[n] = "PENDING"
               PROVE  Answered(n)' \/ LastAsked(n)'
    BY DEF PendingInv
  <1>1. PICK h \in Handles :
           \/ UNCHANGED <<machines, outstanding>>
           \/ \E m \in Nifs :
                \/ UnsubscribeReleased(h, m)
                \/ UnsubscribeConnected(h, m)
                \/ UnsubscribeReleasing(h, m)
    BY releaseATLCases
  <1>2. /\ queue # <<>> /\ HandlesMessage
        /\ queue[1] \notin {AtlEvent(n, "GRANTED"), AtlEvent(n, "DENIED")}
    BY releaseATLCases, HandledPosts DEF AtlEvent
  <1>3. mState[n] = "PENDING" /\ outstanding'[n] = outstanding[n]
    <2>1. ASSUME NEW m \in Nifs, UnsubscribeConnected(h, m)
          PROVE  <1>3!1 /\ <1>3!2
      BY <2>1 DEF TypeOK, UnsubscribeConnected, transitionState, send
    <2> QED BY <1>1, <2>1 DEF TypeOK, machines, UnsubscribeReleased, UnsubscribeReleasing,
            transitionState
  <1> QED BY <1>2, <1>3, PendingStays

LEMMA reportEventPending ==
  ASSUME TypeOK, PendingInv, reportEvent
  PROVE  PendingInv'
  <1> SUFFICES ASSUME NEW n \in Nifs \ {DsNif}, mState'[n] = "PENDING"
               PROVE  Answered(n)' \/ LastAsked(n)'
    BY DEF PendingInv
  <1>1. PICK m \in Nifs :
           /\ queue[1].agpsType = m
           /\ \/ queue[1].event = "GRANTED" /\ Granted(m)
              \/ queue[1].event = "RELEASED" /\ Released(m)
              \/ queue[1].event = "DENIED" /\ Denied(m)
    BY reportEventCases
  <1>2. queue # <<>>
    BY reportEventCases
  <1>3. CASE ReleaseCompleted(m)
    <2>1. activeSubscribers(m) \in SUBSET Handles
      BY DEF TypeOK, activeSubscribers
    <2>2. HandlesMessage
      BY <1>3, <2>1, HandledPosts, RequestPosts DEF ReleaseCompleted
    <2>3. CASE m = n
      <3>1. RequestSent(m)
        BY <1>3, <2>3 DEF TypeOK, ReleaseCompleted, transitionState, RequestFailed
      <3> QED BY <2>3, <3>1, SendIsLast DEF RequestSent
    <2>4. CASE m # n
      <3>1. outstanding'[n] = outstanding[n]
        BY <1>3, <2>4 DEF TypeOK, ReleaseCompleted, RequestSent, RequestFailed, DataCallBusy,
           DataCallRefused, DataCallError, send
      <3>2. mState[n] = "PENDING"
        BY <1>3, <2>4 DEF TypeOK, ReleaseCompleted, transitionState
      <3>3. queue[1] \notin {AtlEvent(n, "GRANTED"), AtlEvent(n, "DENIED")}
        BY <1>1, <2>4 DEF AtlEvent
      <3> QED BY <1>2, <2>2, <3>1, <3>2, <3>3, PendingStays
    <2> QED BY <2>3, <2>4
  <1>4. CASE ~ReleaseCompleted(m)
    <2>1. HandlesMessage
      <3>1. CASE OpenDenied(m) /\ m = DsNif
        <4>1. PICK order \in SetToSeqs(mSubscriberList[m]) :
                Posted([i \in 1..Len(order) |-> RequestATL(order[i], "SUPL")])
          BY <3>1 DEF OpenDenied
        <4>2. mSubscriberList[m] \in SUBSET Handles
          BY DEF TypeOK
        <4> QED BY <4>1, <4>2, FallbackTyped DEF HandlesMessage
      <3>2. CASE ~(OpenDenied(m) /\ m = DsNif)
        <4>1. Handled
          BY <1>1, <1>4, <3>2
             DEF Granted, Released, Denied, ForcedRelease, OpenDenied, EventIgnored
        <4> QED BY <4>1, HandledPosts
      <3> QED BY <3>1, <3>2
    <2>2. outstanding' = outstanding
      BY <1>1, <1>4 DEF Granted, Released, Denied, ForcedRelease, OpenDenied, EventIgnored
    <2>3. /\ mState[n] = "PENDING"
          /\ m = n => queue[1].event = "RELEASED"
      BY <1>1, <1>4 DEF TypeOK, Granted, Released, Denied, ForcedRelease, OpenDenied,
         EventIgnored, machines, transitionState
    <2>4. queue[1] \notin {AtlEvent(n, "GRANTED"), AtlEvent(n, "DENIED")}
      BY <1>1, <2>3 DEF AtlEvent
    <2> QED BY <1>2, <2>1, <2>2, <2>3, <2>4, PendingStays
  <1> QED BY <1>3, <1>4

LEMMA TailLast ==
  ASSUME NEW S, NEW s \in Seq(S), Len(s) > 1
  PROVE  Tail(s) # <<>> /\ Tail(s)[Len(Tail(s))] = s[Len(s)]
  <1>1. Len(s) \in Nat /\ s # <<>>
    OBVIOUS
  <1>2. /\ Tail(s) \in Seq(S) /\ Len(Tail(s)) = Len(s) - 1
        /\ \A i \in 1..Len(Tail(s)) : Tail(s)[i] = s[i + 1]
    BY <1>1, HeadTailProperties
  <1>3. Len(s) - 1 \in 1..Len(Tail(s))
    BY <1>1, <1>2
  <1>4. Tail(s)[Len(s) - 1] = s[Len(s) - 1 + 1]
    BY <1>2, <1>3
  <1>5. Len(s) - 1 + 1 = Len(s)
    BY <1>1
  <1>6. Len(Tail(s)) # 0
    BY <1>1, <1>2
  <1>7. Tail(s) # <<>>
    <2>1. Len(<<>>) = 0
      OBVIOUS
    <2> QED BY <1>6, <2>1, Zenon
  <1> QED BY <1>2, <1>4, <1>5, <1>7

LEMMA AnswerPending ==
  ASSUME TypeOK, PendingInv, NEW m \in Nifs, NEW up \in BOOLEAN, NEW e \in ProviderEvent,
         Answer(m, up, e), outstanding[m] # <<>>,
         m # DsNif /\ Head(outstanding[m]) = "request" => e \in {"GRANTED", "DENIED"}
  PROVE  PendingInv'
  <1> SUFFICES ASSUME NEW n \in Nifs \ {DsNif}, mState'[n] = "PENDING"
               PROVE  Answered(n)' \/ LastAsked(n)'
    BY DEF PendingInv
  <1>1. /\ mState[n] = "PENDING"
        /\ AtlEvent(m, e) \in Messages /\ queue' = Append(queue, AtlEvent(m, e))
        /\ outstanding'[m] = Tail(outstanding[m])
        /\ \A k \in Nifs \ {m} : outstanding'[k] = outstanding[k]
    BY MessagesTyped DEF TypeOK, Answer, machines
  <1>2. CASE Answered(n)
    BY <1>1, <1>2, AnsweredStaysAppend
  <1>3. CASE LastAsked(n) /\ m # n
    BY <1>1, <1>3 DEF LastAsked
  <1>4. CASE LastAsked(n) /\ m = n
    <2> DEFINE s == outstanding[n]
    <2>1. s \in Seq({"request", "release"}) /\ s # <<>> /\ s[Len(s)] = "request"
      BY <1>4 DEF TypeOK, LastAsked
    <2> HIDE DEF s
    <2>2. CASE Len(s) = 1
      <3>1. Head(s) = "request"
        BY <2>1, <2>2
      <3>2. e \in {"GRANTED", "DENIED"}
        BY <1>4, <3>1 DEF s
      <3> QED BY <1>1, <1>4, <3>2, AnsweredStaysAppend
    <2>3. CASE Len(s) # 1
      <3>1. Len(s) > 1
        BY <2>1, <2>3
      <3> QED BY <1>1, <1>4, <2>1, <3>1, TailLast DEF LastAsked, s
    <2> QED BY <2>2, <2>3
  <1> QED BY <1>1, <1>2, <1>3, <1>4 DEF PendingInv

LEMMA EnvironmentPending ==
  ASSUME TypeOK, PendingInv,
         \/ retryCallback
         \/ \E h \in Handles, t \in RequestTypes : modemOpen(h, t)
         \/ \E h \in Handles : modemClose(h)
         \/ \E m \in Nifs : Provider(m) \/ providerLosesConnection(m)
  PROVE  PendingInv'
  <1>1. CASE UNCHANGED outstanding
    <2> SUFFICES ASSUME NEW n \in Nifs \ {DsNif}, mState'[n] = "PENDING"
                 PROVE  Answered(n)' \/ LastAsked(n)'
      BY DEF PendingInv
    <2>1. mState[n] = "PENDING"
      BY EnvironmentAppends DEF machines
    <2>2. CASE LastAsked(n)
      BY <1>1, <2>2 DEF LastAsked
    <2>3. CASE Answered(n)
      <3>1. CASE UNCHANGED queue
        BY <2>3, <3>1 DEF Answered
      <3> QED BY <2>3, <3>1, EnvironmentAppends, AnsweredStaysAppend
    <2> QED BY <2>1, <2>2, <2>3 DEF PendingInv
  <1>2. ASSUME NEW m \in Nifs, providerCancels(m)
        PROVE  PendingInv'
    <2> SUFFICES ASSUME NEW n \in Nifs \ {DsNif}, mState'[n] = "PENDING"
                 PROVE  Answered(n)' \/ LastAsked(n)'
      BY DEF PendingInv
    <2>1. /\ mState[n] = "PENDING" /\ UNCHANGED queue
          /\ Len(outstanding[m]) > 1
          /\ outstanding'[m] = Tail(outstanding[m])
          /\ \A k \in Nifs \ {m} : outstanding'[k] = outstanding[k]
      BY <1>2 DEF TypeOK, providerCancels, machines
    <2>2. CASE Answered(n)
      BY <2>1, <2>2 DEF Answered
    <2>3. CASE LastAsked(n)
      <3> DEFINE s == outstanding[n]
      <3>1. s \in Seq({"request", "release"}) /\ s # <<>> /\ s[Len(s)] = "request"
        BY <2>3 DEF TypeOK, LastAsked
      <3> HIDE DEF s
      <3>2. Len(s) > 1 => Tail(s) # <<>> /\ Tail(s)[Len(Tail(s))] = "request"
        BY <3>1, TailLast
      <3> QED BY <2>1, <2>3, <3>2 DEF LastAsked, s
    <2> QED BY <2>1, <2>2, <2>3 DEF PendingInv
  <1>3. ASSUME NEW m \in Nifs, Provider(m), ~providerCancels(m)
        PROVE  PendingInv'
    <2>1. \E up \in BOOLEAN, e \in ProviderEvent :
            /\ Answer(m, up, e) /\ outstanding[m] # <<>>
            /\ m # DsNif /\ Head(outstanding[m]) = "request" => e \in {"GRANTED", "DENIED"}
      BY <1>3 DEF TypeOK, ProviderEvent, Provider, providerOpens, providerRefuses,
         providerCloses, providerCannotClose, NextCommand
    <2> QED BY <2>1, AnswerPending
  <1> QED BY <1>1, <1>2, <1>3
          DEF retryCallback, modemOpen, modemClose, providerLosesConnection

(* "Already requested for data connection, do nothing until we get         *)
(* RSRC_GRANTED event" (Agps.cpp, processAgpsEventSubscribe): a SUPL or    *)
(* WWAN_ANY machine in PENDING has a request the framework has still to    *)
(* answer, or the answer is in the queue, in both configurations.          *)
THEOREM PendingIsAnswerable == Spec => []FrameworkPendingHasRequest
  <1>1. Init => PendingInv
    BY DEF Init, PendingInv
  <1>2. TypeOK /\ PendingInv /\ [Next]_vars => PendingInv'
    <2> SUFFICES ASSUME TypeOK, PendingInv, [Next]_vars
                 PROVE  PendingInv'
      OBVIOUS
    <2>1. CASE UNCHANGED vars
      BY <2>1 DEF vars, machines, PendingInv, Answered, LastAsked
    <2>2. CASE Next
      BY <2>2, requestATLPending, releaseATLPending, reportEventPending, EnvironmentPending
         DEF Next, Adapter
    <2> QED BY <2>1, <2>2
  <1>3. TypeOK /\ PendingInv => FrameworkPendingHasRequest
    BY PendingInvSuffices
  <1> QED BY <1>1, <1>2, <1>3, TypeCorrect, PTL DEF Spec

-----------------------------------------------------------------------------
(* The life of a handle when the emergency PDN is not used (the DS machine *)
(* is then never subscribed to).  NoStaleSubscriber and OpenIsBacked hold  *)
(* together, with what orders the messages about a handle: it is asked for *)
(* at most once, before it is released, and while it is asked for it is on *)
(* no list.                                                                *)
Ends(i, h) == queue[i].msg = "ReleaseATL" /\ queue[i].handle = h
Ending(h) == \E i \in 1..Len(queue) : Ends(i, h)
Listed(h) == \E m \in Nifs : h \in mSubscriberList[m]

DsUnused == mSubscriberList[DsNif] = {} /\ mState[DsNif] = "RELEASED"

QueueOrder ==
  \A h \in Handles : \A i \in 1..Len(queue) : Asks(i, h) =>
    /\ \A j \in 1..Len(queue) : Asks(j, h) => i = j
    /\ \A j \in 1..Len(queue) : Ends(j, h) => i < j

HandleOK(h) ==
  /\ Queued(h) => ~Listed(h)
  /\ \A m, n \in Nifs : h \in mSubscriberList[m] /\ h \in mSubscriberList[n] => m = n
  /\ Ending(h) => modem[h] \in {"idle", "closing"}
  /\ modem[h] = "idle" => ~Listed(h) /\ ~Queued(h)
  /\ modem[h] = "open" => \E m \in Nifs : mState[m] = "ACQUIRED" /\ h \in activeSubscribers(m)

HandleInv == DsUnused /\ QueueOrder /\ \A h \in Handles : HandleOK(h)

LEMMA HandleInvSuffices ==
  ASSUME HandleInv
  PROVE  NoStaleSubscriber /\ OpenIsBacked
  BY DEF HandleInv, HandleOK, Listed, Queued, Asks, NoStaleSubscriber, OpenIsBacked

(* Handling a message only shortens the queue.                             *)
LEMMA HandledOrder ==
  ASSUME queue \in Seq(Messages), queue # <<>>, Handled, QueueOrder
  PROVE  /\ QueueOrder'
         /\ \A h : (Queued(h)' => Queued(h)) /\ (Ending(h)' => Ending(h))
         /\ \A h \in Handles : Asks(1, h) => Queued(h) /\ ~Queued(h)'
         /\ \A h \in Handles : Ends(1, h) => Ending(h) /\ ~Queued(h)
  <1>1. /\ Len(queue) \in Nat \ {0} /\ Len(queue') = Len(queue) - 1
        /\ \A i \in 1..(Len(queue) - 1) : queue'[i] = queue[i + 1]
    BY HandledPositions
  <1>2. \A i \in 1..Len(queue') :
          /\ i + 1 \in 1..Len(queue) /\ i + 1 # 1 /\ i \in Int
          /\ \A h : (Asks(i, h)' <=> Asks(i + 1, h)) /\ (Ends(i, h)' <=> Ends(i + 1, h))
    BY <1>1 DEF Asks, Ends
  <1>3. \A h : (Queued(h)' => Queued(h)) /\ (Ending(h)' => Ending(h))
    BY <1>2 DEF Queued, Ending
  <1>4. QueueOrder'
    <2> SUFFICES ASSUME NEW h \in Handles, NEW i \in 1..Len(queue'), NEW j \in 1..Len(queue'),
                        Asks(i, h)'
                 PROVE  (Asks(j, h)' => i = j) /\ (Ends(j, h)' => i < j)
      BY DEF QueueOrder
    <2>1. /\ Asks(i + 1, h) /\ i + 1 \in 1..Len(queue) /\ j + 1 \in 1..Len(queue)
          /\ i \in Int /\ j \in Int
          /\ Asks(j, h)' => Asks(j + 1, h)
          /\ Ends(j, h)' => Ends(j + 1, h)
      BY <1>2
    <2>2. (Asks(j, h)' => i + 1 = j + 1) /\ (Ends(j, h)' => i + 1 < j + 1)
      BY <2>1 DEF QueueOrder
    <2> QED BY <2>1, <2>2
  <1>5. 1 \in 1..Len(queue)
    BY <1>1
  <1>6. ASSUME NEW h \in Handles, Asks(1, h)
        PROVE  Queued(h) /\ ~Queued(h)'
    <2>1. \A i \in 1..Len(queue) : Asks(i, h) => 1 = i
      BY <1>5, <1>6 DEF QueueOrder
    <2> QED BY <1>2, <1>5, <1>6, <2>1 DEF Queued
  <1>7. ASSUME NEW h \in Handles, Ends(1, h)
        PROVE  Ending(h) /\ ~Queued(h)
    <2>1. \A i \in 1..Len(queue) : Asks(i, h) => i < 1
      BY <1>5, <1>7 DEF QueueOrder
    <2>2. \A i \in 1..Len(queue) : ~(i < 1)
      BY <1>1
    <2> QED BY <1>5, <1>7, <2>1, <2>2 DEF Queued, Ending
  <1> QED BY <1>3, <1>4, <1>6, <1>7

(* A posted message is the last one.                                       *)
LEMMA AppendedOrder ==
  ASSUME queue \in Seq(Messages), NEW msg \in Messages, queue' = Append(queue, msg), QueueOrder,
         \A h \in Handles : msg.msg = "RequestATL" /\ msg.handle = h => ~Queued(h) /\ ~Ending(h)
  PROVE  /\ QueueOrder'
         /\ \A h : Queued(h)' => Queued(h) \/ (msg.msg = "RequestATL" /\ msg.handle = h)
         /\ \A h : Ending(h)' => Ending(h) \/ (msg.msg = "ReleaseATL" /\ msg.handle = h)
  <1>0. PICK n : n = Len(queue) + 1
    OBVIOUS
  <1>1. /\ Len(queue) \in Nat /\ Len(queue') = n
        /\ \A i \in 1..Len(queue) : queue'[i] = queue[i]
        /\ queue'[n] = msg
    BY <1>0, AppendedPositions
  <1>2. \A i \in 1..Len(queue') : i \in 1..Len(queue) \/ i = n
    BY <1>0, <1>1
  <1>3. \A i \in 1..Len(queue) : i < n
    BY <1>0, <1>1
  <1>4. \A h : \A i \in 1..Len(queue) :
          (Asks(i, h)' <=> Asks(i, h)) /\ (Ends(i, h)' <=> Ends(i, h))
    BY <1>1 DEF Asks, Ends
  <1>5. \A h : /\ Asks(n, h)' <=> msg.msg = "RequestATL" /\ msg.handle = h
               /\ Ends(n, h)' <=> msg.msg = "ReleaseATL" /\ msg.handle = h
    BY <1>1 DEF Asks, Ends
  <1>6. QueueOrder'
    <2> SUFFICES ASSUME NEW h \in Handles, NEW i \in 1..Len(queue'), NEW j \in 1..Len(queue'),
                        Asks(i, h)'
                 PROVE  (Asks(j, h)' => i = j) /\ (Ends(j, h)' => i < j)
      BY DEF QueueOrder
    <2>1. CASE i \in 1..Len(queue) /\ j \in 1..Len(queue)
      BY <1>4, <2>1 DEF QueueOrder
    <2>2. CASE i \in 1..Len(queue) /\ j = n
      <3>1. Queued(h) /\ i < n
        BY <1>3, <1>4, <2>2 DEF Queued
      <3> QED BY <1>5, <2>2, <3>1
    <2>3. CASE i = n
      <3>1. ~Queued(h) /\ ~Ending(h) /\ msg.msg = "RequestATL"
        BY <1>5, <2>3
      <3>2. j = n \/ (j \in 1..Len(queue) /\ ~Asks(j, h)' /\ ~Ends(j, h)')
        BY <1>2, <1>4, <3>1 DEF Queued, Ending
      <3>3. ~Ends(n, h)'
        BY <1>5, <3>1
      <3> QED BY <2>3, <3>2, <3>3
    <2> QED BY <1>2, <2>1, <2>2, <2>3
  <1> QED BY <1>2, <1>4, <1>5, <1>6 DEF Queued, Ending

LEMMA requestATLHandles ==
  ASSUME ~UseEmergencyPdn, TypeOK, DemandInv, HandleInv, requestATL
  PROVE  HandleInv'
  <1>1. PICK h \in Handles, m \in Nifs, wait \in BOOLEAN :
           /\ Asks(1, h) /\ m # DsNif
           /\ \/ SubscribeReleased(h, m, wait)
              \/ SubscribeWaits(h, m, wait)
              \/ SubscribeAcquired(h, m, wait)
    BY requestATLCases
  <1>2. Handled /\ queue # <<>> /\ queue \in Seq(Messages)
    BY <1>1, requestATLCases
       DEF TypeOK, SubscribeReleased, SubscribeWaits, SubscribeAcquired, RequestSent, RequestFailed
  <1>3. /\ QueueOrder'
        /\ \A g : (Queued(g)' => Queued(g)) /\ (Ending(g)' => Ending(g))
        /\ Queued(h) /\ ~Queued(h)'
    BY <1>1, <1>2, HandledOrder DEF HandleInv
  <1>4. HandleOK(h) /\ ~Listed(h) /\ modem[h] # "idle"
    BY <1>3 DEF HandleInv, HandleOK
  <1>5. /\ mSubscriberList'[m] = mSubscriberList[m] \cup {h}
        /\ mIsInactive' = mIsInactive
        /\ \A n \in Nifs \ {m} : mSubscriberList'[n] = mSubscriberList[n]
    BY <1>1, AddEffect DEF SubscribeReleased, SubscribeWaits, SubscribeAcquired
  <1>6. /\ \A n \in Nifs \ {m} : mState'[n] = mState[n]
        /\ mState[m] = "ACQUIRED" => mState'[m] = "ACQUIRED"
        /\ \A g \in Handles \ {h} : modem'[g] = modem[g]
        /\ modem'[h] \in {modem[h], "open"}
        /\ modem'[h] = "open" =>
             \/ modem[h] = "open"
             \/ modem[h] = "opening" /\ mState[m] = "ACQUIRED"
    BY <1>1 DEF TypeOK, SubscribeReleased, SubscribeWaits, SubscribeAcquired, AtlOpened,
       transitionState
  <1>7. DsUnused'
    BY <1>1, <1>5, <1>6 DEF HandleInv, DsUnused, Nifs, DsNif
  <1>8. h \notin mIsInactive[m]
    BY <1>4 DEF DemandInv, FlagsMatchList, Listed
  <1>9. HandleOK(h)'
    <2>1. modem'[h] = "open" => mState'[m] = "ACQUIRED" /\ h \in activeSubscribers(m)'
      BY <1>4, <1>5, <1>6, <1>8 DEF HandleOK, Listed, activeSubscribers
    <2>2. \A n, k \in Nifs : h \in mSubscriberList'[n] /\ h \in mSubscriberList'[k] => n = k
      BY <1>4, <1>5 DEF Listed
    <2>3. Ending(h)' => modem'[h] \in {"idle", "closing"}
      BY <1>3, <1>4, <1>6 DEF HandleOK
    <2>4. modem'[h] # "idle"
      BY <1>4, <1>6
    <2> QED BY <1>3, <2>1, <2>2, <2>3, <2>4 DEF HandleOK
  <1>10. ASSUME NEW g \in Handles \ {h}
         PROVE  HandleOK(g)'
    <2>1. HandleOK(g) /\ modem'[g] = modem[g]
      BY <1>6 DEF HandleInv
    <2>2. \A n \in Nifs : g \in mSubscriberList'[n] <=> g \in mSubscriberList[n]
      BY <1>5
    <2>3. \A n \in Nifs : mState[n] = "ACQUIRED" /\ g \in activeSubscribers(n) =>
                           mState'[n] = "ACQUIRED" /\ g \in activeSubscribers(n)'
      BY <1>5, <1>6, <2>2 DEF activeSubscribers
    <2> QED BY <1>3, <2>1, <2>2, <2>3 DEF HandleOK, Listed
  <1> QED BY <1>3, <1>7, <1>9, <1>10 DEF HandleInv

LEMMA releaseATLHandles ==
  ASSUME ~UseEmergencyPdn, TypeOK, DemandInv, HandleInv, releaseATL
  PROVE  HandleInv'
  <1>1. PICK h \in Handles :
           /\ queue[1].handle = h
           /\ \/ /\ \A m \in Nifs : h \notin mSubscriberList[m]
                 /\ AtlClosed({h})
                 /\ UNCHANGED <<machines, outstanding>>
              \/ \E m \in Nifs :
                   /\ h \in mSubscriberList[m]
                   /\ \/ UnsubscribeReleased(h, m)
                      \/ UnsubscribeConnected(h, m)
                      \/ UnsubscribeReleasing(h, m)
    BY releaseATLCases
  <1>2. Handled /\ queue # <<>> /\ queue \in Seq(Messages) /\ Ends(1, h)
    BY <1>1, releaseATLCases DEF TypeOK, Ends
  <1>3. /\ QueueOrder'
        /\ \A g : (Queued(g)' => Queued(g)) /\ (Ending(g)' => Ending(g))
        /\ Ending(h) /\ ~Queued(h) /\ ~Queued(h)'
    BY <1>2, HandledOrder DEF HandleInv
  <1>4. HandleOK(h) /\ modem[h] \in {"idle", "closing"}
    BY <1>3 DEF HandleInv, HandleOK
  <1>5. CASE /\ \A m \in Nifs : h \notin mSubscriberList[m]
             /\ AtlClosed({h})
             /\ UNCHANGED <<machines, outstanding>>
    <2>1. /\ \A g \in Handles : modem'[g] = IF g = h THEN "idle" ELSE modem[g]
          /\ UNCHANGED machines
      BY <1>5 DEF AtlClosed
    <2>2. HandleOK(h)'
      BY <1>3, <1>5, <2>1 DEF HandleOK, Listed, machines
    <2>3. ASSUME NEW g \in Handles \ {h}
          PROVE  HandleOK(g)'
      BY <1>3, <2>1 DEF HandleInv, HandleOK, Listed, machines, activeSubscribers
    <2> QED BY <1>3, <2>1, <2>2, <2>3 DEF HandleInv, DsUnused, machines
  <1>6. ASSUME NEW m \in Nifs, h \in mSubscriberList[m],
               \/ UnsubscribeReleased(h, m)
               \/ UnsubscribeConnected(h, m)
               \/ UnsubscribeReleasing(h, m)
        PROVE  HandleInv'
    <2>1. m # DsNif /\ ~UnsubscribeReleased(h, m)
      BY <1>6 DEF HandleInv, DsUnused, DemandInv, ReleasedIsIdle, UnsubscribeReleased
    <2>2. Leave(h, m)
      BY <1>6, <2>1 DEF UnsubscribeConnected, UnsubscribeReleasing
    <2>3. /\ \A n \in Nifs \ {m} : /\ mSubscriberList'[n] = mSubscriberList[n]
                                   /\ mIsInactive'[n] = mIsInactive[n]
          /\ \A g \in Handles \ {h} :
               /\ g \in mSubscriberList'[m] <=> g \in mSubscriberList[m]
               /\ g \in mIsInactive'[m] <=> g \in mIsInactive[m]
               /\ modem'[g] = modem[g]
          /\ \/ modem'[h] = modem[h] /\ mSubscriberList'[m] = mSubscriberList[m]
             \/ modem'[h] = "idle" /\ h \notin mSubscriberList'[m]
      <3>1. CASE h \in mWaitForCloseComplete[m]
        BY <2>2, <3>1 DEF Leave, TypeOK
      <3>2. CASE h \notin mWaitForCloseComplete[m]
        BY <2>2, <3>2 DEF Leave, deleteSubscribers, AtlClosed, TypeOK
      <3> QED BY <3>1, <3>2
    <2>4. /\ \A n \in Nifs \ {m} : mState'[n] = mState[n]
          /\ mState[m] = "ACQUIRED" => \/ mState'[m] = "ACQUIRED"
                                       \/ mSubscriberList'[m] \ mIsInactive'[m] = {}
      BY <1>6, <2>1 DEF TypeOK, UnsubscribeConnected, UnsubscribeReleasing, transitionState
    <2>5. modem[h] = "closing"
      BY <1>4, <1>6 DEF HandleOK, Listed
    <2>6. HandleOK(h)'
      <3>1. \A n \in Nifs \ {m} : h \notin mSubscriberList'[n]
        BY <1>4, <1>6, <2>3 DEF HandleOK
      <3>2. modem'[h] \in {"idle", "closing"} /\ (modem'[h] = "idle" => ~Listed(h)')
        BY <2>3, <2>5, <3>1 DEF Listed
      <3> QED BY <1>3, <3>1, <3>2 DEF HandleOK
    <2>7. ASSUME NEW g \in Handles \ {h}
          PROVE  HandleOK(g)'
      <3>1. HandleOK(g) /\ modem'[g] = modem[g]
        BY <2>3 DEF HandleInv
      <3>2. \A n \in Nifs : /\ g \in mSubscriberList'[n] <=> g \in mSubscriberList[n]
                            /\ g \in mIsInactive'[n] <=> g \in mIsInactive[n]
        BY <2>3
      <3>3. \A n \in Nifs : mState[n] = "ACQUIRED" /\ g \in activeSubscribers(n) =>
                            mState'[n] = "ACQUIRED" /\ g \in activeSubscribers(n)'
        BY <2>4, <3>2 DEF activeSubscribers
      <3> QED BY <1>3, <3>1, <3>2, <3>3 DEF HandleOK, Listed
    <2>8. DsUnused'
      BY <2>1, <2>3, <2>4 DEF HandleInv, DsUnused, Nifs, DsNif
    <2> QED BY <1>3, <2>6, <2>7, <2>8 DEF HandleInv
  <1> QED BY <1>1, <1>5, <1>6

LEMMA DeletedHandles ==
  ASSUME TypeOK, HandleInv, NEW m \in Nifs, NEW D \in SUBSET mSubscriberList[m],
         m # DsNif, deleteSubscribers(D, m), mState[m] = "ACQUIRED" => D = mSubscriberList[m],
         AtlClosed(D) \/ (AtlOpenFailed(D) /\ mState[m] # "ACQUIRED"),
         \A n \in Nifs \ {m} : mState'[n] = mState[n],
         queue # <<>>, Handled
  PROVE  HandleInv'
  <1>0. QueueOrder' /\ \A g : (Queued(g)' => Queued(g)) /\ (Ending(g)' => Ending(g))
    BY HandledOrder DEF HandleInv, TypeOK
  <1>1. /\ \A n \in Nifs \ {m} : /\ mSubscriberList'[n] = mSubscriberList[n]
                                 /\ mIsInactive'[n] = mIsInactive[n]
        /\ mSubscriberList'[m] = mSubscriberList[m] \ D
        /\ mIsInactive'[m] = mIsInactive[m] \ D
    BY DEF TypeOK, deleteSubscribers
  <1>2. \A g \in Handles : /\ g \notin D => modem'[g] = modem[g]
                           /\ g \in D => modem'[g] \in {"idle", "closing"}
                           /\ g \in D /\ modem[g] = "idle" => modem'[g] = "idle"
    BY DEF TypeOK, AtlClosed, AtlOpenFailed
  <1>3. DsUnused'
    BY <1>1 DEF HandleInv, DsUnused, Nifs, DsNif
  <1>4. ASSUME NEW g \in Handles
        PROVE  HandleOK(g)'
    <2>1. HandleOK(g)
      BY DEF HandleInv
    <2>2. CASE g \in D
      <3>1. ~Queued(g)' /\ ~Listed(g)'
        BY <1>0, <1>1, <2>1, <2>2 DEF HandleOK, Listed
      <3>2. modem'[g] \in {"idle", "closing"}
        BY <1>2, <2>2
      <3> QED BY <3>1, <3>2 DEF HandleOK, Listed
    <2>3. CASE g \notin D
      <3>1. modem'[g] = modem[g]
        BY <1>2, <2>3
      <3>2. \A n \in Nifs : /\ g \in mSubscriberList'[n] <=> g \in mSubscriberList[n]
                            /\ g \in mIsInactive'[n] <=> g \in mIsInactive[n]
        BY <1>1, <2>3
      <3>3. \A n \in Nifs : mState[n] = "ACQUIRED" /\ g \in activeSubscribers(n) =>
                             mState'[n] = "ACQUIRED" /\ g \in activeSubscribers(n)'
        BY <2>3, <3>2 DEF activeSubscribers
      <3> QED BY <1>0, <2>1, <3>1, <3>2, <3>3 DEF HandleOK, Listed
    <2> QED BY <2>2, <2>3
  <1> QED BY <1>0, <1>3, <1>4 DEF HandleInv

LEMMA reportEventHandles ==
  ASSUME ~UseEmergencyPdn, TypeOK, DemandInv, HandleInv, reportEvent
  PROVE  HandleInv'
  <1>1. PICK m \in Nifs : Granted(m) \/ Released(m) \/ Denied(m)
    BY reportEventCases
  <1>2. queue # <<>> /\ queue \in Seq(Messages)
    BY reportEventCases DEF TypeOK
  <1>3. CASE UNCHANGED <<machines, modem>> /\ Handled
    <2>1. QueueOrder' /\ \A g : (Queued(g)' => Queued(g)) /\ (Ending(g)' => Ending(g))
      BY <1>2, <1>3, HandledOrder DEF HandleInv
    <2>2. DsUnused'
      BY <1>3 DEF HandleInv, DsUnused, machines
    <2>3. \A g \in Handles : HandleOK(g)'
      BY <1>3, <2>1 DEF HandleInv, HandleOK, Listed, machines, activeSubscribers
    <2> QED BY <2>1, <2>2, <2>3 DEF HandleInv
  <1>4. CASE m = DsNif
    <2>1. mState[m] = "RELEASED"
      BY <1>4 DEF HandleInv, DsUnused
    <2>2. UNCHANGED <<machines, modem>> /\ Handled
      BY <1>1, <2>1 DEF Granted, Released, Denied, ForcedRelease, ReleaseCompleted, OpenDenied,
         EventIgnored, machines
    <2> QED BY <1>3, <2>2
  <1>5. CASE Granted(m) /\ mState[m] = "PENDING" /\ m # DsNif
    <2>1. QueueOrder' /\ \A g : (Queued(g)' => Queued(g)) /\ (Ending(g)' => Ending(g))
      BY <1>2, <1>5, HandledOrder DEF HandleInv, Granted
    <2>2. /\ UNCHANGED <<mSubscriberList, mIsInactive>>
          /\ mState'[m] = "ACQUIRED"
          /\ \A n \in Nifs \ {m} : mState'[n] = mState[n]
      BY <1>5 DEF TypeOK, Granted, transitionState
    <2>3. DsUnused'
      BY <1>5, <2>2 DEF HandleInv, DsUnused, Nifs, DsNif
    <2>4. ASSUME NEW g \in Handles
          PROVE  HandleOK(g)'
      <3>1. HandleOK(g)
        BY DEF HandleInv
      <3>2. /\ modem'[g] \in {modem[g], "open"}
            /\ modem'[g] = "open" => \/ modem[g] = "open"
                                     \/ modem[g] = "opening" /\ g \in activeSubscribers(m)
        BY <1>5 DEF Granted, AtlOpened
      <3>3. modem'[g] = "open" =>
              \E n \in Nifs : mState'[n] = "ACQUIRED" /\ g \in activeSubscribers(n)'
        BY <1>5, <2>2, <3>1, <3>2 DEF HandleOK, activeSubscribers
      <3>4. modem[g] = "idle" => modem'[g] = "idle"
        BY <3>2
      <3>5. Ending(g)' => modem'[g] \in {"idle", "closing"}
        BY <2>1, <3>1, <3>2 DEF HandleOK
      <3>6. modem'[g] = "idle" => modem[g] = "idle"
        BY <3>2
      <3>7. Listed(g)' <=> Listed(g)
        BY <2>2 DEF Listed
      <3> QED BY <2>1, <2>2, <3>1, <3>3, <3>5, <3>6, <3>7 DEF HandleOK
    <2> QED BY <2>1, <2>3, <2>4 DEF HandleInv
  <1>6. ASSUME m # DsNif, Handled, transitionState(m, "RELEASED") \/ transitionState(m, "PENDING"),
               NEW D \in SUBSET mSubscriberList[m], deleteSubscribers(D, m),
               mState[m] = "ACQUIRED" => D = mSubscriberList[m],
               AtlClosed(D) \/ (AtlOpenFailed(D) /\ mState[m] # "ACQUIRED")
        PROVE  HandleInv'
    <2>1. \A n \in Nifs \ {m} : mState'[n] = mState[n]
      BY <1>6 DEF transitionState, TypeOK
    <2> QED BY <1>2, <1>6, <2>1, DeletedHandles
  <1>7. CASE m # DsNif /\ (ForcedRelease(m) \/ OpenDenied(m))
    BY <1>6, <1>7 DEF ForcedRelease, OpenDenied
  <1>8. CASE m # DsNif /\ ReleaseCompleted(m)
    <2>1. mIsInactive[m] \in SUBSET mSubscriberList[m]
      BY DEF DemandInv, FlagsMatchList
    <2>2. Handled
      BY <1>8 DEF ReleaseCompleted, RequestSent, RequestFailed
    <2> QED BY <1>6, <1>8, <2>1, <2>2 DEF ReleaseCompleted
  <1> QED BY <1>1, <1>3, <1>4, <1>5, <1>7, <1>8
          DEF Granted, Released, Denied, EventIgnored, machines

LEMMA EnvironmentHandles ==
  ASSUME ~UseEmergencyPdn, TypeOK, HandleInv,
         \/ retryCallback
         \/ \E h \in Handles, t \in RequestTypes : modemOpen(h, t)
         \/ \E h \in Handles : modemClose(h)
         \/ \E m \in Nifs : Provider(m) \/ providerLosesConnection(m)
  PROVE  HandleInv'
  <1>1. UNCHANGED machines
    BY EnvironmentAppends
  <1>2. DsUnused'
    BY <1>1 DEF HandleInv, DsUnused, machines
  <1>3. \A g : Listed(g)' <=> Listed(g)
    BY <1>1 DEF Listed, machines
  <1>4. CASE UNCHANGED <<queue, modem>>
    BY <1>1, <1>2, <1>3, <1>4
       DEF HandleInv, QueueOrder, Asks, Ends, HandleOK, Queued, Ending, machines, activeSubscribers
  <1>5. ASSUME NEW h \in Handles, NEW t \in RequestTypes, modemOpen(h, t)
        PROVE  HandleInv'
    <2> DEFINE msg == RequestATL(h, t)
    <2>1. /\ msg \in Messages /\ queue' = Append(queue, msg)
          /\ msg.msg = "RequestATL" /\ msg.handle = h
      BY <1>5, MessagesTyped DEF modemOpen, RequestATL
    <2>2. modem[h] = "idle" /\ modem' = [modem EXCEPT ![h] = "opening"]
      BY <1>5 DEF modemOpen
    <2>3. ~Queued(h) /\ ~Ending(h)
      BY <1>5 DEF modemOpen, About, Queued, Ending, Asks, Ends
    <2> HIDE DEF msg
    <2>4. /\ QueueOrder'
          /\ \A g : Queued(g)' => Queued(g) \/ h = g
          /\ \A g : Ending(g)' => Ending(g)
      BY <2>1, <2>3, AppendedOrder DEF HandleInv, TypeOK
    <2>5. ASSUME NEW g \in Handles \ {h}
          PROVE  HandleOK(g)'
      BY <1>1, <1>3, <2>2, <2>4 DEF TypeOK, HandleInv, HandleOK, machines, activeSubscribers
    <2>6. HandleOK(h)'
      <3>1. ~Listed(h)'
        BY <1>3, <2>2 DEF HandleInv, HandleOK
      <3> QED BY <2>2, <2>3, <2>4, <3>1 DEF TypeOK, HandleOK, Listed
    <2> QED BY <1>2, <2>4, <2>5, <2>6 DEF HandleInv
  <1>6. ASSUME NEW h \in Handles, modemClose(h)
        PROVE  HandleInv'
    <2> DEFINE msg == ReleaseATL(h)
    <2>1. /\ msg \in Messages /\ queue' = Append(queue, msg)
          /\ msg.msg = "ReleaseATL" /\ msg.handle = h
      BY <1>6, MessagesTyped DEF modemClose, ReleaseATL
    <2>2. modem' = [modem EXCEPT ![h] = "closing"]
      BY <1>6 DEF modemClose
    <2> HIDE DEF msg
    <2>3. /\ QueueOrder'
          /\ \A g : Queued(g)' => Queued(g)
          /\ \A g : Ending(g)' => Ending(g) \/ h = g
      BY <2>1, AppendedOrder DEF HandleInv, TypeOK
    <2>4. ASSUME NEW g \in Handles \ {h}
          PROVE  HandleOK(g)'
      BY <1>1, <1>3, <2>2, <2>3 DEF TypeOK, HandleInv, HandleOK, machines, activeSubscribers
    <2>5. HandleOK(h)'
      BY <1>1, <1>3, <2>2, <2>3 DEF TypeOK, HandleInv, HandleOK, machines
    <2> QED BY <1>2, <2>3, <2>4, <2>5 DEF HandleInv
  <1>7. ASSUME NEW m \in Nifs, NEW e \in ProviderEvent, queue' = Append(queue, AtlEvent(m, e)),
               UNCHANGED modem
        PROVE  HandleInv'
    <2> DEFINE msg == AtlEvent(m, e)
    <2>1. msg \in Messages /\ queue' = Append(queue, msg) /\ msg.msg = "AtlEvent"
      BY <1>7, MessagesTyped DEF AtlEvent
    <2> HIDE DEF msg
    <2>2. /\ QueueOrder'
          /\ \A g : Queued(g)' => Queued(g)
          /\ \A g : Ending(g)' => Ending(g)
      BY <2>1, AppendedOrder DEF HandleInv, TypeOK
    <2>3. ASSUME NEW g \in Handles
          PROVE  HandleOK(g)'
      BY <1>1, <1>3, <1>7, <2>2 DEF HandleInv, HandleOK, machines, activeSubscribers
    <2> QED BY <1>2, <2>2, <2>3 DEF HandleInv
  <1>8. CASE retryCallback
    <2>1. activeSubscribers(DsNif) = {}
      BY DEF HandleInv, DsUnused, activeSubscribers
    <2> QED BY <1>4, <1>8, <2>1 DEF retryCallback
  <1>9. ASSUME NEW m \in Nifs, Provider(m) \/ providerLosesConnection(m)
        PROVE  HandleInv'
    <2>1. CASE providerCancels(m)
      BY <1>4, <2>1 DEF providerCancels
    <2>2. CASE providerLosesConnection(m)
      BY <1>7, <2>2 DEF providerLosesConnection, ProviderEvent
    <2>3. ASSUME NEW up, NEW e \in ProviderEvent, Answer(m, up, e)
          PROVE  HandleInv'
      BY <1>7, <2>3 DEF Answer
    <2> QED BY <1>9, <2>1, <2>2, <2>3 DEF ProviderEvent, Provider, providerOpens,
            providerRefuses, providerCloses, providerCannotClose
  <1> QED BY <1>5, <1>6, <1>8, <1>9

LEMMA HandlesInvariant ==
  ASSUME ~UseEmergencyPdn
  PROVE  Spec => []HandleInv
  <1>1. Init => HandleInv
    <2> SUFFICES ASSUME Init PROVE HandleInv
      OBVIOUS
    <2>1. QueueOrder
      BY DEF Init, QueueOrder
    <2>2. DsUnused
      BY DEF Init, DsUnused, Nifs, DsNif
    <2>3. ASSUME NEW h \in Handles PROVE HandleOK(h)
      BY DEF Init, HandleOK, Queued, Ending, Listed
    <2> QED BY <2>1, <2>2, <2>3 DEF HandleInv
  <1>2. TypeOK /\ DemandInv /\ HandleInv /\ [Next]_vars => HandleInv'
    <2> SUFFICES ASSUME TypeOK, DemandInv, HandleInv, [Next]_vars
                 PROVE  HandleInv'
      OBVIOUS
    <2>1. CASE UNCHANGED vars
      BY <2>1 DEF vars, machines, HandleInv, DsUnused, QueueOrder, HandleOK, Asks, Ends, Queued,
         Ending, Listed, activeSubscribers
    <2>2. CASE Next
      BY <2>2, requestATLHandles, releaseATLHandles, reportEventHandles, EnvironmentHandles
         DEF Next, Adapter
    <2> QED BY <2>1, <2>2
  <1> QED BY <1>1, <1>2, TypeCorrect, DemandTogether, PTL DEF Spec

(* "Once a subscriber is notified for ATL open/close status, it is         *)
(* deleted" (Agps.h): when the emergency PDN is not used, a handle the     *)
(* modem was told is closed is on no list and no request for it is queued. *)
(* With the emergency PDN the DS machine notifies without deleting.        *)
THEOREM NotifiedIsForgotten == ~UseEmergencyPdn => (Spec => []NoStaleSubscriber)
  <1> SUFFICES ASSUME ~UseEmergencyPdn
               PROVE  Spec => []NoStaleSubscriber
    OBVIOUS
  <1>1. Spec => []HandleInv
    BY HandlesInvariant
  <1> QED BY <1>1, HandleInvSuffices, PTL

(* No close or failure of a connection goes unreported: when the emergency *)
(* PDN is not used, an ATL the modem believes open is an active            *)
(* subscription of a machine that holds the connection.                    *)
THEOREM OpenAtlsAreBacked == ~UseEmergencyPdn => (Spec => []OpenIsBacked)
  <1> SUFFICES ASSUME ~UseEmergencyPdn
               PROVE  Spec => []OpenIsBacked
    OBVIOUS
  <1>1. Spec => []HandleInv
    BY HandlesInvariant
  <1> QED BY <1>1, HandleInvSuffices, PTL

-----------------------------------------------------------------------------
(* The manager implements AtlService when the emergency PDN is not used.   *)
(* Beyond HandleInv this needs to know the stage of each subscriber: under *)
(* a machine that holds its connection nobody still waits to be told it is *)
(* open, and only those that close are inactive.                           *)
StageInv ==
  \A h \in Handles, m \in Nifs :
    /\ mState[m] = "ACQUIRED" /\ h \in mSubscriberList[m] => modem[h] # "opening"
    /\ h \in mIsInactive[m] => modem[h] = "closing"

ServiceStep == [Service!Next]_Service!atlVars

LEMMA UsersAre ==
  ASSUME NEW m \in Nifs, NEW h
  PROVE  /\ h \in Users[m] <=> h \in mSubscriberList[m] /\ h \notin mIsInactive[m] /\ modem[h] = "open"
         /\ h \in Users'[m] <=> h \in mSubscriberList'[m] /\ h \notin mIsInactive'[m] /\ modem'[h] = "open"
  BY DEF Users, activeSubscribers

(* Steps of the service, seen from the variables of the manager.           *)
ModemMoved(H, stage) == modem' = [h \in Handles |-> IF h \in H THEN stage ELSE modem[h]]

LEMMA UsersFunction ==
  /\ Users = [m \in Nifs |-> Users[m]]
  /\ Users' = [m \in Nifs |-> Users'[m]]
  BY DEF Users

LEMMA NothingTold ==
  ASSUME UNCHANGED modem, \A n \in Nifs : Users'[n] = Users[n]
  PROVE  ServiceStep
  <1>1. Users' = Users
    BY UsersFunction
  <1> QED BY <1>1 DEF ServiceStep, Service!atlVars

LEMMA HandleOpens ==
  ASSUME NEW h \in Handles, modem[h] = "idle", ModemMoved({h}, "opening"),
         \A n \in Nifs : Users'[n] = Users[n]
  PROVE  ServiceStep
  <1>1. Users' = Users
    BY UsersFunction
  <1>2. Service!Open(h)
    BY <1>1 DEF Service!Open, Service!In, Service!Moved, ModemMoved
  <1> QED BY <1>2 DEF ServiceStep, Service!Next

LEMMA HandleCloses ==
  ASSUME NEW h \in Handles, modem[h] \in {"opening", "open"}, ModemMoved({h}, "closing"),
         \A n \in Nifs : Users'[n] = Users[n] \ {h}
  PROVE  ServiceStep
  <1>1. Users' = [n \in Nifs |-> Users[n] \ {h}]
    BY UsersFunction
  <1>2. Service!Close(h)
    BY <1>1 DEF Service!Close, Service!In, Service!Moved, ModemMoved
  <1> QED BY <1>2 DEF ServiceStep, Service!Next

LEMMA HandlesServed ==
  ASSUME NEW m \in Nifs, NEW H \in SUBSET Handles, \A h \in H : modem[h] = "opening",
         ModemMoved(H, "open"), Users'[m] = Users[m] \cup H,
         \A n \in Nifs \ {m} : Users'[n] = Users[n]
  PROVE  ServiceStep
  <1>1. Users' = [Users EXCEPT ![m] = @ \cup H]
    BY UsersFunction
  <1>2. Service!Serve(m, H)
    BY <1>1 DEF Service!Serve, Service!In, Service!Moved, ModemMoved
  <1> QED BY <1>2 DEF ServiceStep, Service!Next

LEMMA HandlesRefused ==
  ASSUME NEW H \in SUBSET Handles, ModemMoved(H, "idle"),
         (\A h \in H : modem[h] = "opening") \/ (\A h \in H : modem[h] = "closing"),
         \A n \in Nifs : Users'[n] = Users[n]
  PROVE  ServiceStep
  <1>1. Users' = Users
    BY UsersFunction
  <1>2. Service!Refuse(H) \/ Service!Closed(H)
    BY <1>1 DEF Service!Refuse, Service!Closed, Service!In, Service!Moved, ModemMoved
  <1> QED BY <1>2 DEF ServiceStep, Service!Next

LEMMA LinkLost ==
  ASSUME NEW m \in Nifs, NEW H \in SUBSET Handles, \A h \in H : modem[h] = "closing",
         ModemMoved(Users[m] \cup H, "idle"), Users'[m] = {},
         \A n \in Nifs \ {m} : Users'[n] = Users[n]
  PROVE  ServiceStep
  <1>1. Users' = [Users EXCEPT ![m] = {}]
    BY UsersFunction
  <1>2. Service!Lose(m, H)
    BY <1>1 DEF Service!Lose, Service!In, Service!Moved, ModemMoved
  <1> QED BY <1>2 DEF ServiceStep, Service!Next

LEMMA requestATLServes ==
  ASSUME ~UseEmergencyPdn, TypeOK, DemandInv, HandleInv, StageInv, requestATL
  PROVE  StageInv' /\ ServiceStep
  <1>1. PICK h \in Handles, m \in Nifs, wait \in BOOLEAN :
           /\ Asks(1, h) /\ m # DsNif
           /\ \/ SubscribeReleased(h, m, wait)
              \/ SubscribeWaits(h, m, wait)
              \/ SubscribeAcquired(h, m, wait)
    BY requestATLCases
  <1>2. Handled /\ queue # <<>> /\ queue \in Seq(Messages)
    BY <1>1, requestATLCases
       DEF TypeOK, SubscribeReleased, SubscribeWaits, SubscribeAcquired, RequestSent, RequestFailed
  <1>3. Queued(h)
    BY <1>1, <1>2, HandledOrder DEF HandleInv
  <1>4. /\ \A n \in Nifs : h \notin mSubscriberList[n] /\ h \notin mIsInactive[n]
        /\ modem[h] \in {"opening", "closing"}
    BY <1>3 DEF HandleInv, HandleOK, Listed, DemandInv, FlagsMatchList, activeSubscribers, TypeOK
  <1>5. /\ mSubscriberList'[m] = mSubscriberList[m] \cup {h}
        /\ mIsInactive' = mIsInactive
        /\ \A n \in Nifs \ {m} : mSubscriberList'[n] = mSubscriberList[n]
    BY <1>1, AddEffect DEF SubscribeReleased, SubscribeWaits, SubscribeAcquired
  <1>6. \A n \in Nifs \ {m} : mState'[n] = mState[n]
    BY <1>1 DEF TypeOK, SubscribeReleased, SubscribeWaits, SubscribeAcquired, transitionState
  <1>7. CASE UNCHANGED modem /\ (mState'[m] = "ACQUIRED" => modem[h] # "opening" /\ mState[m] = "ACQUIRED")
    <2>1. StageInv'
      BY <1>4, <1>5, <1>6, <1>7 DEF StageInv
    <2>2. ASSUME NEW n \in Nifs
          PROVE  Users'[n] = Users[n]
      <3>1. ASSUME NEW g
            PROVE  g \in Users'[n] <=> g \in Users[n]
        <4>1. g \in mSubscriberList'[n] <=> g \in mSubscriberList[n] \/ (n = m /\ g = h)
          BY <1>5
        <4>2. modem'[g] = modem[g] /\ mIsInactive'[n] = mIsInactive[n]
          BY <1>5, <1>7
        <4> QED BY <1>4, <4>1, <4>2, UsersAre
      <3> QED BY <3>1
    <2> QED BY <1>7, <2>1, <2>2, NothingTold
  <1>8. CASE SubscribeAcquired(h, m, wait) /\ modem[h] = "opening"
    <2>1. ModemMoved({h}, "open") /\ mState' = mState
      BY <1>8 DEF SubscribeAcquired, AtlOpened, ModemMoved
    <2>2. \A g \in Handles : modem'[g] = IF g = h THEN "open" ELSE modem[g]
      BY <2>1 DEF ModemMoved
    <2>3. StageInv'
      BY <1>4, <1>5, <2>1, <2>2 DEF StageInv
    <2>4. Users'[m] = Users[m] \cup {h} /\ \A n \in Nifs \ {m} : Users'[n] = Users[n]
      <3>1. \A n \in Nifs : Users[n] \subseteq Handles /\ Users'[n] \subseteq Handles
        BY <1>5, UsersAre DEF TypeOK
      <3>2. \A n \in Nifs, g \in Handles : g \in Users'[n] <=> g \in Users[n] \/ (n = m /\ g = h)
        BY <1>4, <1>5, <2>2, UsersAre
      <3> QED BY <3>1, <3>2
    <2> QED BY <1>8, <2>1, <2>3, <2>4, HandlesServed
  <1>9. CASE SubscribeAcquired(h, m, wait) /\ modem[h] = "closing"
    <2>1. UNCHANGED modem /\ mState' = mState
      BY <1>9 DEF SubscribeAcquired, AtlOpened, TypeOK
    <2> QED BY <1>7, <1>9, <2>1 DEF SubscribeAcquired
  <1>10. CASE SubscribeReleased(h, m, wait) \/ SubscribeWaits(h, m, wait)
    <2>1. UNCHANGED modem /\ mState'[m] # "ACQUIRED"
      BY <1>10 DEF TypeOK, SubscribeReleased, SubscribeWaits, transitionState
    <2> QED BY <1>7, <2>1
  <1> QED BY <1>1, <1>4, <1>8, <1>9, <1>10

LEMMA releaseATLServes ==
  ASSUME ~UseEmergencyPdn, TypeOK, DemandInv, HandleInv, StageInv, releaseATL
  PROVE  StageInv' /\ ServiceStep
  <1>1. PICK h \in Handles :
           /\ queue[1].handle = h
           /\ \/ /\ \A m \in Nifs : h \notin mSubscriberList[m]
                 /\ AtlClosed({h})
                 /\ UNCHANGED <<machines, outstanding>>
              \/ \E m \in Nifs :
                   /\ h \in mSubscriberList[m]
                   /\ \/ UnsubscribeReleased(h, m)
                      \/ UnsubscribeConnected(h, m)
                      \/ UnsubscribeReleasing(h, m)
    BY releaseATLCases
  <1>2. Handled /\ queue # <<>> /\ queue \in Seq(Messages) /\ Ends(1, h)
    BY <1>1, releaseATLCases DEF TypeOK, Ends
  <1>3. HandleOK(h) /\ modem[h] \in {"idle", "closing"}
    BY <1>2, HandledOrder DEF HandleInv, HandleOK
  <1>4. ASSUME AtlClosed({h}), \A g \in Handles \ {h} : \A n \in Nifs :
                 /\ g \in mSubscriberList'[n] <=> g \in mSubscriberList[n]
                 /\ g \in mIsInactive'[n] <=> g \in mIsInactive[n],
               \A n \in Nifs : mSubscriberList'[n] \subseteq Handles
        PROVE  ServiceStep
    <2>1. \A g \in Handles : modem'[g] = IF g = h THEN "idle" ELSE modem[g]
      BY <1>4 DEF AtlClosed
    <2>2. \A n \in Nifs : Users'[n] = Users[n]
      <3>1. \A n \in Nifs : Users[n] \subseteq Handles /\ Users'[n] \subseteq Handles
        BY <1>4, UsersAre DEF TypeOK
      <3>2. \A n \in Nifs, g \in Handles : g \in Users'[n] <=> g \in Users[n]
        BY <1>3, <1>4, <2>1, UsersAre
      <3> QED BY <3>1, <3>2
    <2>3. CASE modem[h] = "closing"
      <3>1. ModemMoved({h}, "idle")
        BY <1>4 DEF AtlClosed, ModemMoved
      <3> QED BY <2>2, <2>3, <3>1, HandlesRefused
    <2>4. CASE modem[h] = "idle"
      <3>1. UNCHANGED modem
        BY <1>4, <2>4 DEF AtlClosed, TypeOK
      <3> QED BY <2>2, <3>1, NothingTold
    <2> QED BY <1>3, <2>3, <2>4
  <1>5. CASE /\ \A m \in Nifs : h \notin mSubscriberList[m]
             /\ AtlClosed({h})
             /\ UNCHANGED <<machines, outstanding>>
    <2>1. \A g \in Handles : modem'[g] = IF g = h THEN "idle" ELSE modem[g]
      BY <1>5 DEF AtlClosed
    <2>2. UNCHANGED <<mState, mSubscriberList, mIsInactive>>
      BY <1>5 DEF machines
    <2>3. StageInv'
      BY <1>5, <2>1, <2>2 DEF StageInv, DemandInv, FlagsMatchList
    <2>4. ServiceStep
      BY <1>4, <1>5, <2>2 DEF TypeOK
    <2> QED BY <2>3, <2>4
  <1>6. ASSUME NEW m \in Nifs, h \in mSubscriberList[m],
               \/ UnsubscribeReleased(h, m)
               \/ UnsubscribeConnected(h, m)
               \/ UnsubscribeReleasing(h, m)
        PROVE  StageInv' /\ ServiceStep
    <2>1. m # DsNif /\ ~UnsubscribeReleased(h, m)
      BY <1>6 DEF HandleInv, DsUnused, DemandInv, ReleasedIsIdle, UnsubscribeReleased
    <2>2. Leave(h, m)
      BY <1>6, <2>1 DEF UnsubscribeConnected, UnsubscribeReleasing
    <2>3. \A n \in Nifs : mState'[n] = "ACQUIRED" => mState[n] = "ACQUIRED"
      BY <1>6, <2>1 DEF TypeOK, UnsubscribeConnected, UnsubscribeReleasing, transitionState
    <2>4. modem[h] = "closing"
      BY <1>3, <1>6 DEF HandleOK, Listed
    <2>5. CASE h \in mWaitForCloseComplete[m]
      <3>1. /\ UNCHANGED <<modem, mSubscriberList>>
            /\ \A n \in Nifs : mIsInactive'[n] = IF n = m THEN mIsInactive[n] \cup {h} ELSE mIsInactive[n]
        BY <2>2, <2>5 DEF Leave, TypeOK
      <3>2. StageInv'
        BY <2>3, <2>4, <3>1 DEF StageInv
      <3>3. ASSUME NEW n \in Nifs
            PROVE  Users'[n] = Users[n]
        <4>1. ASSUME NEW g
              PROVE  g \in Users'[n] <=> g \in Users[n]
          <5>1. g # h => (g \in mIsInactive'[n] <=> g \in mIsInactive[n])
            BY <3>1
          <5>2. modem'[g] = modem[g] /\ mSubscriberList'[n] = mSubscriberList[n]
            BY <3>1
          <5> QED BY <2>4, <5>1, <5>2, UsersAre
        <4> QED BY <4>1
      <3> QED BY <3>1, <3>2, <3>3, NothingTold
    <2>6. CASE h \notin mWaitForCloseComplete[m]
      <3>1. /\ AtlClosed({h})
            /\ \A n \in Nifs : /\ mSubscriberList'[n] = IF n = m THEN mSubscriberList[n] \ {h} ELSE mSubscriberList[n]
                               /\ mIsInactive'[n] = IF n = m THEN mIsInactive[n] \ {h} ELSE mIsInactive[n]
        BY <2>2, <2>6 DEF Leave, deleteSubscribers, TypeOK
      <3>2. \A g \in Handles : modem'[g] = IF g = h THEN "idle" ELSE modem[g]
        BY <3>1 DEF AtlClosed
      <3>3. \A n \in Nifs : h \notin mSubscriberList'[n] /\ h \notin mIsInactive'[n]
        BY <1>3, <1>6, <3>1 DEF HandleOK, DemandInv, FlagsMatchList
      <3>4. StageInv'
        BY <2>3, <3>1, <3>2, <3>3 DEF StageInv
      <3>5. ServiceStep
        BY <1>4, <3>1 DEF TypeOK
      <3> QED BY <3>4, <3>5
    <2> QED BY <2>5, <2>6
  <1> QED BY <1>1, <1>5, <1>6

(* Subscribers that are told and deleted.                                  *)
LEMMA DeletedServes ==
  ASSUME TypeOK, DemandInv, HandleInv, StageInv, NEW m \in Nifs, NEW D \in SUBSET mSubscriberList[m],
         deleteSubscribers(D, m), mState'[m] # "ACQUIRED",
         \A n \in Nifs \ {m} : mState'[n] = mState[n],
         \/ AtlClosed(D) /\ mState[m] = "ACQUIRED" /\ D = mSubscriberList[m]
         \/ AtlClosed(D) /\ mState[m] # "ACQUIRED" /\ D = mIsInactive[m]
         \/ AtlOpenFailed(D) /\ mState[m] # "ACQUIRED"
  PROVE  StageInv' /\ ServiceStep
  <1>1. \A n \in Nifs : /\ mSubscriberList'[n] = IF n = m THEN mSubscriberList[n] \ D ELSE mSubscriberList[n]
                        /\ mIsInactive'[n] = IF n = m THEN mIsInactive[n] \ D ELSE mIsInactive[n]
    BY DEF deleteSubscribers, TypeOK
  <1>2. D \in SUBSET Handles /\ \A n \in Nifs : mSubscriberList[n] \subseteq Handles
    BY DEF TypeOK
  <1>3. \A g \in Handles \ D : modem'[g] = modem[g]
    BY DEF AtlClosed, AtlOpenFailed
  <1>4. \A g \in D : \A n \in Nifs \ {m} : g \notin mSubscriberList[n] /\ g \notin mIsInactive[n]
    BY <1>2 DEF HandleInv, HandleOK, DemandInv, FlagsMatchList
  <1>5. StageInv'
    <2> SUFFICES ASSUME NEW g \in Handles, NEW n \in Nifs
                 PROVE  /\ mState'[n] = "ACQUIRED" /\ g \in mSubscriberList'[n] => modem'[g] # "opening"
                        /\ g \in mIsInactive'[n] => modem'[g] = "closing"
      BY DEF StageInv
    <2>1. CASE g \in D
      <3>1. g \notin mSubscriberList'[n] /\ g \notin mIsInactive'[n]
        BY <1>1, <1>4, <2>1
      <3> QED BY <3>1
    <2>2. CASE g \notin D
      BY <1>1, <1>3, <2>2 DEF StageInv
    <2> QED BY <2>1, <2>2
  <1>6. \A g \in D : modem[g] # "idle"
    BY <1>2 DEF HandleInv, HandleOK, Listed
  <1>7. \A n \in Nifs : Users[n] \subseteq Handles /\ Users'[n] \subseteq Handles
    BY <1>1, <1>2, UsersAre
  <1>8. ASSUME NEW n \in Nifs, NEW g \in Handles \ D
        PROVE  g \in Users'[n] <=> g \in Users[n]
    <2>1. /\ g \in mSubscriberList'[n] <=> g \in mSubscriberList[n]
          /\ g \in mIsInactive'[n] <=> g \in mIsInactive[n]
      BY <1>1
    <2> QED BY <1>3, <2>1, UsersAre
  <1>9. \A n \in Nifs, g \in D : g \notin Users'[n] /\ (g \in Users[n] => n = m)
    BY <1>1, <1>4, UsersAre
  <1>10. mState[m] # "ACQUIRED" => \A g \in D : modem[g] # "open"
    <2> SUFFICES ASSUME NEW g \in D, modem[g] = "open"
                 PROVE  mState[m] = "ACQUIRED"
      OBVIOUS
    <2>1. PICK n \in Nifs : mState[n] = "ACQUIRED" /\ g \in activeSubscribers(n)
      BY <1>2 DEF HandleInv, HandleOK
    <2>2. n = m
      BY <1>2, <2>1 DEF HandleInv, HandleOK, activeSubscribers
    <2> QED BY <2>1, <2>2
  <1>11. CASE AtlClosed(D) /\ mState[m] = "ACQUIRED" /\ D = mSubscriberList[m]
    <2>1. \A g \in D : modem[g] = "open" \/ modem[g] = "closing"
      BY <1>2, <1>6, <1>11 DEF StageInv, TypeOK
    <2>2. PICK H : H = {g \in D : modem[g] = "closing"}
      OBVIOUS
    <2>3. Users[m] \subseteq D /\ \A g \in D : g \in Users[m] <=> modem[g] = "open"
      <3>1. \A g \in D : modem[g] = "open" => g \notin mIsInactive[m]
        BY <1>2 DEF StageInv
      <3> QED BY <1>11, <3>1, UsersAre
    <2>4. Users[m] \cup H = D
      BY <2>1, <2>2, <2>3
    <2>5. ModemMoved(Users[m] \cup H, "idle")
      BY <1>11, <2>4 DEF AtlClosed, ModemMoved
    <2>6. Users'[m] = {} /\ \A n \in Nifs \ {m} : Users'[n] = Users[n]
      <3>1. \A g \in Handles : g \notin Users'[m]
        BY <1>8, <1>9, <2>3
      <3> QED BY <1>7, <1>8, <1>9, <3>1
    <2>7. H \in SUBSET Handles /\ \A g \in H : modem[g] = "closing"
      BY <1>2, <2>2
    <2> QED BY <1>5, <2>5, <2>6, <2>7, LinkLost
  <1>12. mState[m] # "ACQUIRED" => \A n \in Nifs : Users'[n] = Users[n]
    <2> SUFFICES ASSUME mState[m] # "ACQUIRED", NEW n \in Nifs
                 PROVE  Users'[n] = Users[n]
      OBVIOUS
    <2>1. \A g \in D : g \notin Users[n]
      BY <1>10, UsersAre
    <2> QED BY <1>7, <1>8, <1>9, <2>1
  <1>13. CASE AtlClosed(D) /\ mState[m] # "ACQUIRED" /\ D = mIsInactive[m]
    <2>1. ModemMoved(D, "idle")
      BY <1>13 DEF AtlClosed, ModemMoved
    <2>2. \A g \in D : modem[g] = "closing"
      BY <1>2, <1>13 DEF StageInv
    <2> QED BY <1>2, <1>5, <1>12, <1>13, <2>1, <2>2, HandlesRefused
  <1>14. CASE AtlOpenFailed(D) /\ mState[m] # "ACQUIRED"
    <2>1. PICK H : H = {g \in D : modem[g] = "opening"}
      OBVIOUS
    <2>2. \A g \in Handles : (g \in D /\ modem[g] \in {"opening", "open"}) <=> g \in H
      BY <1>10, <1>14, <2>1
    <2>3. ModemMoved(H, "idle")
      BY <1>14, <2>2 DEF AtlOpenFailed, ModemMoved
    <2>4. H \in SUBSET Handles /\ \A g \in H : modem[g] = "opening"
      BY <1>2, <2>1
    <2> QED BY <1>5, <1>12, <1>14, <2>3, <2>4, HandlesRefused
  <1> QED BY <1>11, <1>13, <1>14

LEMMA reportEventServes ==
  ASSUME ~UseEmergencyPdn, TypeOK, DemandInv, HandleInv, StageInv, reportEvent
  PROVE  StageInv' /\ ServiceStep
  <1>1. PICK m \in Nifs : Granted(m) \/ Released(m) \/ Denied(m)
    BY reportEventCases
  <1>2. CASE UNCHANGED <<machines, modem>>
    <2>1. UNCHANGED <<mState, mSubscriberList, mIsInactive, modem>>
      BY <1>2 DEF machines
    <2>2. StageInv'
      BY <2>1 DEF StageInv
    <2>3. \A n \in Nifs : Users'[n] = Users[n]
      BY <2>1, UsersAre
    <2> QED BY <2>1, <2>2, <2>3, NothingTold
  <1>3. CASE m = DsNif
    <2>1. mState[m] = "RELEASED"
      BY <1>3 DEF HandleInv, DsUnused
    <2>2. UNCHANGED <<machines, modem>>
      BY <1>1, <2>1 DEF Granted, Released, Denied, ForcedRelease, ReleaseCompleted, OpenDenied,
         EventIgnored, machines
    <2> QED BY <1>2, <2>2
  <1>4. CASE Granted(m) /\ mState[m] = "PENDING"
    <2>1. /\ UNCHANGED <<mSubscriberList, mIsInactive>>
          /\ mState'[m] = "ACQUIRED" /\ \A n \in Nifs \ {m} : mState'[n] = mState[n]
      BY <1>4 DEF TypeOK, Granted, transitionState
    <2>2. PICK H : H = {g \in activeSubscribers(m) : modem[g] = "opening"}
      OBVIOUS
    <2>3. H \in SUBSET Handles /\ \A g \in H : modem[g] = "opening"
      BY <2>2 DEF activeSubscribers, TypeOK
    <2>4. ModemMoved(H, "open")
      BY <1>4, <2>2 DEF Granted, AtlOpened, ModemMoved
    <2>5. \A g \in Handles : modem'[g] = IF g \in H THEN "open" ELSE modem[g]
      BY <2>4 DEF ModemMoved
    <2>6. \A g \in Handles : g \in H <=> g \in mSubscriberList[m] /\ g \notin mIsInactive[m] /\ modem[g] = "opening"
      BY <2>2 DEF activeSubscribers
    <2>7. StageInv'
      <3> SUFFICES ASSUME NEW g \in Handles, NEW n \in Nifs
                   PROVE  /\ mState'[n] = "ACQUIRED" /\ g \in mSubscriberList'[n] => modem'[g] # "opening"
                          /\ g \in mIsInactive'[n] => modem'[g] = "closing"
        BY DEF StageInv
      <3>1. g \in mIsInactive[n] => modem[g] = "closing" /\ modem'[g] = "closing"
        BY <2>5, <2>6 DEF StageInv
      <3>2. g \in mSubscriberList[m] => modem'[g] # "opening"
        BY <2>5, <2>6 DEF StageInv
      <3>3. n # m /\ mState[n] = "ACQUIRED" /\ g \in mSubscriberList[n] => modem'[g] # "opening"
        BY <2>5 DEF StageInv
      <3> QED BY <2>1, <3>1, <3>2, <3>3
    <2>8. Users'[m] = Users[m] \cup H /\ \A n \in Nifs \ {m} : Users'[n] = Users[n]
      <3>1. \A n \in Nifs : Users[n] \subseteq Handles /\ Users'[n] \subseteq Handles
        BY <2>1, UsersAre DEF TypeOK
      <3>2. \A g \in H : \A n \in Nifs \ {m} : g \notin mSubscriberList[n]
        BY <2>3, <2>6 DEF HandleInv, HandleOK
      <3>3. \A n \in Nifs, g \in Handles : g \in Users'[n] <=> g \in Users[n] \/ (n = m /\ g \in H)
        BY <2>1, <2>3, <2>5, <2>6, <3>2, UsersAre
      <3> QED BY <2>3, <3>1, <3>3
    <2> QED BY <2>3, <2>4, <2>7, <2>8, HandlesServed
  <1>5. CASE m # DsNif /\ (ForcedRelease(m) \/ OpenDenied(m))
    <2>1. /\ mState'[m] # "ACQUIRED" /\ \A n \in Nifs \ {m} : mState'[n] = mState[n]
          /\ deleteSubscribers(mSubscriberList[m], m)
          /\ \/ AtlClosed(mSubscriberList[m]) /\ mState[m] = "ACQUIRED"
             \/ AtlOpenFailed(mSubscriberList[m]) /\ mState[m] # "ACQUIRED"
      BY <1>5 DEF ForcedRelease, OpenDenied, transitionState, TypeOK
    <2> QED BY <2>1, DeletedServes
  <1>6. CASE ReleaseCompleted(m)
    <2>1. mIsInactive[m] \in SUBSET mSubscriberList[m]
      BY DEF DemandInv, FlagsMatchList
    <2>2. /\ mState[m] # "ACQUIRED" /\ AtlClosed(mIsInactive[m]) /\ deleteSubscribers(mIsInactive[m], m)
          /\ transitionState(m, "PENDING") \/ transitionState(m, "RELEASED")
      BY <1>6 DEF ReleaseCompleted
    <2>3. mState'[m] # "ACQUIRED" /\ \A n \in Nifs \ {m} : mState'[n] = mState[n]
      BY <2>2 DEF transitionState, TypeOK
    <2> QED BY <2>1, <2>2, <2>3, DeletedServes
  <1> QED BY <1>1, <1>2, <1>3, <1>4, <1>5, <1>6
          DEF Granted, Released, Denied, EventIgnored, machines

LEMMA EnvironmentServes ==
  ASSUME ~UseEmergencyPdn, TypeOK, DemandInv, HandleInv, StageInv,
         \/ retryCallback
         \/ \E h \in Handles, t \in RequestTypes : modemOpen(h, t)
         \/ \E h \in Handles : modemClose(h)
         \/ \E m \in Nifs : Provider(m) \/ providerLosesConnection(m)
  PROVE  StageInv' /\ ServiceStep
  <1>1. UNCHANGED <<mState, mSubscriberList, mIsInactive>>
    BY EnvironmentAppends DEF machines
  <1>2. CASE UNCHANGED modem
    <2>1. StageInv'
      BY <1>1, <1>2 DEF StageInv
    <2>2. \A n \in Nifs : Users'[n] = Users[n]
      BY <1>1, <1>2, UsersAre
    <2> QED BY <1>2, <2>1, <2>2, NothingTold
  <1>3. ASSUME NEW h \in Handles, NEW t \in RequestTypes, modemOpen(h, t)
        PROVE  StageInv' /\ ServiceStep
    <2>1. modem[h] = "idle" /\ \A g \in Handles : modem'[g] = IF g = h THEN "opening" ELSE modem[g]
      BY <1>3 DEF modemOpen, TypeOK
    <2>2. ModemMoved({h}, "opening")
      BY <1>3 DEF modemOpen, TypeOK, ModemMoved
    <2>3. \A n \in Nifs : h \notin mSubscriberList[n] /\ h \notin mIsInactive[n]
      BY <2>1 DEF HandleInv, HandleOK, Listed, DemandInv, FlagsMatchList
    <2>4. StageInv'
      BY <1>1, <2>1, <2>3 DEF StageInv
    <2>5. \A n \in Nifs : Users'[n] = Users[n]
      <3>1. \A n \in Nifs : Users[n] \subseteq Handles /\ Users'[n] \subseteq Handles
        BY <1>1, UsersAre DEF TypeOK
      <3>2. \A n \in Nifs, g \in Handles : g \in Users'[n] <=> g \in Users[n]
        BY <1>1, <2>1, <2>3, UsersAre
      <3> QED BY <3>1, <3>2
    <2> QED BY <2>1, <2>2, <2>4, <2>5, HandleOpens
  <1>4. ASSUME NEW h \in Handles, modemClose(h)
        PROVE  StageInv' /\ ServiceStep
    <2>1. /\ modem[h] \in {"opening", "open"}
          /\ \A g \in Handles : modem'[g] = IF g = h THEN "closing" ELSE modem[g]
      BY <1>4 DEF modemClose, TypeOK
    <2>2. ModemMoved({h}, "closing")
      BY <1>4 DEF modemClose, TypeOK, ModemMoved
    <2>3. StageInv'
      BY <1>1, <2>1 DEF StageInv
    <2>4. \A n \in Nifs : Users'[n] = Users[n] \ {h}
      <3>1. \A n \in Nifs : Users[n] \subseteq Handles /\ Users'[n] \subseteq Handles
        BY <1>1, UsersAre DEF TypeOK
      <3>2. \A n \in Nifs, g \in Handles : g \in Users'[n] <=> g \in Users[n] /\ g # h
        BY <1>1, <2>1, UsersAre
      <3> QED BY <3>1, <3>2
    <2> QED BY <2>1, <2>2, <2>3, <2>4, HandleCloses
  <1>5. CASE retryCallback \/ \E m \in Nifs : Provider(m) \/ providerLosesConnection(m)
    <2>1. UNCHANGED modem
      BY <1>5 DEF retryCallback, Provider, providerOpens, providerRefuses, providerCloses,
         providerCannotClose, providerCancels, providerLosesConnection, Answer
    <2> QED BY <1>2, <2>1
  <1> QED BY <1>3, <1>4, <1>5

(* The manager implements AtlService when the emergency PDN is not used:   *)
(* what notifyEventToSubscriber and notifyAllSubscribers tell the modem,   *)
(* message by message, are the steps of a service that shares connections  *)
(* among handles.  With the emergency PDN a handle that falls back to SUPL *)
(* is on two lists, and the statement is false.                            *)
THEOREM ConnectionsAreShared == ~UseEmergencyPdn => (Spec => SharesConnections)
  <1> SUFFICES ASSUME ~UseEmergencyPdn
               PROVE  Spec => SharesConnections
    OBVIOUS
  <1>1. Init => StageInv /\ Service!Init
    <2> SUFFICES ASSUME Init PROVE StageInv /\ Service!Init
      OBVIOUS
    <2>1. StageInv
      BY DEF Init, StageInv
    <2>2. \A n \in Nifs : Users[n] = {}
      BY UsersAre DEF Init
    <2>3. Users = [n \in Nifs |-> {}]
      BY <2>2, UsersFunction
    <2> QED BY <2>1, <2>3 DEF Init, Service!Init
  <1>2. TypeOK /\ DemandInv /\ HandleInv /\ StageInv /\ [Next]_vars => StageInv' /\ ServiceStep
    <2> SUFFICES ASSUME TypeOK, DemandInv, HandleInv, StageInv, [Next]_vars
                 PROVE  StageInv' /\ ServiceStep
      OBVIOUS
    <2>1. CASE UNCHANGED vars
      <3>1. UNCHANGED <<mState, mSubscriberList, mIsInactive, modem>>
        BY <2>1 DEF vars, machines
      <3>2. \A n \in Nifs : Users'[n] = Users[n]
        BY <3>1, UsersAre
      <3>3. StageInv'
        BY <3>1 DEF StageInv
      <3> QED BY <3>1, <3>2, <3>3, NothingTold
    <2>2. CASE Next
      BY <2>2, requestATLServes, releaseATLServes, reportEventServes, EnvironmentServes
         DEF Next, Adapter
    <2> QED BY <2>1, <2>2
  <1>3. Spec => []HandleInv
    BY HandlesInvariant
  <1> QED BY <1>1, <1>2, <1>3, TypeCorrect, DemandTogether, PTL
          DEF Spec, SharesConnections, Service!Spec, ServiceStep
=============================================================================
