-------------------------------- MODULE Agps --------------------------------
(***************************************************************************)
(* The AGPS manager of the GNSS HAL (gps/gnss/Agps.cpp, with the message   *)
(* plumbing of gps/gnss/GnssAdapter.cpp).                                  *)
(*                                                                         *)
(* The modem asks for data connections ("ATL") on behalf of location       *)
(* servers: each request carries a connection handle and a type.  The      *)
(* manager owns three state machines ("NIF"), one per type of connection:  *)
(* SUPL and WWAN_ANY ask the Android framework for the connection,         *)
(* SUPL_ES (the DSStateMachine) asks the modem's data-service client, which *)
(* may answer BUSY (retry after a delay) or refuse (fall back to SUPL).    *)
(*                                                                         *)
(* Every operation arrives as a message on the adapter's queue and is      *)
(* handled by its single thread; the retry timer runs on its own thread.   *)
(*                                                                         *)
(* Abstractions: mSubscriberList is a set, so "the first active subscriber" *)
(* is any active one; APN, bearer and addresses are left out.              *)
(***************************************************************************)
EXTENDS Naturals, Sequences, FiniteSets, SequencesExt

CONSTANTS
  Handles,                  \* connection handles the modem uses
  RequestTypes,             \* types the modem asks for, a subset of Nifs
  UseEmergencyPdn,          \* USE_EMERGENCY_PDN_FOR_EMERGENCY_SUPL of gps.conf
  MaxStartDataCallRetries,  \* MAX_START_DATA_CALL_RETRIES
  CloseMayFail,             \* may the framework report a failed close
  MaxQueue,                 \* bound: the modem waits while the queue is this long
  MaxOutstanding,           \* bound: commands a provider has not answered yet
  MaxTimers                 \* bound: retry timers running at once

Nifs == {"SUPL", "WWAN_ANY", "SUPL_ES"}
DsNif == "SUPL_ES"

ASSUME HandlesAssumption == IsFiniteSet(Handles)
ASSUME ConstantsAssumption ==
  /\ RequestTypes \subseteq Nifs
  /\ UseEmergencyPdn \in BOOLEAN /\ CloseMayFail \in BOOLEAN
  /\ MaxStartDataCallRetries \in Nat
  /\ MaxQueue \in Nat \ {0} /\ MaxOutstanding \in Nat \ {0} /\ MaxTimers \in Nat

VARIABLES
  mState,                 \* AgpsState of each machine
  mSubscriberList,        \* handles subscribed to each machine
  mWaitForCloseComplete,  \* ... those told "closed" only once the call is closed
  mIsInactive,            \* ... those that have unsubscribed and wait for that
  dsCreated,              \* is mDsNif non-NULL
  mRetries,               \* DSStateMachine::mRetries
  timers,                 \* running retry timers
  queue,                  \* the adapter's message queue
  outstanding,            \* commands sent to each provider, not answered yet
  conn,                   \* is the provider's data connection up
  modem                   \* the modem's view of each handle

machines == <<mState, mSubscriberList, mWaitForCloseComplete, mIsInactive>>
vars == <<machines, dsCreated, mRetries, timers, queue, outstanding, conn, modem>>

AgpsState == {"RELEASED", "PENDING", "ACQUIRED", "RELEASING"}
ProviderEvent == {"GRANTED", "RELEASED", "DENIED"}

RequestATL(h, t)    == [msg |-> "RequestATL", handle |-> h, agpsType |-> t]
ReleaseATL(h)       == [msg |-> "ReleaseATL", handle |-> h]
AtlEvent(m, e)      == [msg |-> "AtlEvent", agpsType |-> m, event |-> e]

Messages ==
  [msg : {"RequestATL"}, handle : Handles, agpsType : Nifs]
    \cup [msg : {"ReleaseATL"}, handle : Handles]
    \cup [msg : {"AtlEvent"}, agpsType : Nifs, event : ProviderEvent]

TypeOK ==
  /\ mState \in [Nifs -> AgpsState]
  /\ mSubscriberList \in [Nifs -> SUBSET Handles]
  /\ mWaitForCloseComplete \in [Nifs -> SUBSET Handles]
  /\ mIsInactive \in [Nifs -> SUBSET Handles]
  /\ dsCreated \in BOOLEAN
  /\ mRetries \in 0..MaxStartDataCallRetries
  /\ timers \in Nat
  /\ queue \in Seq(Messages)
  /\ outstanding \in [Nifs -> Seq({"request", "release"})]
  /\ conn \in [Nifs -> BOOLEAN]
  /\ modem \in [Handles -> {"idle", "opening", "open", "closing"}]

\* After GnssAdapter::initAgps on a device with MSA or MSB capability.
Init ==
  /\ mState = [m \in Nifs |-> "RELEASED"]
  /\ mSubscriberList = [m \in Nifs |-> {}]
  /\ mWaitForCloseComplete = [m \in Nifs |-> {}]
  /\ mIsInactive = [m \in Nifs |-> {}]
  /\ dsCreated \in {FALSE, UseEmergencyPdn}
  /\ mRetries = 0
  /\ timers = 0
  /\ queue = <<>>
  /\ outstanding = [m \in Nifs |-> <<>>]
  /\ conn = [m \in Nifs |-> FALSE]
  /\ modem = [h \in Handles |-> "idle"]

-----------------------------------------------------------------------------
(* Notifications: mAtlOpenStatusCb and mAtlCloseStatusCb, as the modem     *)
(* takes them.  A modem that already asked to close ignores open statuses. *)

AtlOpened(H) ==
  modem' = [h \in Handles |-> IF h \in H /\ modem[h] = "opening" THEN "open" ELSE modem[h]]

AtlOpenFailed(H) ==
  modem' = [h \in Handles |->
              IF h \in H /\ modem[h] \in {"opening", "open"} THEN "idle" ELSE modem[h]]

AtlClosed(H) ==
  modem' = [h \in Handles |-> IF h \in H THEN "idle" ELSE modem[h]]

-----------------------------------------------------------------------------
(* Helpers of AgpsStateMachine.                                            *)

activeSubscribers(m) == mSubscriberList[m] \ mIsInactive[m]

transitionState(m, s) == mState' = [mState EXCEPT ![m] = s]

addSubscriber(h, m, wait) ==
  IF h \in mSubscriberList[m]
  THEN UNCHANGED <<mSubscriberList, mWaitForCloseComplete, mIsInactive>>
  ELSE /\ mSubscriberList' = [mSubscriberList EXCEPT ![m] = @ \cup {h}]
       /\ mWaitForCloseComplete' =
            [mWaitForCloseComplete EXCEPT ![m] = IF wait THEN @ \cup {h} ELSE @]
       /\ UNCHANGED mIsInactive

deleteSubscribers(D, m) ==
  /\ mSubscriberList' = [mSubscriberList EXCEPT ![m] = @ \ D]
  /\ mWaitForCloseComplete' = [mWaitForCloseComplete EXCEPT ![m] = @ \ D]
  /\ mIsInactive' = [mIsInactive EXCEPT ![m] = @ \ D]

Posted(msgs) == queue' = Tail(queue) \o msgs

Handled == Posted(<<>>)

send(m, cmd) == outstanding' = [outstanding EXCEPT ![m] = Append(@, cmd)]

(* requestOrReleaseDataConn(true) that returns 0: the framework always     *)
(* takes the request, the data-service client answers SUCCESS.             *)
RequestSent(m) ==
  /\ send(m, "request")
  /\ Handled
  /\ UNCHANGED <<mRetries, timers>>

\* loc_timer_start, which may fail.
RetryTimer ==
  \/ timers < MaxTimers /\ timers' = timers + 1
  \/ UNCHANGED timers

\* Mutant: one retry too many.
DataCallBusyOffByOne ==
  /\ mRetries <= MaxStartDataCallRetries
  /\ mRetries' = mRetries + 1
  /\ RetryTimer
  /\ Handled
  /\ UNCHANGED outstanding

(* DSStateMachine: ENGINE_BUSY with retries left starts the retry timer;   *)
(* a timer that cannot be started is only logged.                          *)
DataCallBusy ==
  /\ mRetries < MaxStartDataCallRetries
  /\ mRetries' = mRetries + 1
  /\ RetryTimer
  /\ Handled
  /\ UNCHANGED outstanding

(* DSStateMachine: retries exhausted or UNSUPPORTED.  The first active     *)
(* subscriber falls back to SUPL through the queue; it is not deleted.     *)
DataCallRefused(active) ==
  /\ mRetries' = 0
  /\ \E h \in active : Posted(<<RequestATL(h, "SUPL")>>)
  /\ UNCHANGED <<timers, outstanding>>

(* DSStateMachine: any other return value is only logged.                  *)
DataCallError ==
  /\ Handled
  /\ UNCHANGED <<mRetries, timers, outstanding>>

RequestFailed(m, active) ==
  /\ m = DsNif
  /\ DataCallBusy \/ DataCallRefused(active) \/ DataCallError

-----------------------------------------------------------------------------
(* AGPS_EVENT_SUBSCRIBE: processAgpsEventSubscribe.                        *)

SubscribeReleased(h, m, wait) ==
  /\ mState[m] = "RELEASED"
  /\ addSubscriber(h, m, wait)
  /\ \/ RequestSent(m) /\ transitionState(m, "PENDING")
     \/ RequestFailed(m, activeSubscribers(m) \cup {h}) /\ UNCHANGED mState
  /\ UNCHANGED modem

SubscribeWaits(h, m, wait) ==
  /\ mState[m] \in {"PENDING", "RELEASING"}
  /\ addSubscriber(h, m, wait)
  /\ Handled
  /\ UNCHANGED <<mState, mRetries, timers, outstanding, modem>>

\* Mutant: the newcomer is not told that the connection is already there.
SubscribeAcquiredSilently(h, m, wait) ==
  /\ mState[m] = "ACQUIRED"
  /\ addSubscriber(h, m, wait)
  /\ Handled
  /\ UNCHANGED <<mState, mRetries, timers, outstanding, modem>>

SubscribeAcquired(h, m, wait) ==
  /\ mState[m] = "ACQUIRED"
  /\ AtlOpened({h})
  /\ addSubscriber(h, m, wait)
  /\ Handled
  /\ UNCHANGED <<mState, mRetries, timers, outstanding>>

(* getAgpsStateMachine: an emergency request goes to the AGNSS machine     *)
(* when the emergency PDN is not used.                                     *)
getAgpsStateMachine(t) == IF t = "SUPL_ES" /\ ~UseEmergencyPdn THEN "SUPL" ELSE t

(* AgpsManager::requestATL.  A missing DS machine is created first, which  *)
(* fails when the data-service client cannot be initialised.               *)
requestATL ==
  /\ queue # <<>> /\ Head(queue).msg = "RequestATL"
  /\ LET h == Head(queue).handle
         t == Head(queue).agpsType
         m == getAgpsStateMachine(t)
     IN \/ /\ m = DsNif /\ ~dsCreated
           /\ AtlOpenFailed({h})
           /\ Handled
           /\ UNCHANGED <<machines, dsCreated, mRetries, timers, outstanding>>
        \/ /\ dsCreated' = (dsCreated \/ m = DsNif)
           /\ \/ SubscribeReleased(h, m, t = "SUPL_ES")
              \/ SubscribeWaits(h, m, t = "SUPL_ES")
              \/ SubscribeAcquired(h, m, t = "SUPL_ES")
  /\ UNCHANGED conn

-----------------------------------------------------------------------------
(* AGPS_EVENT_UNSUBSCRIBE: processAgpsEventUnsubscribe.                    *)

(* The machine already is released: notified, not deleted.                 *)
UnsubscribeReleased(h, m) ==
  /\ mState[m] = "RELEASED"
  /\ AtlClosed({h})
  /\ UNCHANGED <<machines, outstanding>>

\* Mutant: notified with deleteSubscriberPostNotify = false.
LeaveUndeleted(h, m) ==
  /\ mIsInactive' =
       [mIsInactive EXCEPT ![m] = IF h \in mWaitForCloseComplete[m] THEN @ \cup {h} ELSE @]
  /\ IF h \in mWaitForCloseComplete[m] THEN UNCHANGED modem ELSE AtlClosed({h})
  /\ UNCHANGED <<mSubscriberList, mWaitForCloseComplete>>

\* Mutant: notifyAllSubscribers where one subscriber is to be told.
LeaveTellsAll(h, m) ==
  IF h \in mWaitForCloseComplete[m]
  THEN /\ mIsInactive' = [mIsInactive EXCEPT ![m] = @ \cup {h}]
       /\ UNCHANGED <<mSubscriberList, mWaitForCloseComplete, modem>>
  ELSE /\ deleteSubscribers(mSubscriberList[m], m)
       /\ AtlClosed(mSubscriberList[m])

\* What the list becomes, and who is told, in the three other states.
Leave(h, m) ==
  IF h \in mWaitForCloseComplete[m]
  THEN /\ mIsInactive' = [mIsInactive EXCEPT ![m] = @ \cup {h}]
       /\ UNCHANGED <<mSubscriberList, mWaitForCloseComplete, modem>>
  ELSE /\ deleteSubscribers({h}, m)
       /\ AtlClosed({h})

\* Mutant: the connection is released only when the list is empty.
UnsubscribeConnectedEmptyOnly(h, m) ==
  /\ mState[m] \in {"PENDING", "ACQUIRED"}
  /\ Leave(h, m)
  /\ IF mSubscriberList'[m] = {}
     THEN transitionState(m, "RELEASED") /\ send(m, "release")
     ELSE UNCHANGED <<mState, outstanding>>

UnsubscribeConnected(h, m) ==
  /\ mState[m] \in {"PENDING", "ACQUIRED"}
  /\ Leave(h, m)
  /\ IF mSubscriberList'[m] = {}
     THEN transitionState(m, "RELEASED") /\ send(m, "release")
     ELSE IF mSubscriberList'[m] \ mIsInactive'[m] = {}
     THEN transitionState(m, "RELEASING") /\ send(m, "release")
     ELSE UNCHANGED <<mState, outstanding>>

UnsubscribeReleasing(h, m) ==
  /\ mState[m] = "RELEASING"
  /\ Leave(h, m)
  /\ IF mSubscriberList'[m] = {} THEN transitionState(m, "RELEASED") ELSE UNCHANGED mState
  /\ UNCHANGED outstanding

(* AgpsManager::releaseATL searches AGNSS, then Internet, then DS; an      *)
(* unknown handle is told closed (with failure).                           *)
SubscribedTo(h, m) ==
  /\ h \in mSubscriberList[m]
  /\ m = "WWAN_ANY" => h \notin mSubscriberList["SUPL"]
  /\ m = DsNif => h \notin mSubscriberList["SUPL"] \cup mSubscriberList["WWAN_ANY"]

releaseATL ==
  /\ queue # <<>> /\ Head(queue).msg = "ReleaseATL"
  /\ LET h == Head(queue).handle
     IN \/ /\ \A m \in Nifs : h \notin mSubscriberList[m]
           /\ AtlClosed({h})
           /\ UNCHANGED <<machines, outstanding>>
        \/ \E m \in Nifs :
             /\ SubscribedTo(h, m)
             /\ \/ UnsubscribeReleased(h, m)
                \/ UnsubscribeConnected(h, m)
                \/ UnsubscribeReleasing(h, m)
  /\ Handled
  /\ UNCHANGED <<dsCreated, mRetries, timers, conn>>

-----------------------------------------------------------------------------
(* GRANTED, RELEASED and DENIED: the provider's answers.                   *)

\* processAgpsEventGranted: only a pending machine expects it.
Granted(m) ==
  /\ IF mState[m] = "PENDING"
     THEN /\ transitionState(m, "ACQUIRED")
          /\ AtlOpened(activeSubscribers(m))
     ELSE UNCHANGED <<mState, modem>>
  /\ Handled
  /\ UNCHANGED <<mSubscriberList, mWaitForCloseComplete, mIsInactive, mRetries, timers,
                 outstanding>>

\* Mutants: the subscribers are notified but kept, or deleted but not notified.
ForcedReleaseKeepingSubscribers(m) ==
  /\ mState[m] = "ACQUIRED"
  /\ transitionState(m, "RELEASED")
  /\ AtlClosed(mSubscriberList[m])
  /\ Handled
  /\ UNCHANGED <<mSubscriberList, mWaitForCloseComplete, mIsInactive, mRetries, timers,
                 outstanding>>

ForcedReleaseUnreported(m) ==
  /\ mState[m] = "ACQUIRED"
  /\ transitionState(m, "RELEASED")
  /\ deleteSubscribers(mSubscriberList[m], m)
  /\ Handled
  /\ UNCHANGED <<mRetries, timers, outstanding, modem>>

\* processAgpsEventReleased in ACQUIRED: the connection was taken away.
ForcedRelease(m) ==
  /\ mState[m] = "ACQUIRED"
  /\ transitionState(m, "RELEASED")
  /\ AtlClosed(mSubscriberList[m])
  /\ deleteSubscribers(mSubscriberList[m], m)
  /\ Handled
  /\ UNCHANGED <<mRetries, timers, outstanding>>

\* Mutant: the new connection is not requested.
ReleaseCompletedNoRequest(m) ==
  /\ mState[m] = "RELEASING"
  /\ AtlClosed(mIsInactive[m])
  /\ deleteSubscribers(mIsInactive[m], m)
  /\ transitionState(m, IF activeSubscribers(m) # {} THEN "PENDING" ELSE "RELEASED")
  /\ Handled
  /\ UNCHANGED <<mRetries, timers, outstanding>>

(* RELEASED or DENIED in RELEASING: waiting subscribers are told, and the  *)
(* active ones that joined meanwhile need a new connection.                *)
ReleaseCompleted(m) ==
  /\ mState[m] = "RELEASING"
  /\ AtlClosed(mIsInactive[m])
  /\ deleteSubscribers(mIsInactive[m], m)
  /\ IF activeSubscribers(m) # {}
     THEN /\ transitionState(m, "PENDING")
          /\ RequestSent(m) \/ RequestFailed(m, activeSubscribers(m))
     ELSE /\ transitionState(m, "RELEASED")
          /\ Handled
          /\ UNCHANGED <<mRetries, timers, outstanding>>

\* Mutant: a denied DS subscriber is deleted without falling back to SUPL.
OpenDeniedNoFallback(m) ==
  /\ mState[m] = "PENDING"
  /\ transitionState(m, "RELEASED")
  /\ deleteSubscribers(mSubscriberList[m], m)
  /\ IF m = DsNif THEN UNCHANGED modem ELSE AtlOpenFailed(mSubscriberList[m])
  /\ Handled
  /\ UNCHANGED <<mRetries, timers, outstanding>>

(* DENIED in PENDING: every subscriber is told and deleted.  A DS          *)
(* subscriber is not told but re-requested as SUPL through the queue.      *)
OpenDenied(m) ==
  /\ mState[m] = "PENDING"
  /\ transitionState(m, "RELEASED")
  /\ deleteSubscribers(mSubscriberList[m], m)
  /\ \/ /\ m # DsNif
        /\ AtlOpenFailed(mSubscriberList[m])
        /\ Handled
        /\ UNCHANGED mRetries
     \/ /\ m = DsNif
        /\ \E order \in SetToSeqs(mSubscriberList[m]) :
             Posted([i \in 1..Len(order) |-> RequestATL(order[i], "SUPL")])
        /\ mRetries' = 0
        /\ UNCHANGED modem
  /\ UNCHANGED <<timers, outstanding>>

EventIgnored ==
  /\ Handled
  /\ UNCHANGED <<machines, mRetries, timers, outstanding, modem>>

Released(m) ==
  \/ ForcedRelease(m)
  \/ ReleaseCompleted(m)
  \/ m = DsNif /\ OpenDenied(m)  \* DSStateMachine::processAgpsEvent
  \/ mState[m] \in {"RELEASED", "PENDING"} /\ ~(m = DsNif /\ mState[m] = "PENDING")
       /\ EventIgnored

Denied(m) ==
  \/ ReleaseCompleted(m)
  \/ OpenDenied(m)
  \/ mState[m] \in {"RELEASED", "ACQUIRED"} /\ EventIgnored

\* reportAtlOpenSuccess, reportAtlOpenFailed, reportAtlClosed, reportDataCall...
reportEvent ==
  /\ queue # <<>> /\ Head(queue).msg = "AtlEvent"
  /\ LET m == Head(queue).agpsType
         e == Head(queue).event
     IN \/ e = "GRANTED" /\ Granted(m)
        \/ e = "RELEASED" /\ Released(m)
        \/ e = "DENIED" /\ Denied(m)
  /\ UNCHANGED <<dsCreated, conn>>

-----------------------------------------------------------------------------
(* The retry timer's thread: DSStateMachine::retryCallback.                *)
retryCallback ==
  /\ timers > 0
  /\ timers' = timers - 1
  /\ \/ /\ activeSubscribers(DsNif) = {}
        /\ UNCHANGED queue
     \/ \E h \in activeSubscribers(DsNif) : queue' = Append(queue, RequestATL(h, "SUPL_ES"))
  /\ UNCHANGED <<machines, dsCreated, mRetries, outstanding, conn, modem>>

-----------------------------------------------------------------------------
(* The modem: GnssAdapter::requestATL, requestSuplES and releaseATL post   *)
(* its indications.  It uses a handle again once everything about the      *)
(* previous use has been handled.                                          *)

About(h, msg) == msg.msg \in {"RequestATL", "ReleaseATL"} /\ msg.handle = h

modemOpen(h, t) ==
  /\ Len(queue) < MaxQueue
  /\ \A m \in Nifs : Len(outstanding[m]) < MaxOutstanding
  /\ modem[h] = "idle"
  /\ \A i \in 1..Len(queue) : ~About(h, queue[i])
  /\ modem' = [modem EXCEPT ![h] = "opening"]
  /\ queue' = Append(queue, RequestATL(h, t))
  /\ UNCHANGED <<machines, dsCreated, mRetries, timers, outstanding, conn>>

modemClose(h) ==
  /\ Len(queue) < MaxQueue
  /\ modem[h] \in {"opening", "open"}
  /\ modem' = [modem EXCEPT ![h] = "closing"]
  /\ queue' = Append(queue, ReleaseATL(h))
  /\ UNCHANGED <<machines, dsCreated, mRetries, timers, outstanding, conn>>

-----------------------------------------------------------------------------
(* The providers: the framework (or libloc_net_iface) behind SUPL and      *)
(* WWAN_ANY, the data-service client behind SUPL_ES.  Commands are         *)
(* answered in order.  The data-service client reports a failed set-up as  *)
(* RELEASED; agpsCloseResultCb reports a failed close as DENIED.           *)

Answer(m, up, e) ==
  /\ outstanding' = [outstanding EXCEPT ![m] = Tail(@)]
  /\ conn' = [conn EXCEPT ![m] = up]
  /\ queue' = Append(queue, AtlEvent(m, e))
  /\ UNCHANGED <<machines, dsCreated, mRetries, timers, modem>>

NextCommand(m, cmd) == outstanding[m] # <<>> /\ Head(outstanding[m]) = cmd

providerOpens(m) == NextCommand(m, "request") /\ Answer(m, TRUE, "GRANTED")

providerRefuses(m) ==
  NextCommand(m, "request") /\ Answer(m, FALSE, IF m = DsNif THEN "RELEASED" ELSE "DENIED")

providerCloses(m) == NextCommand(m, "release") /\ Answer(m, FALSE, "RELEASED")

providerCannotClose(m) ==
  CloseMayFail /\ m # DsNif /\ NextCommand(m, "release") /\ Answer(m, conn[m], "DENIED")

\* A request withdrawn before it was served is not answered.
providerCancels(m) ==
  /\ NextCommand(m, "request")
  /\ Len(outstanding[m]) > 1 /\ outstanding[m][2] = "release"
  /\ outstanding' = [outstanding EXCEPT ![m] = Tail(@)]
  /\ UNCHANGED <<machines, dsCreated, mRetries, timers, queue, conn, modem>>

\* The network goes away by itself.
providerLosesConnection(m) ==
  /\ conn[m]
  /\ conn' = [conn EXCEPT ![m] = FALSE]
  /\ queue' = Append(queue, AtlEvent(m, "RELEASED"))
  /\ UNCHANGED <<machines, dsCreated, mRetries, timers, outstanding, modem>>

-----------------------------------------------------------------------------
Adapter == requestATL \/ releaseATL \/ reportEvent

Provider(m) ==
  \/ providerOpens(m)
  \/ providerRefuses(m)
  \/ providerCloses(m)
  \/ providerCannotClose(m)
  \/ providerCancels(m)

Next ==
  \/ Adapter
  \/ retryCallback
  \/ \E h \in Handles, t \in RequestTypes : modemOpen(h, t)
  \/ \E h \in Handles : modemClose(h)
  \/ \E m \in Nifs : Provider(m)
  \/ \E m \in Nifs : providerLosesConnection(m)

Spec == Init /\ [][Next]_vars

(* The message thread runs while there is a message, an expired timer      *)
(* calls back, and a provider answers what it was asked.  Nothing obliges  *)
(* the modem to do anything, and the network need not fail.                *)
FairSpec ==
  /\ Spec
  /\ WF_vars(Adapter)
  /\ WF_vars(retryCallback)
  /\ \A m \in Nifs : WF_vars(Provider(m))
-----------------------------------------------------------------------------
(* Properties.                                                             *)

(* The flags of AgpsSubscriber live and die with the list entry, and only  *)
(* a subscriber that waits for the close is ever inactive.                 *)
FlagsMatchList ==
  \A m \in Nifs :
    /\ mWaitForCloseComplete[m] \subseteq mSubscriberList[m]
    /\ mIsInactive[m] \subseteq mWaitForCloseComplete[m]

(* processAgpsEventUnsubscribe and the handlers of the provider's answers  *)
(* keep connection and demand in step: a machine that wants or holds a     *)
(* connection has an active subscriber, one that is giving it up has a     *)
(* subscriber waiting for the close, and one that gave it up has nobody    *)
(* left waiting.                                                           *)
ConnMatchesDemand ==
  \A m \in Nifs :
    /\ mState[m] \in {"PENDING", "ACQUIRED"} => activeSubscribers(m) # {}
    /\ mState[m] = "RELEASING" => mIsInactive[m] # {}
    /\ mState[m] = "RELEASED" => mIsInactive[m] = {}

(* "Subscriber list should be empty if we are in released state"           *)
(* (Agps.cpp, processAgpsEventReleased), for the two machines served by    *)
(* the framework.                                                          *)
ReleasedIsIdle ==
  \A m \in Nifs \ {DsNif} : mState[m] = "RELEASED" => mSubscriberList[m] = {}

(* processAgpsEventSubscribe in PENDING: "Already requested for data       *)
(* connection, do nothing until we get RSRC_GRANTED event".  A pending     *)
(* machine has a request the framework has not answered, or the answer is  *)
(* in the queue; without one it would wait for ever.                       *)
RequestOutstanding(m) ==
  \/ \E i \in 1..Len(outstanding[m]) : outstanding[m][i] = "request"
  \/ \E i \in 1..Len(queue) : queue[i] \in {AtlEvent(m, "GRANTED"), AtlEvent(m, "DENIED")}

FrameworkPendingHasRequest ==
  \A m \in Nifs \ {DsNif} : mState[m] = "PENDING" => RequestOutstanding(m)

(* The same comment for the DS machine, which takes RELEASED for an answer *)
(* as well: while it is pending, some answer is still to come.             *)
DsPendingHasRequest ==
  mState[DsNif] = "PENDING" =>
    \/ outstanding[DsNif] # <<>>
    \/ \E i \in 1..Len(queue) :
         queue[i] \in {AtlEvent(DsNif, "GRANTED"), AtlEvent(DsNif, "RELEASED")}

(* An ATL the modem believes open is an active subscription of a machine   *)
(* that holds the connection: no close or failure goes unreported.         *)
OpenIsBacked ==
  \A h \in Handles : modem[h] = "open" =>
    \E m \in Nifs : mState[m] = "ACQUIRED" /\ h \in activeSubscribers(m)

(* "Once a subscriber is notified for ATL open/close status, it is         *)
(* deleted" (Agps.h, mSubscriberList): a handle the modem was told is      *)
(* closed is on no list and on no way back to one.                         *)
NoStaleSubscriber ==
  \A h \in Handles : modem[h] = "idle" =>
    /\ \A m \in Nifs : h \notin mSubscriberList[m]
    /\ \A i \in 1..Len(queue) : queue[i].msg = "RequestATL" => queue[i].handle # h

(* A request the modem waits for is never dropped: it is subscribed to a  *)
(* machine, or a message that will subscribe it is queued.  DENIED in      *)
(* DSStateMachine::notifyEventToSubscriber relies on it: the subscriber is *)
(* deleted and only the queued SUPL request remembers the handle.          *)
OpenNotForgotten ==
  \A h \in Handles : modem[h] = "opening" =>
    \/ \E m \in Nifs : h \in mSubscriberList[m]
    \/ \E i \in 1..Len(queue) : queue[i].msg = "RequestATL" /\ queue[i].handle = h

(* "If no subscribers in list, release data connection" (Agps.cpp,         *)
(* processAgpsEventUnsubscribe): once every command is answered and every  *)
(* message handled, a connection is up only for a subscriber.              *)
NoOrphanConnection ==
  \A m \in Nifs :
    queue = <<>> /\ outstanding[m] = <<>> /\ mSubscriberList[m] = {} => ~conn[m]

(* The manager is the service of AtlService, with the machines as links: a *)
(* link serves the active subscribers the modem was told are open.  That   *)
(* notifyEventToSubscriber and notifyAllSubscribers tell the right ones in *)
(* every state means that nobody's ATL ends with another's release, that   *)
(* the loss of a connection reaches all at once and that a request is      *)
(* refused before it was granted or not at all.                            *)
Users == [m \in Nifs |-> {h \in activeSubscribers(m) : modem[h] = "open"}]
Service == INSTANCE AtlService WITH Links <- Nifs, atl <- modem, users <- Users
SharesConnections == Service!Spec

(* Every ATL request is answered: opened, refused, or given up by the      *)
(* modem itself.                                                           *)
OpenAnswered == \A h \in Handles : modem[h] = "opening" ~> modem[h] # "opening"
=============================================================================
