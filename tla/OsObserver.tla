----------------------------- MODULE OsObserver -----------------------------
(***************************************************************************)
(* The data items of the operating system on their way to their readers:   *)
(* SystemStatusOsObserver (subscriptions, cache, notifications), the part  *)
(* of SystemStatus that stores data items, and XtraSystemStatusObserver,   *)
(* which passes them on to the XTRA daemon over a local socket (LocIpc).   *)
(*                                                                         *)
(* Everything is done by messages of one MsgTask; binder threads, the      *)
(* framework's agent and the IPC thread only put messages on its queue.    *)
(* The framework's agent behind mSubscriptionObj, the library that creates *)
(* data items (present here) and the daemon are external: they are known   *)
(* only by the calls and the strings exchanged with them.                  *)
(***************************************************************************)
EXTENDS Naturals, Sequences, FiniteSets

CONSTANTS
    OsClients,        \* observers other than XTRA's
    NetworkTypes,     \* types 0 .. TYPE_UNKNOWN - 1 of NetworkInfoDataItemBase
    ItemValues,       \* values of the other data items
    MaxOsEvents,      \* bound: calls of binder threads, agent and daemon
    NoItem            \* a data item nobody has reported

VARIABLES
    mSubscriptionObj,     \* whether the framework's agent is connected
    agent,                \* data items the agent was asked to subscribe or send
    mClientToDataItems,   \* client |-> data items
    mDataItemToClients,   \* data item |-> clients
    mItems,               \* SystemStatus::mCache, last entry of each data item
    mDataItemCache,       \* data item |-> copy sent to clients
    heard,                \* client |-> data item |-> value last notified
    mXtra,                \* XtraSystemStatusObserver: field |-> value
    mReqStatusReceived,
    mListening,           \* the IPC thread has bound LOC_IPC_HAL
    daemon,               \* [up, answered, view]: the XTRA daemon
    osQueue,              \* the message task's queue
    connected,            \* history variable: types reported as connected
    phantom,              \* history variable: type whose loss came first
    updated,              \* history variable: clients that updated a subscription
    osEvents              \* bound counter

osVars == <<mSubscriptionObj, agent, mClientToDataItems, mDataItemToClients, mItems,
            mDataItemCache, heard, mXtra, mReqStatusReceived, mListening, daemon, osQueue,
            connected, phantom, updated, osEvents>>
agentVars  == <<mSubscriptionObj, agent, mClientToDataItems, mDataItemToClients, updated>>
cacheVars  == <<mItems, mDataItemCache>>
daemonVars == <<mXtra, mReqStatusReceived, mListening, daemon>>

XtraClient == "xtra"
AllClients == OsClients \cup {XtraClient}

(* XTRA's observer is one of its own, and no item is the absent one.       *)
ASSUME OsAssumption ==
    /\ XtraClient \notin OsClients
    /\ NoItem \notin ItemValues /\ \A w \in SUBSET NetworkTypes : w # NoItem

(* The three data items XTRA reads stand for the 22 SystemStatus stores.   *)
DataItemIds == {"NETWORKINFO", "TAC", "MCCMNC"}
XtraField == [NETWORKINFO |-> "connection", TAC |-> "tac", MCCMNC |-> "mncmcc"]
XtraFields == {"gpslock", "connection", "tac", "mncmcc", "xtrathrottle"}

OsSend(msgs) == osQueue' = osQueue \o msgs
Handled(msgs) == osQueue' = Tail(osQueue) \o msgs
OsEvent == osEvents < MaxOsEvents /\ osEvents' = osEvents + 1

-----------------------------------------------------------------------------
(* LocUnorderedSetMap, on total functions: an absent entry is {}.          *)

Keys(map) == {k \in DOMAIN map : map[k] # {}}
add(map, keys, vals) == [k \in DOMAIN map |-> IF k \in keys THEN map[k] \cup vals ELSE map[k]]
trimOrRemove(map, keys, vals) ==
    [k \in DOMAIN map |-> IF k \in keys THEN map[k] \ vals ELSE map[k]]

(* update returns what newVals and the old entry have in common, where its *)
(* comment promises the values that are gone.  The loop advances an        *)
(* iterator it has erased; here newVals has one element, its last step.    *)
removeAndReturnInterset(s1, s2) == s1 \cap s2
updateGone(map, key, newVals) == removeAndReturnInterset(map[key], newVals)

-----------------------------------------------------------------------------
(* SystemStatus::eventDataItemNotify.  An item is stored when it differs   *)
(* from the last entry; network information is first collated with it, and *)
(* the collated types are written back into the data item.                 *)

\* Mutant: a loss replaces the types instead of taking its own away.
CollateReplaces(item, last) ==
    IF last = NoItem THEN item.types
    ELSE IF item.connected THEN last \cup item.types ELSE item.types

collate(item, last) ==
    IF last = NoItem THEN item.types
    ELSE IF item.connected THEN last \cup item.types
    ELSE IF item.types # {} THEN last \ item.types ELSE {}

StoredItem(id, item, last) == IF id = "NETWORKINFO" THEN collate(item, last) ELSE item

(* equals of the items' classes: all but Bluetooth's compare the value.    *)
Differs(stored, last) == stored # last

(* A data item the library cannot create is never put into the message.    *)
NetworkInfo(type, isConnected) ==
    [types |-> IF type \in NetworkTypes THEN {type} ELSE {}, connected |-> isConnected]

-----------------------------------------------------------------------------
(* Notifying clients.  XTRA copies the list into a message to itself.      *)

\* The messages and the values heard when each client c gets items[c].
sendCachedDataItems(items, cache) ==
    LET Told(c) == {i \in items[c] : cache[i] # NoItem} IN
    /\ heard' = [c \in OsClients |->
                   [i \in DataItemIds |-> IF i \in Told(c) THEN cache[i] ELSE heard[c][i]]]
    /\ Handled(IF Told(XtraClient) = {} THEN <<>>
               ELSE <<[type |-> "osUpdate",
                       items |-> [i \in Told(XtraClient) |-> cache[i]]]>>)

\* Items new to mDataItemToClients are subscribed to, emptied ones given up:
\* requestData is asked instead of subscribe for the items of requestData.
TellAgent(new, emptied) ==
    agent' = IF mSubscriptionObj THEN (agent \cup new) \ emptied ELSE agent

OnlyTo(client, items) == [c \in AllClients |-> IF c = client THEN items ELSE {}]

\* Mutant: a new subscriber is not sent what is in the cache.
SubscribeSilent(m) ==
    /\ mDataItemToClients' = add(mDataItemToClients, m.items, {m.client})
    /\ mClientToDataItems' = add(mClientToDataItems, {m.client}, m.items)
    /\ TellAgent(m.items \ Keys(mDataItemToClients), {})
    /\ Handled(<<>>)
    /\ UNCHANGED <<mSubscriptionObj, updated, cacheVars, heard, daemonVars>>

HandleSubscribeReq(m) ==
    /\ mDataItemToClients' = add(mDataItemToClients, m.items, {m.client})
    /\ mClientToDataItems' = add(mClientToDataItems, {m.client}, m.items)
    /\ sendCachedDataItems(OnlyTo(m.client, m.items), mDataItemCache)
    /\ TellAgent(m.items \ Keys(mDataItemToClients), {})
    /\ UNCHANGED <<mSubscriptionObj, updated, cacheVars, daemonVars>>

HandleUpdateSubscriptionReq(m) ==
    LET gone == updateGone(mClientToDataItems, m.client, m.items)
        fresh == m.items \ gone
        trimmed == trimOrRemove(mDataItemToClients, gone, {m.client})
    IN /\ mClientToDataItems' = [mClientToDataItems EXCEPT ![m.client] = m.items]
       /\ mDataItemToClients' = add(trimmed, fresh, {m.client})
       /\ TellAgent(fresh \ Keys(trimmed), Keys(mDataItemToClients) \ Keys(trimmed))
       /\ sendCachedDataItems(OnlyTo(m.client, fresh), mDataItemCache)
       /\ updated' = updated \cup {m.client}
       /\ UNCHANGED <<mSubscriptionObj, cacheVars, daemonVars>>

HandleUnsubscribeReq(m) ==
    LET unused == mClientToDataItems[m.client] \cap m.items
        trimmed == trimOrRemove(mDataItemToClients, unused, {m.client})
    IN
    /\ mClientToDataItems' = trimOrRemove(mClientToDataItems, {m.client}, m.items)
    /\ mDataItemToClients' = trimmed
    /\ TellAgent({}, Keys(mDataItemToClients) \ Keys(trimmed))
    /\ Handled(<<>>)
    /\ UNCHANGED <<mSubscriptionObj, updated, cacheVars, heard, daemonVars>>

HandleUnsubscribeAllReq(m) == HandleUnsubscribeReq([m EXCEPT !.items = DataItemIds])

\* The items SystemStatus stored, as it stored them.
updateCache(items) ==
    LET stored == [i \in DOMAIN items |-> StoredItem(i, items[i], mItems[i])]
        changed == {i \in DOMAIN items : Differs(stored[i], mItems[i])}
    IN [i \in changed |-> stored[i]]

\* updateCache for each item, then the clients that have one of them.
HandleNotify(m) ==
    LET stored == updateCache(m.items)
        changed == DOMAIN stored
        cache == [i \in DataItemIds |-> IF i \in changed THEN stored[i] ELSE mDataItemCache[i]]
        clients == UNION {mDataItemToClients[i] : i \in changed}
    IN /\ mItems' = [i \in DataItemIds |-> IF i \in changed THEN stored[i] ELSE mItems[i]]
       /\ mDataItemCache' = cache
       /\ sendCachedDataItems([c \in AllClients |->
              IF c \in clients THEN mClientToDataItems[c] \cap changed ELSE {}], cache)
       /\ UNCHANGED <<agentVars, daemonVars>>

SetSubsObj ==
    /\ mSubscriptionObj' = TRUE
    /\ agent' = agent \cup Keys(mDataItemToClients)
    /\ Handled(<<>>)
    /\ UNCHANGED <<mClientToDataItems, mDataItemToClients, updated, cacheVars, heard, daemonVars>>

-----------------------------------------------------------------------------
(* XtraSystemStatusObserver.  A datagram to a daemon that is down is lost  *)
(* and the result of send is ignored.                                      *)

SendXtra(fields, new) ==
    daemon' = IF daemon.up
              THEN [daemon EXCEPT !.view = [f \in XtraFields |->
                      IF f \in fields THEN new[f] ELSE daemon.view[f]]]
              ELSE daemon

UpdateXtra(fields, new) ==
    /\ mXtra' = new
    /\ IF mReqStatusReceived THEN SendXtra(fields, new) ELSE daemon' = daemon
    /\ Handled(<<>>)
    /\ UNCHANGED <<agentVars, cacheVars, heard, mReqStatusReceived, mListening>>

HandleOsObserverUpdateMsg(m) ==
    LET field(i) == XtraField[i] IN
    UpdateXtra({field(i) : i \in DOMAIN m.items},
               [f \in XtraFields |-> IF \E i \in DOMAIN m.items : field(i) = f
                                     THEN m.items[CHOOSE i \in DOMAIN m.items : field(i) = f]
                                     ELSE mXtra[f]])

\* updateLockStatus and updateXtraThrottle, called by the adapter's messages.
UpdateField(m) == UpdateXtra({m.field}, [mXtra EXCEPT ![m.field] = m.value])

\* The answer leaves out the throttle.
onStatusRequested(m) ==
    /\ mReqStatusReceived' = TRUE
    /\ IF m.xtraStatusUpdated THEN daemon' = [daemon EXCEPT !.answered = daemon.up]
       ELSE daemon' = IF daemon.up
                      THEN [daemon EXCEPT !.answered = TRUE,
                              !.view = [mXtra EXCEPT !["xtrathrottle"] = daemon.view["xtrathrottle"]]]
                      ELSE daemon
    /\ Handled(<<>>)
    /\ UNCHANGED <<agentVars, cacheVars, heard, mXtra, mListening>>

HandleOsMessage ==
    /\ osQueue # <<>>
    /\ LET m == Head(osQueue) IN
       \/ m.type = "subscribe" /\ HandleSubscribeReq(m)
       \/ m.type = "updateSubscription" /\ HandleUpdateSubscriptionReq(m)
       \/ m.type = "unsubscribe" /\ HandleUnsubscribeReq(m)
       \/ m.type = "unsubscribeAll" /\ HandleUnsubscribeAllReq(m)
       \/ m.type = "notify" /\ HandleNotify(m)
       \/ m.type = "setSubs" /\ SetSubsObj
       \/ m.type = "osUpdate" /\ HandleOsObserverUpdateMsg(m)
       \/ m.type = "field" /\ UpdateField(m)
       \/ m.type = "request" /\ onStatusRequested(m)
    /\ UNCHANGED <<connected, phantom, osEvents>>

-----------------------------------------------------------------------------
(* Calls of other threads: each only sends a message.                      *)

SubscriberCalls == \E c \in OsClients, items \in {s \in SUBSET DataItemIds : Cardinality(s) = 1},
                  call \in {"subscribe", "updateSubscription", "unsubscribe", "unsubscribeAll"} :
    /\ OsEvent
    /\ OsSend(<<[type |-> call, client |-> c, items |-> items]>>)
    /\ UNCHANGED <<agentVars, cacheVars, heard, daemonVars, connected, phantom>>

setSubscriptionObj ==
    /\ OsEvent /\ ~mSubscriptionObj
    /\ OsSend(<<[type |-> "setSubs"]>>)
    /\ UNCHANGED <<agentVars, cacheVars, heard, daemonVars, connected, phantom>>

\* GnssRil's updateNetworkState through location_gnss.cpp: TYPE_UNKNOWN too.
eventConnectionStatus == \E type \in NetworkTypes \cup {"unknown"}, on \in BOOLEAN :
    /\ OsEvent
    /\ LET info == NetworkInfo(type, on) IN
       /\ OsSend(<<[type |-> "notify", items |-> [i \in {"NETWORKINFO"} |-> info]]>>)
       /\ connected' = IF on THEN connected \cup info.types
                       ELSE IF info.types = {} THEN {} ELSE connected \ info.types
       /\ phantom' = IF mItems["NETWORKINFO"] = NoItem /\ connected = {} /\ ~on
                     THEN phantom \cup info.types ELSE phantom
    /\ UNCHANGED <<agentVars, cacheVars, heard, daemonVars>>

\* The framework's agent, for the data items it was asked for.
AgentNotifies == \E i \in {"TAC", "MCCMNC"}, v \in ItemValues :
    /\ OsEvent
    /\ i \in agent
    /\ OsSend(<<[type |-> "notify", items |-> [k \in {i} |-> v]]>>)
    /\ UNCHANGED <<agentVars, cacheVars, heard, daemonVars, connected, phantom>>

AdapterUpdates == \E f \in {"gpslock", "xtrathrottle"}, v \in ItemValues :
    /\ OsEvent
    /\ OsSend(<<[type |-> "field", field |-> f, value |-> v]>>)
    /\ UNCHANGED <<agentVars, cacheVars, heard, daemonVars, connected, phantom>>

startListeningBlocking ==
    /\ ~mListening /\ mListening' = TRUE
    /\ UNCHANGED <<agentVars, cacheVars, heard, mXtra, mReqStatusReceived, daemon, osQueue,
                   connected, phantom, osEvents>>

NoView == [f \in XtraFields |-> NoItem]

\* The daemon asks when it starts and when it hears "halinit".
StatusRequest(up) == IF mListening
               THEN <<[type |-> "request",
                       xtraStatusUpdated |-> up /\ daemon.answered]>>
               ELSE <<>>

DaemonStarts ==
    /\ OsEvent /\ ~daemon.up
    /\ daemon' = [up |-> TRUE, answered |-> FALSE, view |-> NoView]
    /\ OsSend(StatusRequest(FALSE))
    /\ UNCHANGED <<agentVars, cacheVars, heard, mXtra, mReqStatusReceived, mListening,
                   connected, phantom>>

\* DelayLocTimer sends "halinit"; the daemon asks again.
onReceive ==
    /\ OsEvent /\ daemon.up
    /\ OsSend(StatusRequest(TRUE))
    /\ UNCHANGED <<agentVars, cacheVars, heard, daemonVars, connected, phantom>>

DaemonStops ==
    /\ OsEvent /\ daemon.up
    /\ daemon' = [up |-> FALSE, answered |-> FALSE, view |-> NoView]
    /\ UNCHANGED <<agentVars, cacheVars, heard, mXtra, mReqStatusReceived, mListening, osQueue,
                   connected, phantom>>

-----------------------------------------------------------------------------
(* XTRA's constructor has put its two subscriptions on the queue.          *)
OsInit ==
    /\ mSubscriptionObj = FALSE /\ agent = {}
    /\ mClientToDataItems = [c \in AllClients |-> {}]
    /\ mDataItemToClients = [i \in DataItemIds |-> {}]
    /\ mItems = [i \in DataItemIds |-> NoItem]
    /\ mDataItemCache = mItems
    /\ heard = [c \in OsClients |-> [i \in DataItemIds |-> NoItem]]
    /\ mXtra = NoView
    /\ mReqStatusReceived = FALSE
    /\ mListening = FALSE
    /\ daemon = [up |-> FALSE, answered |-> FALSE, view |-> NoView]
    /\ osQueue = <<[type |-> "subscribe", client |-> XtraClient, items |-> {"NETWORKINFO", "MCCMNC"}],
                   [type |-> "subscribe", client |-> XtraClient, items |-> {"TAC"}]>>
    /\ connected = {} /\ phantom = {} /\ updated = {}
    /\ osEvents = 0

OsNext == \/ HandleOsMessage \/ SubscriberCalls \/ setSubscriptionObj \/ eventConnectionStatus
          \/ AgentNotifies \/ AdapterUpdates \/ startListeningBlocking
          \/ DaemonStarts \/ onReceive \/ DaemonStops

OsSpec == OsInit /\ [][OsNext]_osVars

OsTypeOK ==
    /\ mClientToDataItems \in [AllClients -> SUBSET DataItemIds]
    /\ mDataItemToClients \in [DataItemIds -> SUBSET AllClients]
    /\ DOMAIN mXtra = XtraFields /\ DOMAIN daemon.view = XtraFields
    /\ mReqStatusReceived \in BOOLEAN /\ updated \subseteq OsClients

(* When no message is left, every client holds, for each data item it is   *)
(* subscribed to, what SystemStatus stored last, the agent was asked for   *)
(* the item, and a daemon whose request was answered holds what XTRA's     *)
(* observer holds of lock, connections and cells, in whatever order        *)
(* subscriptions, notifications, listener and a restarting daemon came.    *)
(* Clients that called updateSubscription are excepted: it takes them off  *)
(* the items they keep.                                                    *)
SubscribersCurrent == osQueue = <<>> =>
    /\ \A c \in OsClients \ updated : \A i \in mClientToDataItems[c] :
          /\ c \in mDataItemToClients[i] /\ heard[c][i] = mItems[i]
          /\ mSubscriptionObj => i \in agent
    /\ \A i \in DataItemIds : mXtra[XtraField[i]] = mItems[i]
    /\ daemon.answered => \A f \in XtraFields \ {"xtrathrottle"} : daemon.view[f] = mXtra[f]

(* When no message is left, the network types stored are the ones reported *)
(* as connected: a network that is lost takes away its own type and no     *)
(* other.  Only a type whose loss is the first report of all is stored as  *)
(* if it were connected, as collate is not called for the first entry.     *)
ConnectionsCurrent == (osQueue = <<>> /\ mItems["NETWORKINFO"] # NoItem) =>
    /\ connected \subseteq mItems["NETWORKINFO"]
    /\ mItems["NETWORKINFO"] \subseteq connected \cup phantom

=============================================================================
