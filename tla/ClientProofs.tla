---------------------------- MODULE ClientProofs ----------------------------
(***************************************************************************)
(* Theorems about the components that serve clients: the data items of the *)
(* operating system (OsObserver), for any observers, networks and values.  *)
(*                                                                         *)
(* What a reader is told is in three places at once: what it holds, the    *)
(* messages on their way to it, and what SystemStatus stored.  The         *)
(* invariants follow the first through the second to the third: Leads      *)
(* says what handling the queued messages in their order makes of a value. *)
(***************************************************************************)
EXTENDS OsObserver, ApiClient, ReportProofs, FiniteSetTheorems

-----------------------------------------------------------------------------
(* What a message makes of the value v of XTRA's field for the item t, or, *)
(* when t is "stored", of the network types SystemStatus stores.           *)
After(t, v, m) ==
  IF t = "stored"
    THEN IF m.type = "notify" /\ "NETWORKINFO" \in DOMAIN m.items
           THEN collate(m.items["NETWORKINFO"], v) ELSE v
    ELSE IF m.type = "osUpdate" /\ t \in DOMAIN m.items THEN m.items[t] ELSE v

Leads(t, q, v, w) ==
  \E c : /\ c[0] = v /\ c[Len(q)] = w
         /\ \A k \in 1..Len(q) : c[k] = After(t, c[k - 1], q[k])

LEMMA LeadsNowhere ==
  ASSUME NEW t, NEW v, NEW w
  PROVE  Leads(t, <<>>, v, w) <=> v = w
  <1>1. Len(<<>>) = 0
    OBVIOUS
  <1>2. ASSUME v = w
        PROVE  Leads(t, <<>>, v, w)
    <2>1. PICK c : c = [k \in 0..0 |-> v]
      OBVIOUS
    <2>2. c[0] = v
      BY <2>1
    <2>3. \A k \in 1..0 : c[k] = After(t, c[k - 1], <<>>[k])
      OBVIOUS
    <2> QED BY <1>1, <1>2, <2>2, <2>3 DEF Leads
  <1> QED BY <1>1, <1>2 DEF Leads

LEMMA LeadsOn ==
  ASSUME NEW t, NEW q, IsSeq(q), NEW v, NEW w, NEW m, Leads(t, q, v, w)
  PROVE  IsSeq(Append(q, m)) /\ Leads(t, Append(q, m), v, After(t, w, m))
  <1>1. PICK r : r = Append(q, m)
    OBVIOUS
  <1>2. /\ Len(q) \in Nat /\ DOMAIN r = 1..(Len(q) + 1) /\ Len(r) = Len(q) + 1 /\ IsSeq(r)
        /\ \A i \in 1..Len(q) : r[i] = q[i]
        /\ r[Len(q) + 1] = m
    BY <1>1, MixedAppend
  <1>3. PICK c : /\ c[0] = v /\ c[Len(q)] = w
                 /\ \A k \in 1..Len(q) : c[k] = After(t, c[k - 1], q[k])
    BY DEF Leads
  <1>4. PICK e : e = After(t, w, m)
    OBVIOUS
  <1>5. PICK d : d = [k \in 0..(Len(q) + 1) |-> IF k = Len(q) + 1 THEN e ELSE c[k]]
    OBVIOUS
  <1>6. d[Len(q) + 1] = e /\ \A k \in 0..Len(q) : d[k] = c[k]
    BY <1>2, <1>5
  <1>7. ASSUME NEW k \in 1..(Len(q) + 1)
        PROVE  d[k] = After(t, d[k - 1], r[k])
    <2>1. CASE k = Len(q) + 1
      <3>1. k - 1 = Len(q) /\ Len(q) \in 0..Len(q)
        BY <1>2, <2>1
      <3> QED BY <1>2, <1>3, <1>4, <1>6, <2>1, <3>1
    <2>2. CASE k # Len(q) + 1
      <3>1. k \in 1..Len(q) /\ k \in 0..Len(q) /\ k - 1 \in 0..Len(q)
        BY <1>2, <2>2
      <3> QED BY <1>2, <1>3, <1>6, <3>1
    <2> QED BY <2>1, <2>2
  <1>8. d[0] = v
    BY <1>2, <1>3, <1>6
  <1> QED BY <1>1, <1>2, <1>4, <1>6, <1>7, <1>8 DEF Leads

LEMMA LeadsFrom ==
  ASSUME NEW t, NEW q, IsSeq(q), q # <<>>, NEW v, NEW w, Leads(t, q, v, w)
  PROVE  IsSeq(Tail(q)) /\ Leads(t, Tail(q), After(t, v, Head(q)), w)
  <1>1. PICK r : r = Tail(q)
    OBVIOUS
  <1>2. /\ Len(q) \in Nat \ {0} /\ DOMAIN r = 1..(Len(q) - 1) /\ Len(r) = Len(q) - 1 /\ IsSeq(r)
        /\ \A i \in 1..(Len(q) - 1) : r[i] = q[i + 1]
        /\ Head(q) = q[1]
    BY <1>1, MixedTail
  <1>3. PICK c : /\ c[0] = v /\ c[Len(q)] = w
                 /\ \A k \in 1..Len(q) : c[k] = After(t, c[k - 1], q[k])
    BY DEF Leads
  <1>4. PICK n \in Nat : n = Len(q) - 1
    BY <1>2
  <1>5. PICK d : d = [k \in 0..n |-> c[k + 1]]
    OBVIOUS
  <1>6. \A k \in 0..n : d[k] = c[k + 1]
    BY <1>4, <1>5
  <1>7. d[0] = After(t, v, Head(q)) /\ d[n] = w
    <2>1. 0 \in 0..n /\ n \in 0..n /\ 1 \in 1..Len(q) /\ n + 1 = Len(q) /\ 0 + 1 = 1 /\ 1 - 1 = 0
      BY <1>2, <1>4
    <2> QED BY <1>2, <1>3, <1>6, <2>1
  <1>8. ASSUME NEW k \in 1..n
        PROVE  d[k] = After(t, d[k - 1], r[k])
    <2>1. /\ k \in 0..n /\ k - 1 \in 0..n /\ k + 1 \in 1..Len(q) /\ k \in 1..(Len(q) - 1)
          /\ (k - 1) + 1 = k /\ (k + 1) - 1 = k
      BY <1>2, <1>4
    <2>2. d[k] = c[k + 1] /\ d[k - 1] = c[k] /\ r[k] = q[k + 1]
      <3>1. d[k - 1] = c[(k - 1) + 1]
        BY <1>6, <2>1
      <3> QED BY <1>2, <1>6, <2>1, <3>1
    <2>3. c[k + 1] = After(t, c[(k + 1) - 1], q[k + 1])
      BY <1>3, <2>1
    <2> QED BY <2>1, <2>2, <2>3
  <1> QED BY <1>1, <1>2, <1>4, <1>6, <1>7, <1>8 DEF Leads

-----------------------------------------------------------------------------
(* The messages on the queue.                                              *)
Subscription == {"subscribe", "updateSubscription", "unsubscribe", "unsubscribeAll"}

OsMsgOK(m) ==
  /\ m.type \in Subscription \cup {"notify", "setSubs", "osUpdate", "field", "request"}
  /\ m.type \in Subscription =>
       /\ m.client \in AllClients /\ m.items \subseteq DataItemIds
       /\ m.type # "subscribe" => m.client # XtraClient
       /\ m = [type |-> m.type, client |-> m.client, items |-> m.items]
  /\ m.type = "notify" =>
       /\ DOMAIN m.items \subseteq DataItemIds
       /\ \A i \in DOMAIN m.items :
            IF i = "NETWORKINFO"
              THEN m.items[i].types \subseteq NetworkTypes /\ m.items[i].connected \in BOOLEAN
              ELSE m.items[i] \in ItemValues
  /\ m.type = "osUpdate" => DOMAIN m.items \subseteq DataItemIds
  /\ m.type = "field" => m.field \in {"gpslock", "xtrathrottle"}
  /\ m.type = "request" => m.xtraStatusUpdated \in BOOLEAN

OsQueueOK == IsSeq(osQueue) /\ \A k \in DOMAIN osQueue : OsMsgOK(osQueue[k])

(* Messages that matter later: XTRA's subscriptions, reports of a network, *)
(* and requests of a daemon that was (TRUE) or was not (FALSE) answered.   *)
XtraSubscribes(m, i) == m.type = "subscribe" /\ m.client = XtraClient /\ i \in m.items
SubscribeWaits(q, i) == \E k \in DOMAIN q : XtraSubscribes(q[k], i)

ReportsNetwork(m) == m.type = "notify" /\ "NETWORKINFO" \in DOMAIN m.items
NetworkWaits(q) == \E k \in DOMAIN q : ReportsNetwork(q[k])

Asks(m, again) == m.type = "request" /\ m.xtraStatusUpdated = again
FirstAskWaits(q) == \E k \in DOMAIN q : Asks(q[k], FALSE)
AskedAfter(q) ==
  \A k \in DOMAIN q : Asks(q[k], TRUE) => \E j \in DOMAIN q : j > k /\ Asks(q[j], FALSE)
IsRequest(m) == m.type = "request"
RequestWaits(q) == \E k \in DOMAIN q : IsRequest(q[k])

LEMMA OsAppended ==
  ASSUME NEW q, IsSeq(q), \A k \in DOMAIN q : OsMsgOK(q[k]), NEW m, OsMsgOK(m)
  PROVE  /\ IsSeq(Append(q, m)) /\ \A k \in DOMAIN Append(q, m) : OsMsgOK(Append(q, m)[k])
         /\ \A i : SubscribeWaits(q, i) => SubscribeWaits(Append(q, m), i)
         /\ NetworkWaits(Append(q, m)) <=> NetworkWaits(q) \/ ReportsNetwork(m)
         /\ FirstAskWaits(Append(q, m)) <=> FirstAskWaits(q) \/ Asks(m, FALSE)
         /\ AskedAfter(q) /\ ~Asks(m, TRUE) => AskedAfter(Append(q, m))
         /\ Asks(m, FALSE) => AskedAfter(Append(q, m))
         /\ RequestWaits(Append(q, m)) <=> RequestWaits(q) \/ IsRequest(m)
  <1>1. PICK r : r = Append(q, m)
    OBVIOUS
  <1>2. PICK n \in Nat : n = Len(q)
    BY MixedAppend
  <1>3. /\ DOMAIN q = 1..n /\ DOMAIN r = 1..(n + 1) /\ IsSeq(r)
        /\ \A k \in 1..n : r[k] = q[k]
        /\ r[n + 1] = m
    BY <1>1, <1>2, MixedAppend
  <1>4. \A k \in 1..(n + 1) : k \in 1..n \/ k = n + 1
    OBVIOUS
  <1>5. (\A k \in 1..n : k \in 1..(n + 1) /\ n + 1 > k) /\ n + 1 \in 1..(n + 1)
    OBVIOUS
  <1>6. \A k \in DOMAIN r : OsMsgOK(r[k])
    BY <1>3, <1>4
  <1>7. \A i : SubscribeWaits(q, i) => SubscribeWaits(r, i)
    BY <1>3, <1>5 DEF SubscribeWaits
  <1>8. NetworkWaits(r) <=> NetworkWaits(q) \/ ReportsNetwork(m)
    BY <1>3, <1>4, <1>5 DEF NetworkWaits
  <1>9. FirstAskWaits(r) <=> FirstAskWaits(q) \/ Asks(m, FALSE)
    BY <1>3, <1>4, <1>5 DEF FirstAskWaits
  <1>10. RequestWaits(r) <=> RequestWaits(q) \/ IsRequest(m)
    BY <1>3, <1>4, <1>5 DEF RequestWaits
  <1>11. ASSUME AskedAfter(q), ~Asks(m, TRUE)
         PROVE  AskedAfter(r)
    BY <1>3, <1>4, <1>5, <1>11 DEF AskedAfter
  <1>12. ASSUME Asks(m, FALSE)
         PROVE  AskedAfter(r)
    <2>1. ~Asks(m, TRUE)
      BY <1>12 DEF Asks
    <2> QED BY <1>3, <1>4, <1>5, <1>12, <2>1 DEF AskedAfter
  <1> QED BY <1>1, <1>3, <1>6, <1>7, <1>8, <1>9, <1>10, <1>11, <1>12

LEMMA OsTaken ==
  ASSUME NEW q, IsSeq(q), q # <<>>, \A k \in DOMAIN q : OsMsgOK(q[k])
  PROVE  /\ OsMsgOK(Head(q))
         /\ IsSeq(Tail(q)) /\ \A k \in DOMAIN Tail(q) : OsMsgOK(Tail(q)[k])
         /\ \A i : SubscribeWaits(q, i) => SubscribeWaits(Tail(q), i) \/ XtraSubscribes(Head(q), i)
         /\ NetworkWaits(q) <=> NetworkWaits(Tail(q)) \/ ReportsNetwork(Head(q))
         /\ FirstAskWaits(q) <=> FirstAskWaits(Tail(q)) \/ Asks(Head(q), FALSE)
         /\ AskedAfter(q) => AskedAfter(Tail(q)) /\ (Asks(Head(q), TRUE) => FirstAskWaits(Tail(q)))
         /\ RequestWaits(q) <=> RequestWaits(Tail(q)) \/ IsRequest(Head(q))
  <1>1. PICK r : r = Tail(q)
    OBVIOUS
  <1>2. PICK n \in Nat : n = Len(q) - 1
    <2>1. Len(q) \in Nat \ {0}
      BY MixedTail
    <2> QED BY <2>1
  <1>3. PICK h : h = Head(q)
    OBVIOUS
  <1>4. /\ DOMAIN q = 1..(n + 1) /\ DOMAIN r = 1..n /\ IsSeq(r)
        /\ \A k \in 1..n : r[k] = q[k + 1]
        /\ q[1] = h
    <2>1. Len(q) = n + 1 /\ Len(q) - 1 = n
      BY <1>2, MixedTail
    <2> QED BY <1>1, <1>3, <2>1, MixedTail
  <1>5. \A k \in 1..n : k + 1 \in 1..(n + 1)
    OBVIOUS
  <1>6. \A k \in 1..(n + 1) : k = 1 \/ \E j \in 1..n : k = j + 1
    <2>1. ASSUME NEW k \in 1..(n + 1), k # 1
          PROVE  k - 1 \in 1..n /\ k = (k - 1) + 1
      BY <2>1
    <2> QED BY <2>1
  <1>7. 1 \in 1..(n + 1)
    OBVIOUS
  <1>8. OsMsgOK(h) /\ \A k \in DOMAIN r : OsMsgOK(r[k])
    BY <1>4, <1>5, <1>7
  <1>9. \A i : SubscribeWaits(q, i) => SubscribeWaits(r, i) \/ XtraSubscribes(h, i)
    BY <1>4, <1>5, <1>6 DEF SubscribeWaits
  <1>10. NetworkWaits(q) <=> NetworkWaits(r) \/ ReportsNetwork(h)
    BY <1>4, <1>5, <1>6, <1>7 DEF NetworkWaits
  <1>11. FirstAskWaits(q) <=> FirstAskWaits(r) \/ Asks(h, FALSE)
    BY <1>4, <1>5, <1>6, <1>7 DEF FirstAskWaits
  <1>12. RequestWaits(q) <=> RequestWaits(r) \/ IsRequest(h)
    BY <1>4, <1>5, <1>6, <1>7 DEF RequestWaits
  <1>13. ASSUME AskedAfter(q)
         PROVE  AskedAfter(r)
    <2>1. ASSUME NEW k \in 1..n, Asks(r[k], TRUE)
          PROVE  \E j \in 1..n : j > k /\ Asks(r[j], FALSE)
      <3>1. Asks(q[k + 1], TRUE) /\ k + 1 \in 1..(n + 1)
        BY <1>4, <1>5, <2>1
      <3>2. PICK l \in 1..(n + 1) : l > k + 1 /\ Asks(q[l], FALSE)
        BY <1>4, <1>13, <3>1 DEF AskedAfter
      <3>3. PICK j \in 1..n : l = j + 1
        BY <1>6, <3>2
      <3>4. j > k
        BY <3>2, <3>3
      <3> QED BY <1>4, <3>2, <3>3, <3>4
    <2> QED BY <1>4, <2>1 DEF AskedAfter
  <1>14. ASSUME AskedAfter(q), Asks(h, TRUE)
         PROVE  FirstAskWaits(r)
    <2>1. ~Asks(h, FALSE) /\ FirstAskWaits(q)
      BY <1>4, <1>7, <1>14 DEF AskedAfter, FirstAskWaits, Asks
    <2> QED BY <1>11, <2>1
  <1> QED BY <1>1, <1>3, <1>4, <1>8, <1>9, <1>10, <1>11, <1>12, <1>13, <1>14

(* Every handler takes a message and may send one to XTRA's observer with  *)
(* the cached items it is told.                                            *)
SendsTo(told, cache) ==
  osQueue' = IF told = {} THEN Tail(osQueue)
             ELSE Append(Tail(osQueue), [type |-> "osUpdate", items |-> [i \in told |-> cache[i]]])

LEMMA QueueSent ==
  ASSUME OsQueueOK, osQueue # <<>>, NEW told \in SUBSET DataItemIds, NEW cache, SendsTo(told, cache)
  PROVE  /\ OsQueueOK' /\ OsMsgOK(Head(osQueue))
         /\ \A i : SubscribeWaits(osQueue, i) =>
                     SubscribeWaits(osQueue', i) \/ XtraSubscribes(Head(osQueue), i)
         /\ NetworkWaits(osQueue) <=> NetworkWaits(osQueue') \/ ReportsNetwork(Head(osQueue))
         /\ FirstAskWaits(osQueue) <=> FirstAskWaits(osQueue') \/ Asks(Head(osQueue), FALSE)
         /\ AskedAfter(osQueue) =>
              AskedAfter(osQueue') /\ (Asks(Head(osQueue), TRUE) => FirstAskWaits(osQueue'))
         /\ RequestWaits(osQueue) <=> RequestWaits(osQueue') \/ IsRequest(Head(osQueue))
  <1>1. PICK r : r = Tail(osQueue)
    OBVIOUS
  <1>2. PICK m : m = [type |-> "osUpdate", items |-> [i \in told |-> cache[i]]]
    OBVIOUS
  <1>3. m.type = "osUpdate" /\ DOMAIN m.items = told
    BY <1>2
  <1>4. OsMsgOK(m)
    BY <1>3 DEF OsMsgOK, Subscription
  <1>5. ~ReportsNetwork(m) /\ ~IsRequest(m) /\ \A b : ~Asks(m, b)
    BY <1>3 DEF ReportsNetwork, Asks, IsRequest
  <1>6. CASE told = {}
    <2>1. osQueue' = r
      BY <1>1, <1>6 DEF SendsTo
    <2> QED BY <1>1, <2>1, OsTaken DEF OsQueueOK
  <1>7. CASE told # {}
    <2>1. osQueue' = Append(r, m)
      BY <1>1, <1>2, <1>7 DEF SendsTo
    <2>2. IsSeq(r) /\ \A k \in DOMAIN r : OsMsgOK(r[k])
      BY <1>1, OsTaken DEF OsQueueOK
    <2> QED BY <1>1, <1>3, <1>4, <1>5, <2>1, <2>2, OsTaken, OsAppended DEF OsQueueOK
  <1> QED BY <1>6, <1>7

LEMMA LeadsSent ==
  ASSUME OsQueueOK, osQueue # <<>>, NEW told \in SUBSET DataItemIds, NEW cache, SendsTo(told, cache),
         NEW t, NEW v, NEW w, Leads(t, osQueue, v, w)
  PROVE  Leads(t, osQueue', After(t, v, Head(osQueue)), IF t \in told THEN cache[t] ELSE w)
  <1>1. PICK r : r = Tail(osQueue)
    OBVIOUS
  <1>2. PICK m : m = [type |-> "osUpdate", items |-> [i \in told |-> cache[i]]]
    OBVIOUS
  <1>3. m.type = "osUpdate" /\ DOMAIN m.items = told /\ \A i \in told : m.items[i] = cache[i]
    BY <1>2
  <1>4. PICK u : u = After(t, v, Head(osQueue))
    OBVIOUS
  <1>5. IsSeq(r) /\ Leads(t, r, u, w)
    BY <1>1, <1>4, LeadsFrom DEF OsQueueOK
  <1>6. After(t, w, m) = IF t \in told THEN cache[t] ELSE w
    <2>1. "stored" \notin told
      BY DEF DataItemIds
    <2> QED BY <1>3, <2>1 DEF After
  <1>7. CASE told = {}
    BY <1>1, <1>4, <1>5, <1>7 DEF SendsTo
  <1>8. CASE told # {}
    <2>1. osQueue' = Append(r, m)
      BY <1>1, <1>2, <1>8 DEF SendsTo
    <2> QED BY <1>4, <1>5, <1>6, <2>1, LeadsOn
  <1> QED BY <1>7, <1>8

LEMMA HandledNothing ==
  ASSUME OsQueueOK, osQueue # <<>>, Handled(<<>>), NEW cache
  PROVE  SendsTo({}, cache)
  <1>1. PICK S : Tail(osQueue) \in Seq(S)
    BY OsTaken DEF OsQueueOK, IsSeq
  <1>2. Tail(osQueue) \o <<>> = Tail(osQueue)
    BY <1>1
  <1> QED BY <1>2 DEF Handled, SendsTo

Told(items, cache) == {i \in items : cache[i] # NoItem}

LEMMA CachedSent ==
  ASSUME OsQueueOK, osQueue # <<>>, NEW items, NEW cache, sendCachedDataItems(items, cache)
  PROVE  /\ SendsTo(Told(items[XtraClient], cache), cache)
         /\ \A c \in OsClients : \A i \in DataItemIds :
              heard'[c][i] = IF i \in items[c] /\ cache[i] # NoItem THEN cache[i] ELSE heard[c][i]
  <1>1. PICK told : told = Told(items[XtraClient], cache)
    OBVIOUS
  <1>2. PICK m : m = [type |-> "osUpdate", items |-> [i \in told |-> cache[i]]]
    OBVIOUS
  <1>3. osQueue' = Tail(osQueue) \o (IF told = {} THEN <<>> ELSE <<m>>)
    BY <1>1, <1>2 DEF sendCachedDataItems, Handled, Told
  <1>4. PICK S : Tail(osQueue) \in Seq(S)
    BY OsTaken DEF OsQueueOK, IsSeq
  <1>5. Tail(osQueue) \o <<>> = Tail(osQueue)
    BY <1>4
  <1>6. Tail(osQueue) \o <<m>> = Append(Tail(osQueue), m)
    <2>1. Tail(osQueue) \in Seq(S \cup {m}) /\ m \in S \cup {m}
      BY <1>4
    <2> QED BY <2>1
  <1>7. SendsTo(told, cache)
    BY <1>2, <1>3, <1>5, <1>6 DEF SendsTo
  <1>8. \A c \in OsClients : \A i \in DataItemIds :
          heard'[c][i] = IF i \in items[c] /\ cache[i] # NoItem THEN cache[i] ELSE heard[c][i]
    BY DEF sendCachedDataItems
  <1> QED BY <1>1, <1>7, <1>8

-----------------------------------------------------------------------------
(* The invariants.                                                         *)
OsTypes ==
  /\ mClientToDataItems \in [AllClients -> SUBSET DataItemIds]
  /\ mDataItemToClients \in [DataItemIds -> SUBSET AllClients]
  /\ DOMAIN mXtra = XtraFields /\ updated \subseteq OsClients
  /\ mSubscriptionObj \in BOOLEAN

(* Subscriptions: the agent was asked for every item somebody subscribed   *)
(* to, and a client that is subscribed was told what is stored.            *)
SubInv ==
  /\ mDataItemCache = mItems
  /\ mSubscriptionObj => Keys(mDataItemToClients) \subseteq agent
  /\ \A c \in OsClients : \A i \in DataItemIds :
       /\ c \notin updated /\ i \in mClientToDataItems[c] =>
            c \in mDataItemToClients[i] /\ heard[c][i] = mItems[i]
       /\ mItems[i] = NoItem => heard[c][i] = NoItem

(* XTRA's observer: before its subscription is handled nothing was sent to *)
(* it; after, what is on its way brings its field to what is stored.       *)
XtraItem(i) ==
  \/ /\ SubscribeWaits(osQueue, i) /\ i \notin mClientToDataItems[XtraClient]
     /\ Leads(i, osQueue, mXtra[XtraField[i]], NoItem)
  \/ /\ i \in mClientToDataItems[XtraClient] /\ XtraClient \in mDataItemToClients[i]
     /\ Leads(i, osQueue, mXtra[XtraField[i]], mItems[i])

XtraInv == \A i \in DataItemIds : XtraItem(i)

(* The daemon: one that was answered has XTRA's view or a request that     *)
(* brings it is waiting; one that was not answered is not taken for one    *)
(* that was, because its own first request is behind any older one.        *)
Agrees == \A f \in XtraFields \ {"xtrathrottle"} : daemon.view[f] = mXtra[f]

DaemonInv ==
  /\ \E v : daemon = [up |-> daemon.up, answered |-> daemon.answered, view |-> v]
  /\ DOMAIN daemon.view = XtraFields
  /\ {daemon.up, daemon.answered, mReqStatusReceived, mListening} \subseteq BOOLEAN
  /\ RequestWaits(osQueue) => mListening
  /\ daemon.answered => daemon.up /\ mReqStatusReceived
  /\ daemon.answered => Agrees \/ FirstAskWaits(osQueue)
  /\ daemon.up /\ ~daemon.answered => AskedAfter(osQueue)

(* Networks: the reports on their way bring the types stored to the types  *)
(* reported as connected, give or take a type whose loss came first.       *)
Networks(w) ==
  IF w = NoItem
    THEN connected = {} /\ mItems["NETWORKINFO"] = NoItem /\ ~NetworkWaits(osQueue)
    ELSE w \subseteq NetworkTypes /\ connected \subseteq w /\ w \subseteq connected \cup phantom

NetworkInv ==
  /\ mItems["NETWORKINFO"] \in {NoItem} \cup SUBSET NetworkTypes
  /\ DOMAIN mItems = DataItemIds
  /\ \E w : Leads("stored", osQueue, mItems["NETWORKINFO"], w) /\ Networks(w)

OsInv == OsQueueOK /\ OsTypes /\ SubInv /\ XtraInv /\ DaemonInv /\ NetworkInv

-----------------------------------------------------------------------------
(* Handlers that leave a component alone.                                  *)
LEMMA XtraKept ==
  ASSUME OsInv, osQueue # <<>>, NEW cache, SendsTo({}, cache), UNCHANGED mItems,
         UNCHANGED mClientToDataItems[XtraClient],
         \A i \in DataItemIds :
           /\ ~XtraSubscribes(Head(osQueue), i)
           /\ XtraClient \in mDataItemToClients[i] => XtraClient \in mDataItemToClients'[i]
           /\ mXtra'[XtraField[i]] = After(i, mXtra[XtraField[i]], Head(osQueue))
  PROVE  XtraInv'
  <1> SUFFICES ASSUME NEW i \in DataItemIds
               PROVE  XtraItem(i)'
    BY DEF XtraInv
  <1>1. PICK f : f = XtraField[i]
    OBVIOUS
  <1>2. \A w : Leads(i, osQueue, mXtra[f], w) => Leads(i, osQueue', mXtra'[f], w)
    <2>1. ASSUME NEW w, Leads(i, osQueue, mXtra[f], w)
          PROVE  Leads(i, osQueue', mXtra'[f], w)
      <3>1. Leads(i, osQueue', After(i, mXtra[f], Head(osQueue)), w)
        BY <2>1, LeadsSent DEF OsInv
      <3> QED BY <1>1, <3>1
    <2> QED BY <2>1
  <1>3. SubscribeWaits(osQueue, i) => SubscribeWaits(osQueue', i)
    BY QueueSent DEF OsInv
  <1> QED BY <1>1, <1>2, <1>3 DEF OsInv, XtraInv, XtraItem

LEMMA NetworkKept ==
  ASSUME OsInv, osQueue # <<>>, NEW told \in SUBSET DataItemIds, NEW cache, SendsTo(told, cache),
         UNCHANGED <<connected, phantom, mItems>>, ~ReportsNetwork(Head(osQueue))
  PROVE  NetworkInv'
  <1>1. PICK w : Leads("stored", osQueue, mItems["NETWORKINFO"], w) /\ Networks(w)
    BY DEF OsInv, NetworkInv
  <1>2. After("stored", mItems["NETWORKINFO"], Head(osQueue)) = mItems["NETWORKINFO"]
    BY DEF After, ReportsNetwork
  <1>3. "stored" \notin told
    BY DEF DataItemIds
  <1>4. Leads("stored", osQueue', mItems'["NETWORKINFO"], w)
    BY <1>1, <1>2, <1>3, LeadsSent DEF OsInv
  <1>5. Networks(w)'
    BY <1>1, QueueSent DEF Networks, OsInv
  <1> QED BY <1>4, <1>5 DEF OsInv, NetworkInv

LEMMA DaemonKept ==
  ASSUME OsInv, osQueue # <<>>, NEW told \in SUBSET DataItemIds, NEW cache, SendsTo(told, cache),
         UNCHANGED daemonVars, ~IsRequest(Head(osQueue))
  PROVE  DaemonInv'
  <1>1. \A b \in BOOLEAN : ~Asks(Head(osQueue), b)
    BY DEF Asks, IsRequest
  <1>2. /\ RequestWaits(osQueue') => RequestWaits(osQueue)
        /\ FirstAskWaits(osQueue) => FirstAskWaits(osQueue')
        /\ AskedAfter(osQueue) => AskedAfter(osQueue')
    BY <1>1, QueueSent DEF OsInv
  <1>3. UNCHANGED <<mXtra, mReqStatusReceived, mListening, daemon>>
    BY DEF daemonVars
  <1>4. Agrees' <=> Agrees
    BY <1>3 DEF Agrees
  <1> QED BY <1>2, <1>3, <1>4 DEF OsInv, DaemonInv

-----------------------------------------------------------------------------
(* The handlers of subscriptions.                                          *)
LEMMA SubscribeStep ==
  ASSUME OsInv, osQueue # <<>>, NEW m, m = Head(osQueue), m.type = "subscribe",
         HandleSubscribeReq(m), UNCHANGED <<connected, phantom>>
  PROVE  OsInv'
  <1>1. PICK c \in AllClients, items \in SUBSET DataItemIds : c = m.client /\ items = m.items
    BY QueueSent, OsTaken DEF OsInv, OsQueueOK, OsMsgOK, Subscription
  <1>2. /\ mDataItemToClients' = add(mDataItemToClients, items, {c})
        /\ mClientToDataItems' = add(mClientToDataItems, {c}, items)
        /\ sendCachedDataItems(OnlyTo(c, items), mDataItemCache)
        /\ TellAgent(items \ Keys(mDataItemToClients), {})
        /\ UNCHANGED <<mSubscriptionObj, updated, mItems, mDataItemCache>> /\ UNCHANGED daemonVars
    BY <1>1 DEF HandleSubscribeReq, cacheVars
  <1>3. XtraClient \in AllClients /\ OsClients \subseteq AllClients
    BY DEF AllClients
  <1>4. PICK told \in SUBSET DataItemIds :
          /\ told = Told(OnlyTo(c, items)[XtraClient], mDataItemCache)
          /\ SendsTo(told, mDataItemCache)
          /\ \A d \in OsClients : \A i \in DataItemIds :
               heard'[d][i] = IF i \in OnlyTo(c, items)[d] /\ mDataItemCache[i] # NoItem
                                THEN mDataItemCache[i] ELSE heard[d][i]
    <2>1. Told(OnlyTo(c, items)[XtraClient], mDataItemCache) \subseteq DataItemIds
      BY <1>1, <1>3 DEF Told, OnlyTo
    <2> QED BY <1>2, <2>1, CachedSent DEF OsInv
  <1>5. /\ \A d \in AllClients : mClientToDataItems'[d] =
             IF d = c THEN mClientToDataItems[d] \cup items ELSE mClientToDataItems[d]
        /\ \A i \in DataItemIds : mDataItemToClients'[i] =
             IF i \in items THEN mDataItemToClients[i] \cup {c} ELSE mDataItemToClients[i]
    BY <1>2 DEF add, OsInv, OsTypes
  <1>6. OsTypes'
    <2>1. mClientToDataItems' \in [AllClients -> SUBSET DataItemIds]
      BY <1>1, <1>2 DEF add, OsInv, OsTypes
    <2>2. mDataItemToClients' \in [DataItemIds -> SUBSET AllClients]
      BY <1>1, <1>2 DEF add, OsInv, OsTypes
    <2> QED BY <1>2, <2>1, <2>2 DEF OsInv, OsTypes, daemonVars
  <1>7. SubInv'
    <2>1. mSubscriptionObj' => Keys(mDataItemToClients)' \subseteq agent'
      <3>1. Keys(mDataItemToClients)' = Keys(mDataItemToClients) \cup items
        <4>1. DOMAIN mDataItemToClients' = DataItemIds /\ DOMAIN mDataItemToClients = DataItemIds
          BY <1>6 DEF OsInv, OsTypes
        <4> QED BY <1>1, <1>5, <4>1 DEF Keys
      <3> QED BY <1>2, <3>1 DEF OsInv, SubInv, TellAgent
    <2>2. ASSUME NEW d \in OsClients, NEW i \in DataItemIds
          PROVE  /\ d \notin updated' /\ i \in mClientToDataItems'[d] =>
                      d \in mDataItemToClients'[i] /\ heard'[d][i] = mItems'[i]
                 /\ mItems'[i] = NoItem => heard'[d][i] = NoItem
      <3>1. OnlyTo(c, items)[d] = IF d = c THEN items ELSE {}
        BY <1>3 DEF OnlyTo
      <3>2. mDataItemCache = mItems /\ mItems' = mItems /\ updated' = updated
        BY <1>2 DEF OsInv, SubInv
      <3>3. heard'[d][i] = IF d = c /\ i \in items /\ mItems[i] # NoItem THEN mItems[i] ELSE heard[d][i]
        BY <1>4, <3>1, <3>2
      <3>4. mItems[i] = NoItem => heard[d][i] = NoItem
        BY DEF OsInv, SubInv
      <3>5. d \notin updated /\ i \in mClientToDataItems[d] =>
              d \in mDataItemToClients[i] /\ heard[d][i] = mItems[i]
        BY DEF OsInv, SubInv
      <3> QED BY <1>3, <1>5, <3>2, <3>3, <3>4, <3>5
    <2> QED BY <1>2, <2>1, <2>2 DEF OsInv, SubInv
  <1>8. XtraInv'
    <2> SUFFICES ASSUME NEW i \in DataItemIds
                 PROVE  XtraItem(i)'
      BY DEF XtraInv
    <2>1. PICK f : f = XtraField[i]
      OBVIOUS
    <2>2. mXtra' = mXtra /\ mItems' = mItems /\ mDataItemCache = mItems
      BY <1>2 DEF daemonVars, OsInv, SubInv
    <2>3. After(i, mXtra[f], Head(osQueue)) = mXtra[f]
      BY DEF After, DataItemIds
    <2>4. \A w : Leads(i, osQueue, mXtra[f], w) =>
                   Leads(i, osQueue', mXtra'[f], IF i \in told THEN mItems[i] ELSE w)
      <3>1. ASSUME NEW w, Leads(i, osQueue, mXtra[f], w)
            PROVE  Leads(i, osQueue', mXtra'[f], IF i \in told THEN mItems[i] ELSE w)
        BY <1>4, <2>2, <2>3, <3>1, LeadsSent DEF OsInv
      <3> QED BY <3>1
    <2>5. i \in told <=> c = XtraClient /\ i \in items /\ mItems[i] # NoItem
      BY <1>3, <1>4, <2>2 DEF Told, OnlyTo
    <2>6. CASE c = XtraClient /\ i \in items
      <3>1. i \in mClientToDataItems'[XtraClient] /\ XtraClient \in mDataItemToClients'[i]
        BY <1>3, <1>5, <2>6
      <3>2. Leads(i, osQueue', mXtra'[f], mItems[i])
        BY <2>4, <2>5, <2>6, <2>1 DEF OsInv, XtraInv, XtraItem
      <3> QED BY <2>1, <2>2, <3>1, <3>2 DEF XtraItem
    <2>7. CASE ~(c = XtraClient /\ i \in items)
      <3>1. i \in mClientToDataItems'[XtraClient] <=> i \in mClientToDataItems[XtraClient]
        BY <1>3, <1>5, <2>7
      <3>2. XtraClient \in mDataItemToClients[i] => XtraClient \in mDataItemToClients'[i]
        BY <1>5
      <3>3. ~XtraSubscribes(Head(osQueue), i)
        BY <1>1, <2>7 DEF XtraSubscribes
      <3>4. SubscribeWaits(osQueue, i) => SubscribeWaits(osQueue', i)
        BY <1>4, <3>3, QueueSent DEF OsInv
      <3> QED BY <2>1, <2>2, <2>4, <2>5, <2>7, <3>1, <3>2, <3>4 DEF OsInv, XtraInv, XtraItem
    <2> QED BY <2>6, <2>7
  <1>9. DaemonInv'
    BY <1>2, <1>4, DaemonKept DEF IsRequest
  <1>10. NetworkInv'
    BY <1>2, <1>4, NetworkKept DEF ReportsNetwork
  <1>11. OsQueueOK'
    BY <1>4, QueueSent DEF OsInv
  <1> QED BY <1>6, <1>7, <1>8, <1>9, <1>10, <1>11 DEF OsInv

(* Unsubscribing, from some items or from all.                             *)
LEMMA UnsubscribeStep ==
  ASSUME OsInv, osQueue # <<>>, NEW m, Head(osQueue).type \in {"unsubscribe", "unsubscribeAll"},
         m.client \in OsClients, m.items \subseteq DataItemIds,
         HandleUnsubscribeReq(m), UNCHANGED <<connected, phantom>>
  PROVE  OsInv'
  <1>1. PICK c \in OsClients, items \in SUBSET DataItemIds : c = m.client /\ items = m.items
    OBVIOUS
  <1>2. PICK unused : unused = mClientToDataItems[c] \cap items
    OBVIOUS
  <1>3. /\ mClientToDataItems' = trimOrRemove(mClientToDataItems, {c}, items)
        /\ mDataItemToClients' = trimOrRemove(mDataItemToClients, unused, {c})
        /\ TellAgent({}, Keys(mDataItemToClients) \ Keys(mDataItemToClients'))
        /\ Handled(<<>>)
        /\ UNCHANGED <<mSubscriptionObj, updated, mItems, mDataItemCache, heard>>
        /\ UNCHANGED daemonVars
    BY <1>1, <1>2 DEF HandleUnsubscribeReq, cacheVars
  <1>4. /\ XtraClient \in AllClients /\ OsClients \subseteq AllClients /\ c # XtraClient
        /\ c \in AllClients
    BY <1>1, OsAssumption DEF AllClients
  <1>5. SendsTo({}, mDataItemCache)
    BY <1>3, HandledNothing DEF OsInv
  <1>6. /\ \A d \in AllClients : mClientToDataItems'[d] =
             IF d = c THEN mClientToDataItems[d] \ items ELSE mClientToDataItems[d]
        /\ \A i \in DataItemIds : mDataItemToClients'[i] =
             IF i \in unused THEN mDataItemToClients[i] \ {c} ELSE mDataItemToClients[i]
    BY <1>3 DEF trimOrRemove, OsInv, OsTypes
  <1>7. OsTypes'
    <2>1. mClientToDataItems' \in [AllClients -> SUBSET DataItemIds]
      BY <1>3 DEF trimOrRemove, OsInv, OsTypes
    <2>2. mDataItemToClients' \in [DataItemIds -> SUBSET AllClients]
      BY <1>3 DEF trimOrRemove, OsInv, OsTypes
    <2> QED BY <1>3, <2>1, <2>2 DEF OsInv, OsTypes, daemonVars
  <1>8. SubInv'
    <2>1. Keys(mDataItemToClients') \subseteq Keys(mDataItemToClients)
      <3>1. DOMAIN mDataItemToClients' = DataItemIds /\ DOMAIN mDataItemToClients = DataItemIds
        BY <1>7 DEF OsInv, OsTypes
      <3> QED BY <1>6, <3>1 DEF Keys
    <2>2. mSubscriptionObj' => Keys(mDataItemToClients') \subseteq agent'
      BY <1>3, <2>1 DEF OsInv, SubInv, TellAgent
    <2>3. ASSUME NEW d \in OsClients, NEW i \in DataItemIds
          PROVE  /\ d \notin updated' /\ i \in mClientToDataItems'[d] =>
                      d \in mDataItemToClients'[i] /\ heard'[d][i] = mItems'[i]
                 /\ mItems'[i] = NoItem => heard'[d][i] = NoItem
      <3>1. d \in AllClients
        BY <1>4
      <3>2. i \in mClientToDataItems'[d] =>
              i \in mClientToDataItems[d] /\ (d = c => i \notin unused)
        BY <1>2, <1>6, <3>1
      <3> QED BY <1>3, <1>6, <3>2 DEF OsInv, SubInv
    <2> QED BY <1>3, <2>2, <2>3 DEF OsInv, SubInv
  <1>9. XtraInv'
    <2>1. /\ mClientToDataItems'[XtraClient] = mClientToDataItems[XtraClient]
          /\ \A i \in DataItemIds :
               XtraClient \in mDataItemToClients[i] => XtraClient \in mDataItemToClients'[i]
      BY <1>4, <1>6
    <2>2. mXtra' = mXtra /\ mItems' = mItems
      BY <1>3 DEF daemonVars
    <2>3. \A i \in DataItemIds :
            /\ ~XtraSubscribes(Head(osQueue), i)
            /\ After(i, mXtra[XtraField[i]], Head(osQueue)) = mXtra[XtraField[i]]
      BY DEF XtraSubscribes, After, DataItemIds
    <2> QED BY <1>5, <2>1, <2>2, <2>3, XtraKept
  <1>10. DaemonInv'
    BY <1>3, <1>5, DaemonKept DEF IsRequest
  <1>11. NetworkInv'
    BY <1>3, <1>5, NetworkKept DEF ReportsNetwork
  <1>12. OsQueueOK'
    BY <1>5, QueueSent DEF OsInv
  <1> QED BY <1>7, <1>8, <1>9, <1>10, <1>11, <1>12 DEF OsInv

(* Replacing a subscription: the items a client keeps are trimmed and only *)
(* the others are added again.                                             *)
LEMMA UpdateSubscriptionStep ==
  ASSUME OsInv, osQueue # <<>>, NEW m, Head(osQueue).type = "updateSubscription",
         m.client \in OsClients, m.items \subseteq DataItemIds,
         HandleUpdateSubscriptionReq(m), UNCHANGED <<connected, phantom>>
  PROVE  OsInv'
  <1>1. PICK c \in OsClients, items \in SUBSET DataItemIds : c = m.client /\ items = m.items
    OBVIOUS
  <1>2. PICK gone : gone = mClientToDataItems[c] \cap items
    OBVIOUS
  <1>3. PICK fresh : fresh = items \ gone
    OBVIOUS
  <1>4. PICK trimmed : trimmed = trimOrRemove(mDataItemToClients, gone, {c})
    OBVIOUS
  <1>5. /\ mClientToDataItems' = [mClientToDataItems EXCEPT ![c] = items]
        /\ mDataItemToClients' = add(trimmed, fresh, {c})
        /\ TellAgent(fresh \ Keys(trimmed), Keys(mDataItemToClients) \ Keys(trimmed))
        /\ sendCachedDataItems(OnlyTo(c, fresh), mDataItemCache)
        /\ updated' = updated \cup {c}
        /\ UNCHANGED <<mSubscriptionObj, mItems, mDataItemCache>> /\ UNCHANGED daemonVars
    BY <1>1, <1>2, <1>3, <1>4
       DEF HandleUpdateSubscriptionReq, updateGone, removeAndReturnInterset, cacheVars
  <1>6. /\ XtraClient \in AllClients /\ OsClients \subseteq AllClients /\ c # XtraClient
        /\ c \in AllClients
    BY <1>1, OsAssumption DEF AllClients
  <1>7. /\ SendsTo({}, mDataItemCache)
        /\ \A d \in OsClients : \A i \in DataItemIds :
             heard'[d][i] = IF i \in OnlyTo(c, fresh)[d] /\ mDataItemCache[i] # NoItem
                              THEN mDataItemCache[i] ELSE heard[d][i]
    <2>1. Told(OnlyTo(c, fresh)[XtraClient], mDataItemCache) = {}
      BY <1>6 DEF Told, OnlyTo
    <2>2. PICK each : each = OnlyTo(c, fresh)
      OBVIOUS
    <2>3. /\ SendsTo(Told(each[XtraClient], mDataItemCache), mDataItemCache)
          /\ \A d \in OsClients : \A i \in DataItemIds :
               heard'[d][i] = IF i \in each[d] /\ mDataItemCache[i] # NoItem
                                THEN mDataItemCache[i] ELSE heard[d][i]
      BY <1>5, <2>2, CachedSent DEF OsInv
    <2> QED BY <2>1, <2>2, <2>3
  <1>8. /\ DOMAIN trimmed = DataItemIds
        /\ \A i \in DataItemIds : trimmed[i] =
             IF i \in gone THEN mDataItemToClients[i] \ {c} ELSE mDataItemToClients[i]
    BY <1>4 DEF trimOrRemove, OsInv, OsTypes
  <1>9. /\ DOMAIN mDataItemToClients' = DataItemIds
        /\ \A i \in DataItemIds : mDataItemToClients'[i] =
             IF i \in fresh THEN trimmed[i] \cup {c} ELSE trimmed[i]
        /\ \A d \in AllClients : mClientToDataItems'[d] =
             IF d = c THEN items ELSE mClientToDataItems[d]
    BY <1>5, <1>6, <1>8 DEF add, OsInv, OsTypes
  <1>10. OsTypes'
    <2>1. mClientToDataItems' \in [AllClients -> SUBSET DataItemIds]
      BY <1>1, <1>5, <1>6 DEF OsInv, OsTypes
    <2>2. trimmed \in [DataItemIds -> SUBSET AllClients]
      BY <1>4 DEF trimOrRemove, OsInv, OsTypes
    <2>3. mDataItemToClients' \in [DataItemIds -> SUBSET AllClients]
      BY <1>5, <1>6, <2>2 DEF add
    <2> QED BY <1>1, <1>5, <2>1, <2>3 DEF OsInv, OsTypes, daemonVars
  <1>11. SubInv'
    <2>1. mSubscriptionObj' => Keys(mDataItemToClients') \subseteq agent'
      <3>1. SUFFICES ASSUME mSubscriptionObj', NEW i \in Keys(mDataItemToClients')
                     PROVE  i \in agent'
        OBVIOUS
      <3>2. i \in DataItemIds /\ mDataItemToClients'[i] # {}
        BY <1>9, <3>1 DEF Keys
      <3>3. /\ i \in Keys(trimmed) <=> trimmed[i] # {}
            /\ i \in Keys(mDataItemToClients) <=> mDataItemToClients[i] # {}
        BY <1>8, <3>2 DEF Keys, OsInv, OsTypes
      <3>4. /\ agent' = (agent \cup (fresh \ Keys(trimmed)))
                          \ (Keys(mDataItemToClients) \ Keys(trimmed))
            /\ Keys(mDataItemToClients) \subseteq agent
        BY <1>5, <3>1 DEF TellAgent, OsInv, SubInv
      <3>5. CASE i \in Keys(trimmed)
        BY <1>8, <3>2, <3>3, <3>4, <3>5
      <3>6. CASE i \notin Keys(trimmed)
        <4>1. i \in fresh /\ i \notin gone
          BY <1>3, <1>9, <3>2, <3>3, <3>6
        <4> QED BY <1>8, <3>2, <3>3, <3>4, <3>6, <4>1
      <3> QED BY <3>5, <3>6
    <2>2. ASSUME NEW d \in OsClients, NEW i \in DataItemIds
          PROVE  /\ d \notin updated' /\ i \in mClientToDataItems'[d] =>
                      d \in mDataItemToClients'[i] /\ heard'[d][i] = mItems'[i]
                 /\ mItems'[i] = NoItem => heard'[d][i] = NoItem
      <3>1. d \in AllClients /\ OnlyTo(c, fresh)[d] = IF d = c THEN fresh ELSE {}
        BY <1>6 DEF OnlyTo
      <3>2. mDataItemCache = mItems /\ mItems' = mItems /\ (d \notin updated' => d # c /\ d \notin updated)
        BY <1>5 DEF OsInv, SubInv
      <3>3. heard'[d][i] = IF d = c /\ i \in fresh /\ mItems[i] # NoItem THEN mItems[i] ELSE heard[d][i]
        BY <1>7, <3>1, <3>2
      <3>4. mItems[i] = NoItem => heard[d][i] = NoItem
        BY DEF OsInv, SubInv
      <3>5. d \notin updated /\ i \in mClientToDataItems[d] =>
              d \in mDataItemToClients[i] /\ heard[d][i] = mItems[i]
        BY DEF OsInv, SubInv
      <3>6. d # c => mClientToDataItems'[d] = mClientToDataItems[d]
                     /\ (d \in mDataItemToClients[i] => d \in mDataItemToClients'[i])
        BY <1>8, <1>9, <3>1
      <3> QED BY <3>2, <3>3, <3>4, <3>5, <3>6
    <2> QED BY <1>5, <2>1, <2>2 DEF OsInv, SubInv
  <1>12. XtraInv'
    <2>1. /\ mClientToDataItems'[XtraClient] = mClientToDataItems[XtraClient]
          /\ \A i \in DataItemIds :
               XtraClient \in mDataItemToClients[i] => XtraClient \in mDataItemToClients'[i]
      BY <1>6, <1>8, <1>9
    <2>2. mXtra' = mXtra /\ mItems' = mItems
      BY <1>5 DEF daemonVars
    <2>3. \A i \in DataItemIds :
            /\ ~XtraSubscribes(Head(osQueue), i)
            /\ After(i, mXtra[XtraField[i]], Head(osQueue)) = mXtra[XtraField[i]]
      BY DEF XtraSubscribes, After, DataItemIds
    <2> QED BY <1>7, <2>1, <2>2, <2>3, XtraKept
  <1>13. DaemonInv'
    BY <1>5, <1>7, DaemonKept DEF IsRequest
  <1>14. NetworkInv'
    BY <1>5, <1>7, NetworkKept DEF ReportsNetwork
  <1>15. OsQueueOK'
    BY <1>7, QueueSent DEF OsInv
  <1> QED BY <1>10, <1>11, <1>12, <1>13, <1>14, <1>15 DEF OsInv

(* The agent connects.                                                     *)
LEMMA SetSubsStep ==
  ASSUME OsInv, osQueue # <<>>, Head(osQueue).type = "setSubs",
         SetSubsObj, UNCHANGED <<connected, phantom>>
  PROVE  OsInv'
  <1>1. /\ Keys(mDataItemToClients) \subseteq agent' /\ mSubscriptionObj' \in BOOLEAN /\ Handled(<<>>)
        /\ UNCHANGED <<mClientToDataItems, mDataItemToClients, updated, mItems, mDataItemCache, heard>>
        /\ UNCHANGED daemonVars
    BY DEF SetSubsObj, cacheVars
  <1>2. SendsTo({}, mDataItemCache)
    BY <1>1, HandledNothing DEF OsInv
  <1>3. mXtra' = mXtra
    BY <1>1 DEF daemonVars
  <1>4. OsTypes' /\ SubInv'
    BY <1>1, <1>3 DEF OsInv, OsTypes, SubInv
  <1>5. XtraInv'
    <2>1. \A i \in DataItemIds :
            /\ ~XtraSubscribes(Head(osQueue), i)
            /\ After(i, mXtra[XtraField[i]], Head(osQueue)) = mXtra[XtraField[i]]
      BY DEF XtraSubscribes, After, DataItemIds
    <2> QED BY <1>1, <1>2, <1>3, <2>1, XtraKept
  <1>6. DaemonInv'
    BY <1>1, <1>2, DaemonKept DEF IsRequest
  <1>7. NetworkInv'
    BY <1>1, <1>2, NetworkKept DEF ReportsNetwork
  <1>8. OsQueueOK'
    BY <1>2, QueueSent DEF OsInv
  <1> QED BY <1>4, <1>5, <1>6, <1>7, <1>8 DEF OsInv

(* A notification: what SystemStatus stores reaches its cache, the clients *)
(* that hold the item and the message to XTRA in one step.                 *)
LEMMA NotifyStep ==
  ASSUME OsInv, osQueue # <<>>, NEW m, m = Head(osQueue), m.type = "notify",
         HandleNotify(m), UNCHANGED <<connected, phantom>>
  PROVE  OsInv'
  <1>1. /\ DOMAIN m.items \subseteq DataItemIds
        /\ \A i \in DOMAIN m.items :
             IF i = "NETWORKINFO"
               THEN m.items[i].types \subseteq NetworkTypes /\ m.items[i].connected \in BOOLEAN
               ELSE m.items[i] \in ItemValues
    BY OsTaken DEF OsInv, OsQueueOK, OsMsgOK
  <1>2. PICK stored : stored = updateCache(m.items)
    OBVIOUS
  <1>3. PICK changed : changed = DOMAIN stored
    OBVIOUS
  <1>4. PICK cache : cache = [i \in DataItemIds |-> IF i \in changed THEN stored[i] ELSE mDataItemCache[i]]
    OBVIOUS
  <1>5. PICK each : each = [c \in AllClients |->
             IF c \in UNION {mDataItemToClients[i] : i \in changed}
               THEN mClientToDataItems[c] \cap changed ELSE {}]
    OBVIOUS
  <1>6. /\ mItems' = [i \in DataItemIds |-> IF i \in changed THEN stored[i] ELSE mItems[i]]
        /\ mDataItemCache' = cache
        /\ sendCachedDataItems(each, cache)
        /\ UNCHANGED <<mSubscriptionObj, agent, mClientToDataItems, mDataItemToClients, updated>>
        /\ UNCHANGED daemonVars
    BY <1>2, <1>3, <1>4, <1>5 DEF HandleNotify, agentVars
  <1>7. /\ changed \subseteq DOMAIN m.items /\ changed \subseteq DataItemIds
        /\ \A i \in DOMAIN m.items :
             LET item == StoredItem(i, m.items[i], mItems[i])
             IN  /\ i \in changed => stored[i] = item
                 /\ i \notin changed => item = mItems[i]
    BY <1>1, <1>2, <1>3 DEF updateCache, Differs
  <1>8. \A i \in DOMAIN m.items :
          LET item == StoredItem(i, m.items[i], mItems[i])
          IN  item # NoItem /\ (i = "NETWORKINFO" => item \in SUBSET NetworkTypes)
    <2>1. ASSUME NEW i \in DOMAIN m.items, i = "NETWORKINFO"
          PROVE  collate(m.items[i], mItems[i]) \in SUBSET NetworkTypes
      <3>1. mItems[i] \in {NoItem} \cup SUBSET NetworkTypes
        BY <2>1 DEF OsInv, NetworkInv
      <3> QED BY <1>1, <2>1, <3>1 DEF collate
    <2>2. NoItem \notin ItemValues /\ NoItem \notin SUBSET NetworkTypes
      BY OsAssumption
    <2> QED BY <1>1, <2>1, <2>2 DEF StoredItem
  <1>9. \A i \in DataItemIds :
          /\ cache[i] = mItems'[i]
          /\ i \in changed => cache[i] # NoItem
          /\ i \notin changed => cache[i] = mItems[i]
    <2>1. mDataItemCache = mItems
      BY DEF OsInv, SubInv
    <2> QED BY <1>4, <1>6, <1>7, <1>8, <2>1
  <1>10. \A c \in AllClients : \A i \in DataItemIds :
          /\ i \in each[c] => i \in changed /\ i \in mClientToDataItems[c]
          /\ i \in changed /\ i \in mClientToDataItems[c] /\ c \in mDataItemToClients[i] => i \in each[c]
    BY <1>5
  <1>11. XtraClient \in AllClients /\ OsClients \subseteq AllClients
    BY DEF AllClients
  <1>12. PICK told \in SUBSET DataItemIds :
           /\ told = Told(each[XtraClient], cache)
           /\ SendsTo(told, cache)
           /\ \A d \in OsClients : \A i \in DataItemIds :
                heard'[d][i] = IF i \in each[d] /\ cache[i] # NoItem THEN cache[i] ELSE heard[d][i]
    <2>1. Told(each[XtraClient], cache) \subseteq DataItemIds
      BY <1>5, <1>7, <1>11 DEF Told
    <2> QED BY <1>6, <2>1, CachedSent DEF OsInv
  <1>13. OsTypes'
    BY <1>6 DEF OsInv, OsTypes, daemonVars
  <1>14. SubInv'
    <2>1. mDataItemCache' = mItems'
      <3>1. mDataItemCache = mItems
        BY DEF OsInv, SubInv
      <3> QED BY <1>4, <1>6, <3>1
    <2>2. ASSUME NEW d \in OsClients, NEW i \in DataItemIds
          PROVE  /\ d \notin updated' /\ i \in mClientToDataItems'[d] =>
                      d \in mDataItemToClients'[i] /\ heard'[d][i] = mItems'[i]
                 /\ mItems'[i] = NoItem => heard'[d][i] = NoItem
      <3>1. d \in AllClients
        BY <1>11
      <3>2. heard'[d][i] = IF i \in each[d] /\ cache[i] # NoItem THEN cache[i] ELSE heard[d][i]
        BY <1>12
      <3>3. /\ d \notin updated /\ i \in mClientToDataItems[d] =>
                 d \in mDataItemToClients[i] /\ heard[d][i] = mItems[i]
            /\ mItems[i] = NoItem => heard[d][i] = NoItem
        BY DEF OsInv, SubInv
      <3>4. /\ cache[i] = mItems'[i]
            /\ i \in changed => cache[i] # NoItem
            /\ i \notin changed => cache[i] = mItems[i]
            /\ i \in each[d] => i \in changed /\ i \in mClientToDataItems[d]
            /\ i \in changed /\ i \in mClientToDataItems[d] /\ d \in mDataItemToClients[i] => i \in each[d]
        BY <1>9, <1>10, <3>1
      <3>5. updated' = updated /\ mClientToDataItems' = mClientToDataItems
            /\ mDataItemToClients' = mDataItemToClients
        BY <1>6
      <3> QED BY <3>2, <3>3, <3>4, <3>5
    <2> QED BY <1>6, <2>1, <2>2 DEF OsInv, SubInv
  <1>15. XtraInv'
    <2> SUFFICES ASSUME NEW i \in DataItemIds
                 PROVE  XtraItem(i)'
      BY DEF XtraInv
    <2>1. PICK f : f = XtraField[i]
      OBVIOUS
    <2>2. /\ mXtra' = mXtra /\ mClientToDataItems' = mClientToDataItems
          /\ mDataItemToClients' = mDataItemToClients
      BY <1>6 DEF daemonVars
    <2>3. After(i, mXtra[f], Head(osQueue)) = mXtra[f]
      BY DEF After, DataItemIds
    <2>4. ASSUME NEW w, Leads(i, osQueue, mXtra[f], w)
          PROVE  Leads(i, osQueue', mXtra'[f], IF i \in told THEN cache[i] ELSE w)
      BY <1>12, <2>2, <2>3, <2>4, LeadsSent DEF OsInv
    <2>5. SubscribeWaits(osQueue, i) => SubscribeWaits(osQueue', i)
      BY <1>12, QueueSent DEF OsInv, XtraSubscribes
    <2>6. i \in told <=> i \in each[XtraClient] /\ cache[i] # NoItem
      BY <1>12 DEF Told
    <2>7. CASE /\ SubscribeWaits(osQueue, i) /\ i \notin mClientToDataItems[XtraClient]
               /\ Leads(i, osQueue, mXtra[f], NoItem)
      <3>1. i \notin told
        BY <1>10, <1>11, <2>6, <2>7
      <3> QED BY <2>1, <2>2, <2>4, <2>5, <2>7, <3>1 DEF XtraItem
    <2>8. CASE /\ i \in mClientToDataItems[XtraClient] /\ XtraClient \in mDataItemToClients[i]
               /\ Leads(i, osQueue, mXtra[f], mItems[i])
      <3>1. (IF i \in told THEN cache[i] ELSE mItems[i]) = mItems'[i]
        BY <1>9, <1>10, <1>11, <2>6, <2>8
      <3>2. Leads(i, osQueue', mXtra'[f], mItems'[i])
        BY <2>4, <2>8, <3>1
      <3> QED BY <2>1, <2>2, <2>8, <3>2 DEF XtraItem
    <2> QED BY <2>1, <2>7, <2>8 DEF OsInv, XtraInv, XtraItem
  <1>16. DaemonInv'
    BY <1>6, <1>12, DaemonKept DEF IsRequest
  <1>17. NetworkInv'
    <2>1. DOMAIN mItems' = DataItemIds /\ "NETWORKINFO" \in DataItemIds
      BY <1>6 DEF DataItemIds
    <2>2. mItems'["NETWORKINFO"] \in {NoItem} \cup SUBSET NetworkTypes
      BY <1>6, <1>7, <1>8, <2>1 DEF OsInv, NetworkInv
    <2>3. After("stored", mItems["NETWORKINFO"], Head(osQueue)) = mItems'["NETWORKINFO"]
      BY <1>6, <1>7, <2>1 DEF After, StoredItem
    <2>4. PICK w : Leads("stored", osQueue, mItems["NETWORKINFO"], w) /\ Networks(w)
      BY DEF OsInv, NetworkInv
    <2>5. "stored" \notin told
      BY DEF DataItemIds
    <2>6. Leads("stored", osQueue', mItems'["NETWORKINFO"], w)
      BY <1>12, <2>3, <2>4, <2>5, LeadsSent DEF OsInv
    <2>7. Networks(w)'
      <3>1. w = NoItem => ~NetworkWaits(osQueue') /\ mItems'["NETWORKINFO"] = NoItem
        <4>1. w = NoItem => ~NetworkWaits(osQueue') /\ ~ReportsNetwork(Head(osQueue))
                            /\ mItems["NETWORKINFO"] = NoItem
          BY <1>12, <2>4, QueueSent DEF OsInv, Networks
        <4> QED BY <2>3, <4>1 DEF After, ReportsNetwork
      <3> QED BY <2>4, <3>1 DEF Networks
    <2> QED BY <2>1, <2>2, <2>6, <2>7 DEF NetworkInv
  <1>18. OsQueueOK'
    BY <1>12, QueueSent DEF OsInv
  <1> QED BY <1>13, <1>14, <1>15, <1>16, <1>17, <1>18 DEF OsInv

-----------------------------------------------------------------------------
(* XTRA's observer and its daemon.                                         *)
LEMMA UpdateXtraStep ==
  ASSUME OsInv, osQueue # <<>>, NEW fields, NEW new, UpdateXtra(fields, new),
         UNCHANGED <<connected, phantom, updated>>, Head(osQueue).type \in {"osUpdate", "field"},
         DOMAIN new = XtraFields, \A f \in XtraFields \ fields : new[f] = mXtra[f],
         \A i \in DataItemIds : new[XtraField[i]] = After(i, mXtra[XtraField[i]], Head(osQueue))
  PROVE  OsInv'
  <1>1. /\ mXtra' = new /\ Handled(<<>>)
        /\ IF mReqStatusReceived THEN SendXtra(fields, new) ELSE daemon' = daemon
        /\ UNCHANGED <<mSubscriptionObj, agent, mClientToDataItems, mDataItemToClients, mItems,
                       mDataItemCache, heard, mReqStatusReceived, mListening>>
    BY DEF UpdateXtra, agentVars, cacheVars
  <1>2. SendsTo({}, mDataItemCache)
    BY <1>1, HandledNothing DEF OsInv
  <1>3. OsTypes' /\ SubInv'
    BY <1>1 DEF OsInv, OsTypes, SubInv
  <1>4. XtraInv'
    <2>1. \A i \in DataItemIds : ~XtraSubscribes(Head(osQueue), i)
      BY DEF XtraSubscribes
    <2> QED BY <1>1, <1>2, <2>1, XtraKept
  <1>5. DaemonInv'
    <2>1. PICK v : daemon = [up |-> daemon.up, answered |-> daemon.answered, view |-> v]
      BY DEF OsInv, DaemonInv
    <2>2. PICK u : u = [f \in XtraFields |-> IF f \in fields THEN new[f] ELSE daemon.view[f]]
      OBVIOUS
    <2>3. /\ daemon'.up = daemon.up /\ daemon'.answered = daemon.answered
          /\ \E x : daemon' = [up |-> daemon'.up, answered |-> daemon'.answered, view |-> x]
          /\ DOMAIN daemon'.view = XtraFields
          /\ mReqStatusReceived /\ daemon.up => daemon'.view = u
      <3>1. CASE mReqStatusReceived /\ daemon.up
        <4>1. daemon' = [daemon EXCEPT !.view = u]
          BY <1>1, <2>2, <3>1 DEF SendXtra
        <4>2. daemon' = [up |-> daemon.up, answered |-> daemon.answered, view |-> u]
          BY <2>1, <4>1
        <4> QED BY <2>2, <4>2
      <3>2. CASE ~(mReqStatusReceived /\ daemon.up)
        <4>1. daemon' = daemon
          BY <1>1, <3>2 DEF SendXtra
        <4> QED BY <2>1, <3>2, <4>1 DEF OsInv, DaemonInv
      <3> QED BY <3>1, <3>2
    <2>4. ~IsRequest(Head(osQueue)) /\ \A b \in BOOLEAN : ~Asks(Head(osQueue), b)
      BY DEF IsRequest, Asks
    <2>5. /\ RequestWaits(osQueue') => RequestWaits(osQueue)
          /\ FirstAskWaits(osQueue) => FirstAskWaits(osQueue')
          /\ AskedAfter(osQueue) => AskedAfter(osQueue')
      BY <1>2, <2>4, QueueSent DEF OsInv
    <2>6. daemon.answered /\ Agrees => Agrees'
      <3>1. SUFFICES ASSUME daemon.answered, Agrees, NEW f \in XtraFields \ {"xtrathrottle"}
                     PROVE  daemon'.view[f] = mXtra'[f]
        BY DEF Agrees
      <3>2. daemon'.view = u
        BY <2>3, <3>1 DEF OsInv, DaemonInv
      <3> QED BY <1>1, <2>2, <3>1, <3>2 DEF Agrees
    <2>7. {daemon'.up, daemon'.answered, mReqStatusReceived', mListening'} \subseteq BOOLEAN
      BY <1>1, <2>3 DEF OsInv, DaemonInv
    <2> QED BY <1>1, <2>3, <2>5, <2>6, <2>7 DEF OsInv, DaemonInv
  <1>6. NetworkInv'
    BY <1>1, <1>2, NetworkKept DEF ReportsNetwork
  <1>7. OsQueueOK'
    BY <1>2, QueueSent DEF OsInv
  <1> QED BY <1>3, <1>4, <1>5, <1>6, <1>7 DEF OsInv

LEMMA OsUpdateStep ==
  ASSUME OsInv, osQueue # <<>>, NEW m, m = Head(osQueue), m.type = "osUpdate",
         HandleOsObserverUpdateMsg(m), UNCHANGED <<connected, phantom>>
  PROVE  OsInv'
  <1>1. DOMAIN m.items \subseteq DataItemIds
    BY OsTaken DEF OsInv, OsQueueOK, OsMsgOK
  <1>2. PICK fields : fields = {XtraField[i] : i \in DOMAIN m.items}
    OBVIOUS
  <1>3. PICK new : new = [f \in XtraFields |->
          IF \E i \in DOMAIN m.items : XtraField[i] = f
            THEN m.items[CHOOSE i \in DOMAIN m.items : XtraField[i] = f] ELSE mXtra[f]]
    OBVIOUS
  <1>4. UpdateXtra(fields, new) /\ UNCHANGED updated
    BY <1>2, <1>3 DEF HandleOsObserverUpdateMsg, UpdateXtra, agentVars
  <1>5. \A i, j \in DataItemIds : XtraField[i] \in XtraFields /\ (XtraField[i] = XtraField[j] => i = j)
    BY DEF DataItemIds, XtraField, XtraFields
  <1>6. \A f \in XtraFields \ fields : new[f] = mXtra[f]
    BY <1>2, <1>3
  <1>7. ASSUME NEW i \in DataItemIds
        PROVE  new[XtraField[i]] = After(i, mXtra[XtraField[i]], m)
    <2>1. i # "stored"
      BY DEF DataItemIds
    <2>2. CASE i \in DOMAIN m.items
      <3>1. (CHOOSE j \in DOMAIN m.items : XtraField[j] = XtraField[i]) = i
        BY <1>1, <1>5, <2>2
      <3> QED BY <1>3, <1>5, <2>1, <2>2, <3>1 DEF After
    <2>3. CASE i \notin DOMAIN m.items
      <3>1. ~\E j \in DOMAIN m.items : XtraField[j] = XtraField[i]
        BY <1>1, <1>5, <2>3
      <3> QED BY <1>3, <1>5, <2>1, <2>3, <3>1 DEF After
    <2> QED BY <2>2, <2>3
  <1>8. DOMAIN new = XtraFields
    BY <1>3
  <1>9. Head(osQueue).type \in {"osUpdate", "field"}
    OBVIOUS
  <1>10. UNCHANGED <<connected, phantom, updated>>
    BY <1>4
  <1> QED BY <1>4, <1>6, <1>7, <1>8, <1>9, <1>10, UpdateXtraStep

LEMMA FieldStep ==
  ASSUME OsInv, osQueue # <<>>, NEW m, m = Head(osQueue), m.type = "field",
         UpdateField(m), UNCHANGED <<connected, phantom>>
  PROVE  OsInv'
  <1>1. PICK f \in {"gpslock", "xtrathrottle"} : f = m.field
    BY OsTaken DEF OsInv, OsQueueOK, OsMsgOK
  <1>2. PICK new : new = [mXtra EXCEPT ![f] = m.value]
    OBVIOUS
  <1>3. UpdateXtra({f}, new) /\ UNCHANGED updated
    BY <1>1, <1>2 DEF UpdateField, UpdateXtra, agentVars
  <1>4. DOMAIN new = XtraFields /\ \A g \in XtraFields : g # f => new[g] = mXtra[g]
    BY <1>2 DEF OsInv, OsTypes
  <1>5. \A i \in DataItemIds : /\ XtraField[i] \in XtraFields /\ XtraField[i] # f
                               /\ After(i, mXtra[XtraField[i]], m) = mXtra[XtraField[i]]
    BY <1>1 DEF DataItemIds, XtraField, XtraFields, After
  <1>6. \A g \in XtraFields \ {f} : new[g] = mXtra[g]
    BY <1>4
  <1>7. \A i \in DataItemIds : new[XtraField[i]] = After(i, mXtra[XtraField[i]], m)
    BY <1>4, <1>5
  <1> QED BY <1>3, <1>4, <1>6, <1>7, UpdateXtraStep

LEMMA RequestStep ==
  ASSUME OsInv, osQueue # <<>>, NEW m, m = Head(osQueue), m.type = "request",
         onStatusRequested(m), UNCHANGED <<connected, phantom>>
  PROVE  OsInv'
  <1>1. /\ mReqStatusReceived' = TRUE /\ Handled(<<>>)
        /\ UNCHANGED <<mSubscriptionObj, agent, mClientToDataItems, mDataItemToClients, updated,
                       mItems, mDataItemCache, heard, mXtra, mListening>>
        /\ IF m.xtraStatusUpdated THEN daemon' = [daemon EXCEPT !.answered = daemon.up]
           ELSE daemon' = IF daemon.up
                            THEN [daemon EXCEPT !.answered = TRUE,
                                    !.view = [mXtra EXCEPT !["xtrathrottle"] = daemon.view["xtrathrottle"]]]
                            ELSE daemon
    BY DEF onStatusRequested, agentVars, cacheVars
  <1>2. SendsTo({}, mDataItemCache)
    BY <1>1, HandledNothing DEF OsInv
  <1>3. OsTypes' /\ SubInv'
    BY <1>1 DEF OsInv, OsTypes, SubInv
  <1>4. XtraInv'
    <2>1. \A i \in DataItemIds :
            /\ ~XtraSubscribes(Head(osQueue), i)
            /\ After(i, mXtra[XtraField[i]], Head(osQueue)) = mXtra[XtraField[i]]
      BY DEF XtraSubscribes, After, DataItemIds
    <2> QED BY <1>1, <1>2, <2>1, XtraKept
  <1>5. DaemonInv'
    <2>1. PICK v : daemon = [up |-> daemon.up, answered |-> daemon.answered, view |-> v]
      BY DEF OsInv, DaemonInv
    <2>2. PICK again \in BOOLEAN : again = m.xtraStatusUpdated
      BY OsTaken DEF OsInv, OsQueueOK, OsMsgOK
    <2>3. IsRequest(m) /\ Asks(m, again) /\ \A b : Asks(m, b) => b = again
      BY <2>2 DEF IsRequest, Asks
    <2>4. /\ RequestWaits(osQueue)
          /\ RequestWaits(osQueue') => RequestWaits(osQueue)
          /\ FirstAskWaits(osQueue) => FirstAskWaits(osQueue') \/ Asks(m, FALSE)
          /\ AskedAfter(osQueue) =>
               AskedAfter(osQueue') /\ (Asks(m, TRUE) => FirstAskWaits(osQueue'))
      BY <1>2, <2>3, QueueSent DEF OsInv
    <2>5. PICK u : u = [mXtra EXCEPT !["xtrathrottle"] = daemon.view["xtrathrottle"]]
      OBVIOUS
    <2>6. DOMAIN u = XtraFields /\ \A f \in XtraFields \ {"xtrathrottle"} : u[f] = mXtra[f]
      BY <2>5 DEF OsInv, OsTypes
    <2>7. mListening' /\ mListening' \in BOOLEAN /\ daemon.up \in BOOLEAN /\ daemon.answered \in BOOLEAN
      BY <1>1, <2>4 DEF OsInv, DaemonInv
    <2>8. CASE again
      <3>1. daemon' = [daemon EXCEPT !.answered = daemon.up]
        BY <1>1, <2>2, <2>8
      <3>2. daemon' = [up |-> daemon.up, answered |-> daemon.up, view |-> v]
        BY <2>1, <3>1
      <3>3. /\ daemon'.up = daemon.up /\ daemon'.answered = daemon.up
            /\ daemon'.view = daemon.view
        BY <2>1, <3>2
      <3>4. daemon'.answered => Agrees' \/ FirstAskWaits(osQueue')
        <4>1. Asks(m, TRUE) /\ ~Asks(m, FALSE)
          BY <2>3, <2>8
        <4>2. Agrees => Agrees'
          BY <1>1, <3>3 DEF Agrees
        <4>3. daemon.up /\ ~daemon.answered => AskedAfter(osQueue)
          BY DEF OsInv, DaemonInv
        <4>4. daemon.answered => Agrees \/ FirstAskWaits(osQueue)
          BY DEF OsInv, DaemonInv
        <4> QED BY <2>4, <3>3, <4>1, <4>2, <4>3, <4>4
      <3>5. daemon' = [up |-> daemon'.up, answered |-> daemon'.answered, view |-> v]
        BY <3>2, <3>3
      <3>6. DOMAIN daemon'.view = XtraFields
        BY <3>3 DEF OsInv, DaemonInv
      <3> QED BY <1>1, <2>7, <3>3, <3>4, <3>5, <3>6 DEF DaemonInv
    <2>9. CASE ~again /\ daemon.up
      <3>1. daemon' = [daemon EXCEPT !.answered = TRUE, !.view = u]
        BY <1>1, <2>2, <2>5, <2>9
      <3>2. daemon' = [up |-> daemon.up, answered |-> TRUE, view |-> u]
        BY <2>1, <3>1
      <3>3. daemon'.up = daemon.up /\ daemon'.answered = TRUE /\ daemon'.view = u
        BY <3>2
      <3>4. Agrees'
        BY <1>1, <2>6, <3>3 DEF Agrees
      <3>5. daemon' = [up |-> daemon'.up, answered |-> daemon'.answered, view |-> u]
        BY <3>2, <3>3
      <3> QED BY <1>1, <2>6, <2>7, <2>9, <3>3, <3>4, <3>5 DEF DaemonInv
    <2>10. CASE ~again /\ ~daemon.up
      <3>1. daemon' = daemon
        BY <1>1, <2>2, <2>10
      <3>2. ~daemon.answered
        BY <2>10 DEF OsInv, DaemonInv
      <3>3. daemon' = [up |-> daemon'.up, answered |-> daemon'.answered, view |-> v]
        BY <2>1, <3>1
      <3>4. DOMAIN daemon'.view = XtraFields
        BY <3>1 DEF OsInv, DaemonInv
      <3> QED BY <1>1, <2>7, <2>10, <3>1, <3>2, <3>3, <3>4 DEF DaemonInv
    <2> QED BY <2>2, <2>8, <2>9, <2>10
  <1>6. NetworkInv'
    BY <1>1, <1>2, NetworkKept DEF ReportsNetwork
  <1>7. OsQueueOK'
    BY <1>2, QueueSent DEF OsInv
  <1> QED BY <1>3, <1>4, <1>5, <1>6, <1>7 DEF OsInv

-----------------------------------------------------------------------------
(* Other threads only put messages on the queue.                           *)
LEMMA ConcatOne ==
  ASSUME NEW q, IsSeq(q), NEW m
  PROVE  q \o <<m>> = Append(q, m) /\ q \o <<>> = q
  <1>1. PICK S : q \in Seq(S)
    BY DEF IsSeq
  <1>2. q \in Seq(S \cup {m}) /\ m \in S \cup {m}
    BY <1>1
  <1> QED BY <1>2

LEMMA PostStep ==
  ASSUME OsInv, NEW m, OsMsgOK(m), osQueue' = Append(osQueue, m), m.type # "osUpdate",
         UNCHANGED <<agentVars, cacheVars, heard, mXtra>>
  PROVE  OsQueueOK' /\ OsTypes' /\ SubInv' /\ XtraInv'
  <1>1. UNCHANGED <<mSubscriptionObj, agent, mClientToDataItems, mDataItemToClients, updated,
                    mItems, mDataItemCache, heard, mXtra>>
    BY DEF agentVars, cacheVars
  <1>2. OsTypes' /\ SubInv'
    BY <1>1 DEF OsInv, OsTypes, SubInv
  <1>3. ASSUME NEW i \in DataItemIds
        PROVE  XtraItem(i)'
    <2>1. PICK f : f = XtraField[i]
      OBVIOUS
    <2>2. \A w : After(i, w, m) = w
      BY DEF After, DataItemIds
    <2>3. ASSUME NEW w, Leads(i, osQueue, mXtra[f], w)
          PROVE  Leads(i, osQueue', mXtra[f], w)
      <3>1. Leads(i, osQueue', mXtra[f], After(i, w, m))
        BY <2>3, LeadsOn DEF OsInv, OsQueueOK
      <3> QED BY <2>2, <3>1
    <2>4. SubscribeWaits(osQueue, i) => SubscribeWaits(osQueue', i)
      BY OsAppended DEF OsInv, OsQueueOK
    <2> QED BY <1>1, <2>1, <2>3, <2>4 DEF OsInv, XtraInv, XtraItem
  <1>4. OsQueueOK'
    BY OsAppended DEF OsInv, OsQueueOK
  <1> QED BY <1>2, <1>3, <1>4 DEF XtraInv

LEMMA PostNetwork ==
  ASSUME OsInv, NEW m, OsMsgOK(m), osQueue' = Append(osQueue, m), ~ReportsNetwork(m),
         UNCHANGED <<connected, phantom, mItems>>
  PROVE  NetworkInv'
  <1>1. PICK w : Leads("stored", osQueue, mItems["NETWORKINFO"], w) /\ Networks(w)
    BY DEF OsInv, NetworkInv
  <1>2. After("stored", w, m) = w
    BY DEF After, ReportsNetwork
  <1>3. Leads("stored", osQueue', mItems["NETWORKINFO"], After("stored", w, m))
    BY <1>1, LeadsOn DEF OsInv, OsQueueOK
  <1>4. Networks(w)'
    <2>1. NetworkWaits(osQueue') => NetworkWaits(osQueue)
      BY OsAppended DEF OsInv, OsQueueOK
    <2> QED BY <1>1, <2>1 DEF Networks
  <1> QED BY <1>2, <1>3, <1>4 DEF OsInv, NetworkInv

LEMMA PostDaemon ==
  ASSUME OsInv, NEW m, OsMsgOK(m), osQueue' = Append(osQueue, m), ~IsRequest(m),
         UNCHANGED daemonVars
  PROVE  DaemonInv'
  <1>1. UNCHANGED <<mXtra, mReqStatusReceived, mListening, daemon>>
    BY DEF daemonVars
  <1>2. ~Asks(m, TRUE) /\ ~Asks(m, FALSE)
    BY DEF Asks, IsRequest
  <1>3. /\ RequestWaits(osQueue') => RequestWaits(osQueue)
        /\ FirstAskWaits(osQueue) => FirstAskWaits(osQueue')
        /\ AskedAfter(osQueue) => AskedAfter(osQueue')
    BY <1>2, OsAppended DEF OsInv, OsQueueOK
  <1>4. Agrees => Agrees'
    BY <1>1 DEF Agrees
  <1> QED BY <1>1, <1>3, <1>4 DEF OsInv, DaemonInv

(* A message that is neither a network report nor a request, sent to XTRA. *)
LEMMA OtherPosted ==
  ASSUME OsInv, NEW m, OsMsgOK(m), OsSend(<<m>>), m.type \notin {"osUpdate", "request"},
         ~ReportsNetwork(m),
         UNCHANGED <<agentVars, cacheVars, heard, daemonVars, connected, phantom>>
  PROVE  OsInv'
  <1>1. osQueue' = Append(osQueue, m)
    BY ConcatOne DEF OsInv, OsQueueOK, OsSend
  <1>2. UNCHANGED mXtra /\ UNCHANGED mItems
    BY DEF daemonVars, cacheVars
  <1>3. OsQueueOK' /\ OsTypes' /\ SubInv' /\ XtraInv'
    BY <1>1, <1>2, PostStep
  <1>4. NetworkInv'
    BY <1>1, <1>2, PostNetwork
  <1>5. DaemonInv'
    BY <1>1, PostDaemon DEF IsRequest
  <1> QED BY <1>3, <1>4, <1>5 DEF OsInv

LEMMA ConnectionStatusStep ==
  ASSUME OsInv, eventConnectionStatus
  PROVE  OsInv'
  <1>1. PICK type \in NetworkTypes \cup {"unknown"}, on \in BOOLEAN :
          LET info == NetworkInfo(type, on) IN
          /\ OsSend(<<[type |-> "notify", items |-> [i \in {"NETWORKINFO"} |-> info]]>>)
          /\ connected' = IF on THEN connected \cup info.types
                          ELSE IF info.types = {} THEN {} ELSE connected \ info.types
          /\ phantom' = IF mItems["NETWORKINFO"] = NoItem /\ connected = {} /\ ~on
                        THEN phantom \cup info.types ELSE phantom
          /\ UNCHANGED <<agentVars, cacheVars, heard, daemonVars>>
    BY DEF eventConnectionStatus
  <1>2. PICK info : info = NetworkInfo(type, on)
    OBVIOUS
  <1>3. info.connected = on /\ info.types \subseteq NetworkTypes
    BY <1>2 DEF NetworkInfo
  <1>4. PICK m : m = [type |-> "notify", items |-> [i \in {"NETWORKINFO"} |-> info]]
    OBVIOUS
  <1>5. m.type = "notify" /\ DOMAIN m.items = {"NETWORKINFO"} /\ m.items["NETWORKINFO"] = info
    BY <1>4
  <1>6. OsMsgOK(m)
    BY <1>3, <1>5 DEF OsMsgOK, Subscription, DataItemIds
  <1>7. osQueue' = Append(osQueue, m)
    BY <1>1, <1>2, <1>4, ConcatOne DEF OsInv, OsQueueOK, OsSend
  <1>8. UNCHANGED mXtra /\ UNCHANGED mItems
    BY <1>1 DEF daemonVars, cacheVars
  <1>9. OsQueueOK' /\ OsTypes' /\ SubInv' /\ XtraInv'
    BY <1>1, <1>5, <1>6, <1>7, <1>8, PostStep
  <1>10. DaemonInv'
    BY <1>1, <1>5, <1>6, <1>7, PostDaemon DEF IsRequest
  <1>11. NetworkInv'
    <2>1. PICK w : Leads("stored", osQueue, mItems["NETWORKINFO"], w) /\ Networks(w)
      BY DEF OsInv, NetworkInv
    <2>2. After("stored", w, m) = collate(info, w)
      BY <1>5 DEF After
    <2>3. PICK u : u = collate(info, w)
      OBVIOUS
    <2>4. Leads("stored", osQueue', mItems'["NETWORKINFO"], u)
      BY <1>7, <1>8, <2>1, <2>2, <2>3, LeadsOn DEF OsInv, OsQueueOK
    <2>5. /\ connected' = IF on THEN connected \cup info.types
                          ELSE IF info.types = {} THEN {} ELSE connected \ info.types
          /\ phantom' = IF mItems["NETWORKINFO"] = NoItem /\ connected = {} /\ ~on
                        THEN phantom \cup info.types ELSE phantom
      BY <1>1, <1>2
    <2>6. u \subseteq NetworkTypes /\ connected' \subseteq u /\ u \subseteq connected' \cup phantom'
      <3>1. CASE w = NoItem
        <4>1. connected = {} /\ mItems["NETWORKINFO"] = NoItem /\ u = info.types
          BY <2>1, <2>3, <3>1 DEF Networks, collate
        <4> QED BY <1>3, <2>5, <4>1
      <3>2. CASE w # NoItem
        <4>1. w \subseteq NetworkTypes /\ connected \subseteq w /\ w \subseteq connected \cup phantom
          BY <2>1, <3>2 DEF Networks
        <4>2. u = IF on THEN w \cup info.types ELSE IF info.types # {} THEN w \ info.types ELSE {}
          BY <1>3, <2>3, <3>2 DEF collate
        <4>3. phantom \subseteq phantom'
          BY <2>5
        <4>4. CASE on
          BY <1>3, <2>5, <4>1, <4>2, <4>3, <4>4
        <4>5. CASE ~on /\ info.types = {}
          BY <2>5, <4>2, <4>5
        <4>6. CASE ~on /\ info.types # {}
          BY <2>5, <4>1, <4>2, <4>3, <4>6
        <4> QED BY <4>4, <4>5, <4>6
      <3> QED BY <3>1, <3>2
    <2>7. u # NoItem
      BY <2>6, OsAssumption
    <2>8. Networks(u)'
      BY <2>6, <2>7 DEF Networks
    <2> QED BY <1>8, <2>4, <2>8 DEF OsInv, NetworkInv
  <1> QED BY <1>9, <1>10, <1>11 DEF OsInv

(* The daemon starts, hears "halinit" or stops.                            *)
LEMMA DaemonAsks ==
  ASSUME OsInv, NEW again \in BOOLEAN,
         OsSend(IF mListening THEN <<[type |-> "request", xtraStatusUpdated |-> again]>> ELSE <<>>),
         UNCHANGED <<agentVars, cacheVars, heard, mXtra, connected, phantom>>
  PROVE  /\ OsQueueOK' /\ OsTypes' /\ SubInv' /\ XtraInv' /\ NetworkInv'
         /\ RequestWaits(osQueue') => mListening
         /\ FirstAskWaits(osQueue) => FirstAskWaits(osQueue')
         /\ ~again => AskedAfter(osQueue')
  <1>1. UNCHANGED <<mSubscriptionObj, agent, mClientToDataItems, mDataItemToClients, updated,
                    mItems, mDataItemCache, heard, mXtra, connected, phantom>>
    BY DEF agentVars, cacheVars
  <1>2. mListening \in BOOLEAN /\ (RequestWaits(osQueue) => mListening)
    BY DEF OsInv, DaemonInv
  <1>3. CASE mListening
    <2>1. PICK m : m = [type |-> "request", xtraStatusUpdated |-> again]
      OBVIOUS
    <2>2. m.type = "request" /\ m.xtraStatusUpdated \in BOOLEAN
      BY <2>1
    <2>3. ~again => Asks(m, FALSE)
      BY <2>1, <2>2 DEF Asks
    <2>4. OsMsgOK(m) /\ ~ReportsNetwork(m)
      BY <2>2 DEF OsMsgOK, Subscription, ReportsNetwork
    <2>5. osQueue' = Append(osQueue, m)
      BY <1>3, <2>1, ConcatOne DEF OsInv, OsQueueOK, OsSend
    <2>6. OsQueueOK' /\ OsTypes' /\ SubInv' /\ XtraInv'
      BY <2>2, <2>4, <2>5, PostStep
    <2>7. NetworkInv'
      BY <1>1, <2>4, <2>5, PostNetwork
    <2>8. /\ FirstAskWaits(osQueue) => FirstAskWaits(osQueue')
          /\ ~again => AskedAfter(osQueue')
      BY <2>3, <2>4, <2>5, OsAppended DEF OsInv, OsQueueOK
    <2> QED BY <1>3, <2>6, <2>7, <2>8
  <1>4. CASE ~mListening
    <2>1. osQueue' = osQueue
      BY <1>4, ConcatOne DEF OsInv, OsQueueOK, OsSend
    <2>2. OsQueueOK' /\ OsTypes' /\ SubInv'
      BY <1>1, <2>1 DEF OsInv, OsQueueOK, OsTypes, SubInv
    <2>3. XtraInv' /\ NetworkInv'
      BY <1>1, <2>1 DEF OsInv, XtraInv, XtraItem, NetworkInv, Networks
    <2>4. AskedAfter(osQueue)
      <3>1. ~RequestWaits(osQueue)
        BY <1>2, <1>4
      <3> QED BY <3>1 DEF AskedAfter, Asks, RequestWaits, IsRequest
    <2> QED BY <1>2, <2>1, <2>2, <2>3, <2>4
  <1> QED BY <1>2, <1>3, <1>4

LEMMA DaemonStep ==
  ASSUME OsInv, DaemonStarts \/ onReceive \/ DaemonStops
  PROVE  OsInv'
  <1>1. PICK v : daemon = [up |-> daemon.up, answered |-> daemon.answered, view |-> v]
    BY DEF OsInv, DaemonInv
  <1>2. PICK none : none = NoView
    OBVIOUS
  <1>3. DOMAIN none = XtraFields
    BY <1>2 DEF NoView
  <1>4. CASE DaemonStarts
    <2>1. /\ daemon' = [up |-> TRUE, answered |-> FALSE, view |-> none]
          /\ OsSend(IF mListening THEN <<[type |-> "request", xtraStatusUpdated |-> FALSE]>> ELSE <<>>)
          /\ UNCHANGED <<agentVars, cacheVars, heard, mXtra, mReqStatusReceived, mListening,
                         connected, phantom>>
      BY <1>2, <1>4 DEF DaemonStarts, StatusRequest
    <2>2. /\ OsQueueOK' /\ OsTypes' /\ SubInv' /\ XtraInv' /\ NetworkInv'
          /\ RequestWaits(osQueue') => mListening
          /\ AskedAfter(osQueue')
      BY <2>1, DaemonAsks
    <2>3. daemon'.up = TRUE /\ daemon'.answered = FALSE /\ daemon'.view = none
      BY <2>1
    <2>4. \E x : daemon' = [up |-> daemon'.up, answered |-> daemon'.answered, view |-> x]
      BY <2>1, <2>3
    <2>5. DaemonInv'
      BY <1>3, <2>1, <2>2, <2>3, <2>4 DEF OsInv, DaemonInv
    <2> QED BY <2>2, <2>5 DEF OsInv
  <1>5. CASE onReceive
    <2>1. daemon.up /\ OsSend(StatusRequest(TRUE))
          /\ UNCHANGED <<agentVars, cacheVars, heard, daemonVars, connected, phantom>>
      BY <1>5 DEF onReceive
    <2>2. PICK again \in BOOLEAN : again = daemon.answered
      BY DEF OsInv, DaemonInv
    <2>3. OsSend(IF mListening THEN <<[type |-> "request", xtraStatusUpdated |-> again]>> ELSE <<>>)
      BY <2>1, <2>2 DEF StatusRequest
    <2>4. UNCHANGED <<mXtra, mReqStatusReceived, mListening, daemon>>
      BY <2>1 DEF daemonVars
    <2>5. /\ OsQueueOK' /\ OsTypes' /\ SubInv' /\ XtraInv' /\ NetworkInv'
          /\ RequestWaits(osQueue') => mListening
          /\ FirstAskWaits(osQueue) => FirstAskWaits(osQueue')
          /\ ~again => AskedAfter(osQueue')
      BY <2>1, <2>3, <2>4, DaemonAsks
    <2>6. Agrees => Agrees'
      BY <2>4 DEF Agrees
    <2>7. DaemonInv'
      BY <2>2, <2>4, <2>5, <2>6 DEF OsInv, DaemonInv
    <2> QED BY <2>5, <2>7 DEF OsInv
  <1>6. CASE DaemonStops
    <2>1. /\ daemon' = [up |-> FALSE, answered |-> FALSE, view |-> none]
          /\ UNCHANGED <<mSubscriptionObj, agent, mClientToDataItems, mDataItemToClients, updated,
                         mItems, mDataItemCache, heard, mXtra, mReqStatusReceived, mListening,
                         osQueue, connected, phantom>>
      BY <1>2, <1>6 DEF DaemonStops, agentVars, cacheVars
    <2>2. daemon'.up = FALSE /\ daemon'.answered = FALSE /\ daemon'.view = none
      BY <2>1
    <2>3. \E x : daemon' = [up |-> daemon'.up, answered |-> daemon'.answered, view |-> x]
      BY <2>1, <2>2
    <2>4. DaemonInv'
      BY <1>3, <2>1, <2>2, <2>3 DEF OsInv, DaemonInv
    <2>5. OsQueueOK' /\ OsTypes' /\ SubInv'
      BY <2>1 DEF OsInv, OsQueueOK, OsTypes, SubInv
    <2>6. XtraInv' /\ NetworkInv'
      BY <2>1 DEF OsInv, XtraInv, XtraItem, NetworkInv, Networks
    <2> QED BY <2>4, <2>5, <2>6 DEF OsInv
  <1> QED BY <1>4, <1>5, <1>6

LEMMA ListeningStep ==
  ASSUME OsInv, startListeningBlocking \/ UNCHANGED osVars
  PROVE  OsInv'
  <1>1. /\ mListening \in BOOLEAN /\ mListening' \in BOOLEAN /\ (mListening => mListening')
        /\ UNCHANGED <<mSubscriptionObj, agent, mClientToDataItems, mDataItemToClients, updated,
                       mItems, mDataItemCache, heard, mXtra, mReqStatusReceived, daemon,
                       osQueue, connected, phantom>>
    BY DEF startListeningBlocking, agentVars, cacheVars, osVars, OsInv, DaemonInv
  <1>2. OsQueueOK' /\ OsTypes' /\ SubInv'
    BY <1>1 DEF OsInv, OsQueueOK, OsTypes, SubInv
  <1>3. XtraInv' /\ NetworkInv'
    BY <1>1 DEF OsInv, XtraInv, XtraItem, NetworkInv, Networks
  <1>4. DaemonInv'
    <2>1. Agrees => Agrees'
      BY <1>1 DEF Agrees
    <2> QED BY <1>1, <2>1 DEF OsInv, DaemonInv
  <1> QED BY <1>2, <1>3, <1>4 DEF OsInv

LEMMA PostingStep ==
  ASSUME OsInv, SubscriberCalls \/ setSubscriptionObj \/ AgentNotifies \/ AdapterUpdates
  PROVE  OsInv'
  <1>1. CASE SubscriberCalls
    <2>1. PICK c \in OsClients, items \in SUBSET DataItemIds, call \in Subscription :
            /\ OsSend(<<[type |-> call, client |-> c, items |-> items]>>)
            /\ UNCHANGED <<agentVars, cacheVars, heard, daemonVars, connected, phantom>>
      BY <1>1 DEF SubscriberCalls, Subscription
    <2>2. PICK m : m = [type |-> call, client |-> c, items |-> items]
      OBVIOUS
    <2>3. m.type = call /\ m.client = c /\ m.items = items /\ call \notin {"osUpdate", "request", "notify", "field"}
      BY <2>2 DEF Subscription
    <2>4. c \in AllClients /\ c # XtraClient
      BY OsAssumption DEF AllClients
    <2>5. OsMsgOK(m)
      BY <2>2, <2>3, <2>4 DEF OsMsgOK
    <2> QED BY <2>1, <2>2, <2>3, <2>5, OtherPosted DEF ReportsNetwork
  <1>2. CASE setSubscriptionObj
    <2>1. PICK m : m = [type |-> "setSubs"]
      OBVIOUS
    <2>2. m.type = "setSubs"
      BY <2>1
    <2>3. OsMsgOK(m)
      BY <2>2 DEF OsMsgOK, Subscription
    <2>4. OsSend(<<m>>) /\ UNCHANGED <<agentVars, cacheVars, heard, daemonVars, connected, phantom>>
      BY <1>2, <2>1 DEF setSubscriptionObj
    <2> QED BY <2>2, <2>3, <2>4, OtherPosted DEF ReportsNetwork
  <1>3. CASE AgentNotifies
    <2>1. PICK i \in {"TAC", "MCCMNC"}, v \in ItemValues :
            /\ OsSend(<<[type |-> "notify", items |-> [k \in {i} |-> v]]>>)
            /\ UNCHANGED <<agentVars, cacheVars, heard, daemonVars, connected, phantom>>
      BY <1>3 DEF AgentNotifies
    <2>2. PICK m : m = [type |-> "notify", items |-> [k \in {i} |-> v]]
      OBVIOUS
    <2>3. m.type = "notify" /\ DOMAIN m.items = {i} /\ m.items[i] = v
      BY <2>2
    <2>4. OsMsgOK(m) /\ ~ReportsNetwork(m)
      BY <2>3 DEF OsMsgOK, Subscription, DataItemIds, ReportsNetwork
    <2> QED BY <2>1, <2>2, <2>3, <2>4, OtherPosted
  <1>4. CASE AdapterUpdates
    <2>1. PICK f \in {"gpslock", "xtrathrottle"}, v \in ItemValues :
            /\ OsSend(<<[type |-> "field", field |-> f, value |-> v]>>)
            /\ UNCHANGED <<agentVars, cacheVars, heard, daemonVars, connected, phantom>>
      BY <1>4 DEF AdapterUpdates
    <2>2. PICK m : m = [type |-> "field", field |-> f, value |-> v]
      OBVIOUS
    <2>3. m.type = "field" /\ m.field = f
      BY <2>2
    <2>4. OsMsgOK(m) /\ ~ReportsNetwork(m)
      BY <2>3 DEF OsMsgOK, Subscription, ReportsNetwork
    <2> QED BY <2>1, <2>2, <2>3, <2>4, OtherPosted
  <1> QED BY <1>1, <1>2, <1>3, <1>4

-----------------------------------------------------------------------------
(* The theorems.                                                           *)
LEMMA OsStart == OsInit => OsInv
  <1> SUFFICES ASSUME OsInit
               PROVE  OsInv
    OBVIOUS
  <1>1. PICK m1 : m1 = [type |-> "subscribe", client |-> XtraClient, items |-> {"NETWORKINFO", "MCCMNC"}]
    OBVIOUS
  <1>2. PICK m2 : m2 = [type |-> "subscribe", client |-> XtraClient, items |-> {"TAC"}]
    OBVIOUS
  <1>3. osQueue = <<m1, m2>>
    BY <1>1, <1>2 DEF OsInit
  <1>4. osQueue \in Seq({m1, m2}) /\ Len(osQueue) = 2 /\ osQueue[1] = m1 /\ osQueue[2] = m2
    BY <1>3
  <1>5. DOMAIN osQueue = 1..2 /\ \A k \in 1..2 : osQueue[k] \in {m1, m2}
    BY <1>4
  <1>6. \A m \in {m1, m2} : m.type = "subscribe" /\ m.client = XtraClient /\ m.items \subseteq DataItemIds
    BY <1>1, <1>2 DEF DataItemIds
  <1>7. XtraClient \in AllClients /\ OsClients \subseteq AllClients
    BY DEF AllClients
  <1>8. OsQueueOK
    <2>1. \A m \in {m1, m2} : OsMsgOK(m)
      <3>1. \A m \in {m1, m2} : m = [type |-> m.type, client |-> m.client, items |-> m.items]
        BY <1>1, <1>2
      <3> QED BY <1>6, <1>7, <3>1 DEF OsMsgOK, Subscription
    <2> QED BY <1>4, <1>5, <2>1 DEF OsQueueOK, IsSeq
  <1>9. OsTypes
    BY DEF OsInit, OsTypes, NoView
  <1>10. SubInv
    <2>1. \A c \in OsClients : mClientToDataItems[c] = {} /\ \A i \in DataItemIds : heard[c][i] = NoItem
      BY <1>7 DEF OsInit
    <2>2. mSubscriptionObj = FALSE /\ mDataItemCache = mItems
      BY DEF OsInit
    <2> QED BY <2>1, <2>2 DEF SubInv
  <1>11. XtraInv
    <2>1. \A t \in DataItemIds \cup {"stored"} : \A m \in {m1, m2} : After(t, NoItem, m) = NoItem
      BY <1>6 DEF After, DataItemIds
    <2>2. ASSUME NEW t \in DataItemIds \cup {"stored"}
          PROVE  Leads(t, osQueue, NoItem, NoItem)
      <3>1. PICK c : c = [k \in 0..2 |-> NoItem]
        OBVIOUS
      <3>2. \A k \in 0..2 : c[k] = NoItem
        BY <3>1
      <3>3. c[0] = NoItem /\ c[2] = NoItem
        BY <3>2
      <3>4. ASSUME NEW k \in 1..2
            PROVE  c[k] = After(t, c[k - 1], osQueue[k])
        <4>1. k \in 0..2 /\ k - 1 \in 0..2
          OBVIOUS
        <4>2. c[k] = NoItem /\ c[k - 1] = NoItem
          BY <3>2, <4>1
        <4> QED BY <1>5, <2>1, <4>2
      <3> QED BY <1>4, <3>3, <3>4 DEF Leads
    <2>3. ASSUME NEW i \in DataItemIds
          PROVE  XtraItem(i)
      <3>1. SubscribeWaits(osQueue, i)
        <4>1. i \in m1.items \/ i \in m2.items
          BY <1>1, <1>2 DEF DataItemIds
        <4>2. XtraSubscribes(m1, i) \/ XtraSubscribes(m2, i)
          BY <1>6, <4>1 DEF XtraSubscribes
        <4>3. 1 \in 1..2 /\ 2 \in 1..2
          OBVIOUS
        <4> QED BY <1>4, <1>5, <4>2, <4>3 DEF SubscribeWaits
      <3>2. mXtra[XtraField[i]] = NoItem
        BY DEF OsInit, NoView, DataItemIds, XtraField, XtraFields
      <3>3. i \notin mClientToDataItems[XtraClient]
        BY <1>7 DEF OsInit
      <3> QED BY <2>2, <3>1, <3>2, <3>3 DEF XtraItem
    <2> QED BY <2>3 DEF XtraInv
  <1>12. DaemonInv
    <2>1. \A k \in DOMAIN osQueue : ~IsRequest(osQueue[k])
      BY <1>5, <1>6 DEF IsRequest
    <2>2. ~RequestWaits(osQueue)
      BY <2>1 DEF RequestWaits
    <2>3. PICK v : v = NoView /\ daemon = [up |-> FALSE, answered |-> FALSE, view |-> v]
                   /\ DOMAIN v = XtraFields
      <3>1. NoView = NoView /\ daemon = [up |-> FALSE, answered |-> FALSE, view |-> NoView]
        BY DEF OsInit
      <3>2. DOMAIN NoView = XtraFields
        BY DEF NoView
      <3> QED BY <3>1, <3>2
    <2>4. daemon.up = FALSE /\ daemon.answered = FALSE /\ daemon.view = v
      BY <2>3
    <2>5. daemon = [up |-> daemon.up, answered |-> daemon.answered, view |-> v]
      BY <2>3, <2>4
    <2>6. mReqStatusReceived \in BOOLEAN /\ mListening \in BOOLEAN
      BY DEF OsInit
    <2> QED BY <2>2, <2>3, <2>4, <2>5, <2>6 DEF DaemonInv
  <1>13. NetworkInv
    <2>1. mItems["NETWORKINFO"] = NoItem /\ DOMAIN mItems = DataItemIds /\ connected = {}
      BY DEF OsInit, DataItemIds
    <2>2. \A m \in {m1, m2} : After("stored", NoItem, m) = NoItem /\ ~ReportsNetwork(m)
      BY <1>6 DEF After, ReportsNetwork
    <2>3. Leads("stored", osQueue, NoItem, NoItem)
      <3>1. PICK c : c = [k \in 0..2 |-> NoItem]
        OBVIOUS
      <3>2. \A k \in 0..2 : c[k] = NoItem
        BY <3>1
      <3>3. c[0] = NoItem /\ c[2] = NoItem
        BY <3>2
      <3>4. ASSUME NEW k \in 1..2
            PROVE  c[k] = After("stored", c[k - 1], osQueue[k])
        <4>1. k \in 0..2 /\ k - 1 \in 0..2
          OBVIOUS
        <4>2. c[k] = NoItem /\ c[k - 1] = NoItem
          BY <3>2, <4>1
        <4> QED BY <1>5, <2>2, <4>2
      <3> QED BY <1>4, <3>3, <3>4 DEF Leads
    <2>4. ~NetworkWaits(osQueue)
      BY <1>5, <2>2 DEF NetworkWaits
    <2> QED BY <2>1, <2>3, <2>4 DEF NetworkInv, Networks
  <1> QED BY <1>8, <1>9, <1>10, <1>11, <1>12, <1>13 DEF OsInv

LEMMA OsStep == OsInv /\ [OsNext]_osVars => OsInv'
  <1> SUFFICES ASSUME OsInv, OsNext \/ UNCHANGED osVars
               PROVE  OsInv'
    OBVIOUS
  <1>1. CASE HandleOsMessage
    <2>1. PICK m : m = Head(osQueue)
      OBVIOUS
    <2>2. osQueue # <<>> /\ UNCHANGED <<connected, phantom>>
      BY <1>1 DEF HandleOsMessage
    <2>3. OsMsgOK(m)
      BY <2>1, <2>2, OsTaken DEF OsInv, OsQueueOK
    <2>4. \/ m.type = "subscribe" /\ HandleSubscribeReq(m)
          \/ m.type = "updateSubscription" /\ HandleUpdateSubscriptionReq(m)
          \/ m.type = "unsubscribe" /\ HandleUnsubscribeReq(m)
          \/ m.type = "unsubscribeAll" /\ HandleUnsubscribeAllReq(m)
          \/ m.type = "notify" /\ HandleNotify(m)
          \/ m.type = "setSubs" /\ SetSubsObj
          \/ m.type = "osUpdate" /\ HandleOsObserverUpdateMsg(m)
          \/ m.type = "field" /\ UpdateField(m)
          \/ m.type = "request" /\ onStatusRequested(m)
      BY <1>1, <2>1 DEF HandleOsMessage
    <2>5. m.type \in Subscription =>
            m.items \subseteq DataItemIds /\ (m.type # "subscribe" => m.client \in OsClients)
      BY <2>3 DEF OsMsgOK, AllClients
    <2>6. CASE m.type = "subscribe" /\ HandleSubscribeReq(m)
      BY <2>1, <2>2, <2>6, SubscribeStep
    <2>7. CASE m.type = "updateSubscription" /\ HandleUpdateSubscriptionReq(m)
      BY <2>1, <2>2, <2>5, <2>7, UpdateSubscriptionStep DEF Subscription
    <2>8. CASE m.type = "unsubscribe" /\ HandleUnsubscribeReq(m)
      BY <2>1, <2>2, <2>5, <2>8, UnsubscribeStep DEF Subscription
    <2>9. CASE m.type = "unsubscribeAll" /\ HandleUnsubscribeAllReq(m)
      <3>1. PICK n : n = [m EXCEPT !.items = DataItemIds]
        OBVIOUS
      <3>2. HandleUnsubscribeReq(n)
        BY <2>9, <3>1 DEF HandleUnsubscribeAllReq
      <3>3. m = [type |-> m.type, client |-> m.client, items |-> m.items]
        BY <2>3, <2>9 DEF OsMsgOK, Subscription
      <3>4. n.client = m.client /\ n.items = DataItemIds
        BY <3>1, <3>3
      <3>5. n.client \in OsClients /\ n.items \subseteq DataItemIds
        BY <2>5, <2>9, <3>4 DEF Subscription
      <3> QED BY <2>1, <2>2, <2>9, <3>2, <3>5, UnsubscribeStep
    <2>10. CASE m.type = "notify" /\ HandleNotify(m)
      BY <2>1, <2>2, <2>10, NotifyStep
    <2>11. CASE m.type = "setSubs" /\ SetSubsObj
      BY <2>1, <2>2, <2>11, SetSubsStep
    <2>12. CASE m.type = "osUpdate" /\ HandleOsObserverUpdateMsg(m)
      BY <2>1, <2>2, <2>12, OsUpdateStep
    <2>13. CASE m.type = "field" /\ UpdateField(m)
      BY <2>1, <2>2, <2>13, FieldStep
    <2>14. CASE m.type = "request" /\ onStatusRequested(m)
      BY <2>1, <2>2, <2>14, RequestStep
    <2> QED BY <2>4, <2>6, <2>7, <2>8, <2>9, <2>10, <2>11, <2>12, <2>13, <2>14
  <1>2. CASE SubscriberCalls \/ setSubscriptionObj \/ AgentNotifies \/ AdapterUpdates
    BY <1>2, PostingStep
  <1>3. CASE eventConnectionStatus
    BY <1>3, ConnectionStatusStep
  <1>4. CASE startListeningBlocking \/ UNCHANGED osVars
    BY <1>4, ListeningStep
  <1>5. CASE DaemonStarts \/ onReceive \/ DaemonStops
    BY <1>5, DaemonStep
  <1> QED BY <1>1, <1>2, <1>3, <1>4, <1>5 DEF OsNext

LEMMA OsInvariant == OsSpec => []OsInv
  BY OsStart, OsStep, PTL DEF OsSpec

(* Subscriptions, XTRA's fields and the daemon's view have their types.    *)
THEOREM OsTypeCorrect == OsSpec => []OsTypeOK
  <1>1. OsInv => OsTypeOK
    BY DEF OsInv, OsTypes, DaemonInv, OsTypeOK
  <1> QED BY <1>1, OsInvariant, PTL

(* When the message task has nothing left to do, every subscriber holds    *)
(* what SystemStatus stored last, the agent was asked for what it is       *)
(* subscribed to, and an answered daemon holds what XTRA's observer holds, *)
(* whatever the order in which subscriptions, notifications, the listener  *)
(* and a restarting daemon came.                                           *)
THEOREM SubscribersAreCurrent == OsSpec => []SubscribersCurrent
  <1>1. ASSUME OsInv, osQueue = <<>>
        PROVE  /\ \A c \in OsClients \ updated : \A i \in mClientToDataItems[c] :
                    /\ c \in mDataItemToClients[i] /\ heard[c][i] = mItems[i]
                    /\ mSubscriptionObj => i \in agent
               /\ \A i \in DataItemIds : mXtra[XtraField[i]] = mItems[i]
               /\ daemon.answered => \A f \in XtraFields \ {"xtrathrottle"} : daemon.view[f] = mXtra[f]
    <2>1. DOMAIN osQueue = {}
      BY <1>1
    <2>2. ASSUME NEW c \in OsClients \ updated, NEW i \in mClientToDataItems[c]
          PROVE  /\ c \in mDataItemToClients[i] /\ heard[c][i] = mItems[i]
                 /\ mSubscriptionObj => i \in agent
      <3>1. i \in DataItemIds
        BY <1>1, <2>2 DEF OsInv, OsTypes, AllClients
      <3>2. c \in mDataItemToClients[i] /\ heard[c][i] = mItems[i]
        BY <1>1, <2>2, <3>1 DEF OsInv, SubInv
      <3>3. i \in Keys(mDataItemToClients)
        BY <1>1, <3>1, <3>2 DEF OsInv, OsTypes, Keys
      <3> QED BY <1>1, <3>2, <3>3 DEF OsInv, SubInv
    <2>3. ASSUME NEW i \in DataItemIds
          PROVE  mXtra[XtraField[i]] = mItems[i]
      <3>1. ~SubscribeWaits(osQueue, i)
        BY <2>1 DEF SubscribeWaits
      <3>2. Leads(i, osQueue, mXtra[XtraField[i]], mItems[i])
        BY <1>1, <3>1 DEF OsInv, XtraInv, XtraItem
      <3> QED BY <1>1, <3>2, LeadsNowhere
    <2>4. daemon.answered => Agrees
      <3>1. ~FirstAskWaits(osQueue)
        BY <2>1 DEF FirstAskWaits
      <3> QED BY <1>1, <3>1 DEF OsInv, DaemonInv
    <2> QED BY <2>2, <2>3, <2>4 DEF Agrees
  <1>2. OsInv => SubscribersCurrent
    BY <1>1 DEF SubscribersCurrent
  <1> QED BY <1>2, OsInvariant, PTL

(* When no message is left, the network types SystemStatus stores are the  *)
(* ones reported as connected: a lost network takes away its own type and  *)
(* no other, except for a type whose loss was the first report of all.     *)
THEOREM ConnectionsAreCurrent == OsSpec => []ConnectionsCurrent
  <1>1. ASSUME OsInv, osQueue = <<>>, mItems["NETWORKINFO"] # NoItem
        PROVE  /\ connected \subseteq mItems["NETWORKINFO"]
               /\ mItems["NETWORKINFO"] \subseteq connected \cup phantom
    <2>1. PICK w : Leads("stored", osQueue, mItems["NETWORKINFO"], w) /\ Networks(w)
      BY <1>1 DEF OsInv, NetworkInv
    <2>2. w = mItems["NETWORKINFO"]
      BY <1>1, <2>1, LeadsNowhere
    <2> QED BY <1>1, <2>1, <2>2 DEF Networks
  <1>2. OsInv => ConnectionsCurrent
    BY <1>1 DEF ConnectionsCurrent
  <1> QED BY <1>2, OsInvariant, PTL

-----------------------------------------------------------------------------
(* A client of the location API.                                           *)
(*                                                                         *)
(* Ending: a session that runs, or whose start is waiting, is held by the  *)
(* client or its end is waiting, after the start.                          *)
Opens(c, t) == c.op \in {"start", "add"} /\ t \in c.sessions
Ends(c, t) == c.op \in {"stop", "remove"} /\ t \in c.sessions

EndInv(q, runs, kept, held) ==
  /\ \A t \in runs \ kept : t \in held \/ \E k \in DOMAIN q : Ends(q[k], t)
  /\ \A p \in DOMAIN q : \A t :
       Opens(q[p], t) => t \in held \/ \E k \in DOMAIN q : k > p /\ Ends(q[k], t)

LEMMA EndAppended ==
  ASSUME NEW q, IsSeq(q), NEW runs, NEW kept, NEW held, EndInv(q, runs, kept, held),
         NEW c, NEW held2, \A t \in held : t \in held2 \/ Ends(c, t),
         \A t : Opens(c, t) => t \in held2
  PROVE  EndInv(Append(q, c), runs, kept, held2)
  <1>1. PICK r : r = Append(q, c)
    OBVIOUS
  <1>2. PICK n \in Nat : n = Len(q)
    BY MixedAppend
  <1>3. DOMAIN q = 1..n /\ DOMAIN r = 1..(n + 1) /\ r[n + 1] = c /\ \A k \in 1..n : r[k] = q[k]
    BY <1>1, <1>2, MixedAppend
  <1>4. (\A k \in 1..n : k \in 1..(n + 1) /\ n + 1 > k) /\ n + 1 \in 1..(n + 1)
    OBVIOUS
  <1>5. \A k \in 1..(n + 1) : k \in 1..n \/ k = n + 1
    OBVIOUS
  <1>6. \A t \in runs \ kept : t \in held2 \/ \E k \in DOMAIN r : Ends(r[k], t)
    BY <1>3, <1>4 DEF EndInv
  <1>7. ASSUME NEW p \in DOMAIN r, NEW t, Opens(r[p], t)
        PROVE  t \in held2 \/ \E k \in DOMAIN r : k > p /\ Ends(r[k], t)
    <2>1. CASE p = n + 1
      BY <1>3, <1>7, <2>1
    <2>2. CASE p \in 1..n
      <3>1. t \in held \/ \E k \in 1..n : k > p /\ Ends(q[k], t)
        BY <1>3, <1>7, <2>2 DEF EndInv
      <3> QED BY <1>3, <1>4, <2>2, <3>1
    <2> QED BY <1>3, <1>5, <2>1, <2>2
  <1> QED BY <1>1, <1>6, <1>7 DEF EndInv

(* A call is handled.                                                      *)
RunsAfter(c, ok, runs) ==
  IF ~ok THEN runs ELSE IF c.op \in {"start", "add"} THEN runs \cup c.sessions
  ELSE IF c.op \in {"stop", "remove"} THEN runs \ c.sessions ELSE runs
KeptAfter(c, ok, runs, kept) ==
  IF c.op \in {"stop", "remove"} /\ ~ok THEN kept \cup (c.sessions \cap runs) ELSE kept

LEMMA EndServed ==
  ASSUME NEW q, IsSeq(q), q # <<>>, NEW runs, NEW kept, NEW held, EndInv(q, runs, kept, held),
         NEW ok \in BOOLEAN
  PROVE  EndInv(Tail(q), RunsAfter(Head(q), ok, runs), KeptAfter(Head(q), ok, runs, kept), held)
  <1>1. PICK r : r = Tail(q)
    OBVIOUS
  <1>2. PICK c : c = Head(q)
    OBVIOUS
  <1>3. PICK n \in Nat : n = Len(q) - 1
    <2>1. Len(q) \in Nat \ {0}
      BY MixedTail
    <2> QED BY <2>1
  <1>4. DOMAIN q = 1..(n + 1) /\ DOMAIN r = 1..n /\ q[1] = c /\ \A k \in 1..n : r[k] = q[k + 1]
    <2>1. Len(q) = n + 1 /\ Len(q) - 1 = n
      BY <1>3, MixedTail
    <2> QED BY <1>1, <1>2, <2>1, MixedTail
  <1>5. \A k \in 1..(n + 1) : k = 1 \/ \E j \in 1..n : k = j + 1
    <2>1. ASSUME NEW k \in 1..(n + 1), k # 1
          PROVE  k - 1 \in 1..n /\ k = (k - 1) + 1
      BY <2>1
    <2> QED BY <2>1
  <1>6. 1 \in 1..(n + 1) /\ \A k \in 1..n : k + 1 \in 1..(n + 1)
    OBVIOUS
  <1>7. PICK runs2, kept2 : runs2 = RunsAfter(c, ok, runs) /\ kept2 = KeptAfter(c, ok, runs, kept)
    OBVIOUS
  <1>8. ASSUME NEW t \in runs2 \ kept2
        PROVE  t \in held \/ \E k \in DOMAIN r : Ends(r[k], t)
    <2>1. t \notin kept /\ ~(Ends(c, t) /\ t \in runs)
      BY <1>7, <1>8 DEF RunsAfter, KeptAfter, Ends
    <2>2. CASE t \in runs
      <3>1. t \in held \/ \E k \in 1..(n + 1) : Ends(q[k], t)
        BY <1>4, <2>1, <2>2 DEF EndInv
      <3> QED BY <1>4, <1>5, <2>1, <2>2, <3>1
    <2>3. CASE t \notin runs
      <3>1. Opens(c, t)
        BY <1>7, <1>8, <2>3 DEF RunsAfter, Opens
      <3>2. t \in held \/ \E k \in 1..(n + 1) : k > 1 /\ Ends(q[k], t)
        BY <1>4, <1>6, <3>1 DEF EndInv
      <3>3. ~(1 > 1)
        OBVIOUS
      <3> QED BY <1>4, <1>5, <3>2, <3>3
    <2> QED BY <2>2, <2>3
  <1>9. ASSUME NEW p \in DOMAIN r, NEW t, Opens(r[p], t)
        PROVE  t \in held \/ \E k \in DOMAIN r : k > p /\ Ends(r[k], t)
    <2>1. p \in 1..n /\ p + 1 \in 1..(n + 1) /\ Opens(q[p + 1], t)
      BY <1>4, <1>6, <1>9
    <2>2. t \in held \/ \E k \in 1..(n + 1) : k > p + 1 /\ Ends(q[k], t)
      BY <1>4, <2>1 DEF EndInv
    <2>3. ASSUME NEW k \in 1..(n + 1), k > p + 1, Ends(q[k], t)
          PROVE  \E j \in 1..n : j > p /\ Ends(r[j], t)
      <3>1. k # 1
        BY <2>1, <2>3
      <3>2. PICK j \in 1..n : k = j + 1
        BY <1>5, <3>1
      <3>3. j > p
        BY <2>1, <2>3, <3>2
      <3> QED BY <1>4, <2>3, <3>2, <3>3
    <2> QED BY <1>4, <2>2, <2>3
  <1> QED BY <1>1, <1>2, <1>7, <1>8, <1>9 DEF EndInv

(* Tracking: the calls waiting for the requested session are those of the  *)
(* requests, in their order, behind the calls of older sessions; a session *)
(* that did not start or was stopped is answered no more.                  *)
Waiting(q, rq, s, runs) ==
  \E d \in Nat :
    /\ Len(q) = d + Len(rq)
    /\ \A k \in 1..d : q[k].sessions # {s}
    /\ \A k \in 1..Len(rq) : /\ q[d + k].sessions = {s} /\ q[d + k].op = rq[k].op
                             /\ k > 1 => rq[k].op # "start"
    /\ \/ d = 0 /\ s \in runs /\ (Len(rq) > 0 => rq[1].op # "start")
       \/ s \notin runs /\ Len(rq) > 0 /\ rq[1].op = "start"

Unanswered(q, s, runs) ==
  s \notin runs /\ \A k \in DOMAIN q : q[k].sessions = {s} /\ q[k].op # "start"

Answering(q, rq, s, runs) == Waiting(q, rq, s, runs) \/ Unanswered(q, s, runs)

LEMMA AnsweringRequested ==
  ASSUME NEW q, IsSeq(q), NEW rq, IsSeq(rq), NEW s, NEW runs, Answering(q, rq, s, runs),
         NEW c, c.sessions = {s}, c.op # "start", NEW x, x.op = c.op
  PROVE  Answering(Append(q, c), Append(rq, x), s, runs)
  <1>1. PICK r, y : r = Append(q, c) /\ y = Append(rq, x)
    OBVIOUS
  <1>2. PICK n \in Nat, m \in Nat : n = Len(q) /\ m = Len(rq)
    BY MixedAppend
  <1>3. /\ DOMAIN q = 1..n /\ DOMAIN r = 1..(n + 1) /\ r[n + 1] = c /\ \A k \in 1..n : r[k] = q[k]
        /\ Len(r) = n + 1
    BY <1>1, <1>2, MixedAppend
  <1>4. y[m + 1] = x /\ (\A k \in 1..m : y[k] = rq[k]) /\ Len(y) = m + 1
    BY <1>1, <1>2, MixedAppend
  <1>5. CASE Waiting(q, rq, s, runs)
    <2>1. PICK d \in Nat :
            /\ n = d + m
            /\ \A k \in 1..d : q[k].sessions # {s}
            /\ \A k \in 1..m : /\ q[d + k].sessions = {s} /\ q[d + k].op = rq[k].op
                               /\ k > 1 => rq[k].op # "start"
            /\ \/ d = 0 /\ s \in runs /\ (m > 0 => rq[1].op # "start")
               \/ s \notin runs /\ m > 0 /\ rq[1].op = "start"
      BY <1>2, <1>5 DEF Waiting
    <2>2. n + 1 = d + (m + 1)
      BY <2>1
    <2>3. \A k \in 1..d : r[k].sessions # {s}
      <3>1. \A k \in 1..d : k \in 1..n
        BY <2>1
      <3> QED BY <1>3, <2>1, <3>1
    <2>4. ASSUME NEW k \in 1..(m + 1)
          PROVE  /\ r[d + k].sessions = {s} /\ r[d + k].op = y[k].op
                 /\ k > 1 => y[k].op # "start"
      <3>1. CASE k = m + 1
        <4>1. d + k = n + 1
          BY <2>1, <3>1
        <4> QED BY <1>3, <1>4, <3>1, <4>1
      <3>2. CASE k # m + 1
        <4>1. k \in 1..m /\ d + k \in 1..n
          BY <2>1, <3>2
        <4> QED BY <1>3, <1>4, <2>1, <4>1
      <3> QED BY <3>1, <3>2
    <2>5. \/ d = 0 /\ s \in runs /\ y[1].op # "start"
          \/ s \notin runs /\ y[1].op = "start"
      <3>1. CASE m = 0
        <4>1. y[1] = x
          BY <1>4, <3>1
        <4>2. ~(m > 0)
          BY <3>1
        <4> QED BY <2>1, <4>1, <4>2
      <3>2. CASE m # 0
        <4>1. m > 0 /\ 1 \in 1..m
          BY <3>2
        <4>2. y[1] = rq[1]
          BY <1>4, <4>1
        <4> QED BY <2>1, <4>1, <4>2
      <3> QED BY <3>1, <3>2
    <2>6. m + 1 > 0
      OBVIOUS
    <2>7. Waiting(r, y, s, runs)
      BY <1>3, <1>4, <2>2, <2>3, <2>4, <2>5, <2>6 DEF Waiting
    <2> QED BY <1>1, <2>7 DEF Answering
  <1>6. CASE Unanswered(q, s, runs)
    <2>1. \A k \in 1..(n + 1) : k \in 1..n \/ k = n + 1
      OBVIOUS
    <2>2. Unanswered(r, s, runs)
      BY <1>3, <1>6, <2>1 DEF Unanswered
    <2> QED BY <1>1, <2>2 DEF Answering
  <1> QED BY <1>5, <1>6 DEF Answering

(* A new session: its queue has the one request that is behind all calls.  *)
LEMMA AnsweringStarted ==
  ASSUME NEW q, IsSeq(q), NEW s, NEW runs, s \notin runs, \A k \in DOMAIN q : q[k].sessions # {s},
         NEW c, c.sessions = {s}, c.op = "start", NEW x, x.op = "start"
  PROVE  Answering(Append(q, c), <<x>>, s, runs)
  <1>1. PICK r : r = Append(q, c)
    OBVIOUS
  <1>2. PICK n \in Nat : n = Len(q)
    BY MixedAppend
  <1>3. /\ DOMAIN q = 1..n /\ r[n + 1] = c /\ \A k \in 1..n : r[k] = q[k]
        /\ Len(r) = n + 1
    BY <1>1, <1>2, MixedAppend
  <1>4. PICK y : y = <<x>>
    OBVIOUS
  <1>5. Len(y) = 1 /\ y[1] = x
    BY <1>4
  <1>6. \A k \in 1..1 : k = 1 /\ ~(k > 1) /\ n + k = n + 1
    OBVIOUS
  <1>7. 1 > 0
    OBVIOUS
  <1>8. Waiting(r, y, s, runs)
    BY <1>2, <1>3, <1>5, <1>6, <1>7 DEF Waiting
  <1> QED BY <1>1, <1>4, <1>8 DEF Answering

LEMMA AnsweringServed ==
  ASSUME NEW q, IsSeq(q), q # <<>>, NEW rq, IsSeq(rq), NEW s, NEW runs, Answering(q, rq, s, runs),
         NEW c, c = Head(q), NEW t, c.sessions = {t}, c.op # "add", NEW ok \in BOOLEAN,
         NEW answered \in BOOLEAN,
         answered <=> (c.op = "start" \/ c.sessions \subseteq runs) /\ rq # <<>> /\ t = s
  PROVE  /\ Answering(Tail(q), IF answered THEN Tail(rq) ELSE rq, s, RunsAfter(c, ok, runs))
         /\ answered => Head(rq).op = c.op
  <1>1. PICK r : r = Tail(q)
    OBVIOUS
  <1>2. PICK n \in Nat : n = Len(q) - 1
    <2>1. Len(q) \in Nat \ {0}
      BY MixedTail
    <2> QED BY <2>1
  <1>3. /\ DOMAIN q = 1..(n + 1) /\ DOMAIN r = 1..n /\ q[1] = c /\ Len(q) = n + 1 /\ Len(r) = n
        /\ \A k \in 1..n : r[k] = q[k + 1]
    <2>1. Len(q) = n + 1 /\ Len(q) - 1 = n
      BY <1>2, MixedTail
    <2> QED BY <1>1, <2>1, MixedTail
  <1>4. PICK m \in Nat : m = Len(rq)
    BY MixedAppend
  <1>5. rq = <<>> => m = 0
    BY <1>4
  <1>6. ASSUME rq # <<>>
        PROVE  /\ m \in Nat \ {0} /\ Head(rq) = rq[1] /\ Len(Tail(rq)) = m - 1
               /\ \A k \in 1..(m - 1) : Tail(rq)[k] = rq[k + 1]
    BY <1>4, <1>6, MixedTail
  <1>7. PICK runs2 : runs2 = RunsAfter(c, ok, runs)
    OBVIOUS
  <1>8. CASE Unanswered(q, s, runs)
    <2>1. 1 \in 1..(n + 1) /\ \A k \in 1..n : k + 1 \in 1..(n + 1)
      OBVIOUS
    <2>2. c.sessions = {s} /\ c.op # "start" /\ s \notin runs
      BY <1>3, <1>8, <2>1 DEF Unanswered
    <2>3. ~answered
      BY <2>2
    <2>4. s \notin runs2
      BY <1>7, <2>2 DEF RunsAfter
    <2>5. Unanswered(r, s, runs2)
      BY <1>3, <1>8, <2>1, <2>4 DEF Unanswered
    <2> QED BY <1>1, <1>7, <2>3, <2>5 DEF Answering
  <1>9. CASE Waiting(q, rq, s, runs)
    <2>1. PICK d \in Nat :
            /\ n + 1 = d + m
            /\ \A k \in 1..d : q[k].sessions # {s}
            /\ \A k \in 1..m : /\ q[d + k].sessions = {s} /\ q[d + k].op = rq[k].op
                               /\ k > 1 => rq[k].op # "start"
            /\ \/ d = 0 /\ s \in runs /\ (m > 0 => rq[1].op # "start")
               \/ s \notin runs /\ m > 0 /\ rq[1].op = "start"
      BY <1>3, <1>4, <1>9 DEF Waiting
    <2>2. CASE d # 0
      <3>1. 1 \in 1..d
        BY <2>2
      <3>2. t # s
        BY <1>3, <2>1, <3>1
      <3>3. ~answered
        BY <3>2
      <3>4. s \notin runs2 /\ m > 0 /\ rq[1].op = "start"
        BY <1>7, <2>1, <2>2, <3>2 DEF RunsAfter
      <3>5. PICK e \in Nat : e = d - 1
        BY <2>2
      <3>6. n = e + m
        BY <2>1, <3>5
      <3>7. ASSUME NEW k \in 1..e
            PROVE  r[k].sessions # {s}
        <4>1. k \in 1..n /\ k + 1 \in 1..d
          BY <3>5, <3>6
        <4> QED BY <1>3, <2>1, <4>1
      <3>8. ASSUME NEW k \in 1..m
            PROVE  /\ r[e + k].sessions = {s} /\ r[e + k].op = rq[k].op
                   /\ k > 1 => rq[k].op # "start"
        <4>1. e + k \in 1..n /\ (e + k) + 1 = d + k
          BY <3>5, <3>6
        <4>2. r[e + k] = q[d + k]
          BY <1>3, <4>1
        <4> QED BY <2>1, <4>2
      <3>9. Waiting(r, rq, s, runs2)
        BY <1>3, <1>4, <3>4, <3>6, <3>7, <3>8 DEF Waiting
      <3> QED BY <1>1, <1>7, <3>3, <3>9 DEF Answering
    <2>3. CASE d = 0
      <3>1. m = n + 1 /\ m > 0 /\ 1 \in 1..m /\ d + 1 = 1 /\ m - 1 = n
        BY <2>1, <2>3
      <3>2. c.sessions = {s} /\ c.op = rq[1].op /\ t = s
        <4>1. q[d + 1].sessions = {s} /\ q[d + 1].op = rq[1].op
          BY <2>1, <3>1
        <4> QED BY <1>3, <3>1, <4>1
      <3>3. rq # <<>>
        BY <1>5, <3>1
      <3>4. s \in runs \/ c.op = "start"
        BY <2>1, <3>2
      <3>5. answered
        BY <3>2, <3>3, <3>4
      <3>6. Head(rq).op = c.op
        BY <1>6, <3>2, <3>3
      <3>7. PICK y : y = Tail(rq)
        OBVIOUS
      <3>8. Len(y) = n /\ \A k \in 1..n : y[k] = rq[k + 1]
        BY <1>6, <3>1, <3>3, <3>7
      <3>9. ASSUME NEW k \in 1..n
            PROVE  r[k].sessions = {s} /\ r[k].op = y[k].op /\ y[k].op # "start"
        <4>1. k + 1 \in 1..m /\ k + 1 > 1 /\ d + (k + 1) = k + 1
          BY <2>3, <3>1
        <4>2. /\ q[d + (k + 1)].sessions = {s} /\ q[d + (k + 1)].op = rq[k + 1].op
              /\ rq[k + 1].op # "start"
          BY <2>1, <4>1
        <4> QED BY <1>3, <3>8, <4>1, <4>2
      <3>10. CASE s \in runs2
        <4>1. 0 + n = n /\ (n > 0 => 1 \in 1..n) /\ 0 \in Nat
          OBVIOUS
        <4>2. \A k \in 1..0 : r[k].sessions # {s}
          OBVIOUS
        <4>3. \A k \in 1..n : /\ r[0 + k].sessions = {s} /\ r[0 + k].op = y[k].op
                              /\ k > 1 => y[k].op # "start"
          <5>1. \A k \in 1..n : 0 + k = k
            OBVIOUS
          <5> QED BY <3>9, <5>1
        <4>4. n > 0 => y[1].op # "start"
          BY <3>9, <4>1
        <4>5. Waiting(r, y, s, runs2)
          BY <1>3, <3>8, <3>10, <4>1, <4>2, <4>3, <4>4 DEF Waiting
        <4> QED BY <1>1, <1>7, <3>5, <3>6, <3>7, <4>5 DEF Answering
      <3>11. CASE s \notin runs2
        <4>1. Unanswered(r, s, runs2)
          BY <1>3, <3>9, <3>11 DEF Unanswered
        <4> QED BY <1>1, <1>7, <3>5, <3>6, <3>7, <4>1 DEF Answering
      <3> QED BY <3>10, <3>11
    <2> QED BY <2>2, <2>3
  <1> QED BY <1>8, <1>9 DEF Answering

(* Geofences: one request for each call, in their order.                   *)
Matches(x, c) ==
  x.op = c.op /\ (c.op = "remove" => {getId(x.removed, s) : s \in c.sessions} = c.ids)

Lockstep(q, rq) == Len(q) = Len(rq) /\ \A k \in DOMAIN q : Matches(rq[k], q[k])

LEMMA LockstepAppended ==
  ASSUME NEW q, IsSeq(q), NEW rq, IsSeq(rq), Lockstep(q, rq), NEW c, NEW x, Matches(x, c)
  PROVE  Lockstep(Append(q, c), Append(rq, x))
  <1>1. PICK r, y : r = Append(q, c) /\ y = Append(rq, x)
    OBVIOUS
  <1>2. PICK n \in Nat : n = Len(q)
    BY MixedAppend
  <1>3. n = Len(rq)
    BY <1>2 DEF Lockstep
  <1>4. /\ DOMAIN q = 1..n /\ DOMAIN r = 1..(n + 1) /\ r[n + 1] = c /\ \A k \in 1..n : r[k] = q[k]
        /\ Len(r) = n + 1
    BY <1>1, <1>2, MixedAppend
  <1>5. y[n + 1] = x /\ (\A k \in 1..n : y[k] = rq[k]) /\ Len(y) = n + 1
    BY <1>1, <1>3, MixedAppend
  <1>6. \A k \in 1..(n + 1) : k \in 1..n \/ k = n + 1
    OBVIOUS
  <1>7. Lockstep(r, y)
    BY <1>4, <1>5, <1>6 DEF Lockstep
  <1> QED BY <1>1, <1>7

LEMMA LockstepServed ==
  ASSUME NEW q, IsSeq(q), q # <<>>, NEW rq, IsSeq(rq), Lockstep(q, rq)
  PROVE  rq # <<>> /\ Lockstep(Tail(q), Tail(rq)) /\ Matches(Head(rq), Head(q))
  <1>1. PICK n \in Nat : n = Len(q) - 1
    <2>1. Len(q) \in Nat \ {0}
      BY MixedTail
    <2> QED BY <2>1
  <1>2. Len(q) = n + 1 /\ Len(rq) = n + 1 /\ n = (n + 1) - 1
    BY <1>1, MixedTail DEF Lockstep
  <1>3. rq # <<>>
    <2>1. rq = <<>> => Len(rq) = 0
      OBVIOUS
    <2> QED BY <1>2, <2>1
  <1>4. PICK r, y : r = Tail(q) /\ y = Tail(rq)
    OBVIOUS
  <1>5. /\ DOMAIN q = 1..(n + 1) /\ DOMAIN r = 1..n /\ Len(r) = n /\ Head(q) = q[1]
        /\ \A k \in 1..n : r[k] = q[k + 1]
    BY <1>2, <1>4, MixedTail
  <1>6. Len(y) = n /\ Head(rq) = rq[1] /\ \A k \in 1..n : y[k] = rq[k + 1]
    BY <1>2, <1>3, <1>4, MixedTail
  <1>7. 1 \in 1..(n + 1) /\ \A k \in 1..n : k + 1 \in 1..(n + 1)
    OBVIOUS
  <1>8. Lockstep(r, y) /\ Matches(rq[1], q[1])
    BY <1>5, <1>6, <1>7 DEF Lockstep
  <1> QED BY <1>3, <1>4, <1>5, <1>6, <1>8

(* The invariant.  Only what the client was asked to load is loaded, once; *)
(* the rest is said of the clients the two properties are about.           *)
HeldSessions == IF apiRole = "tracking" THEN IF mTracking THEN {reqSession} ELSE {} ELSE DOMAIN backwardMap

ApiLoaded ==
  /\ apiRole \in {"tracking", "session", "geofence"}
  /\ interfaces \subseteq Wanted
  /\ ~mLocationAPI => interfaces = {}

ApiTypes ==
  /\ ~mLocationAPI => reqSession = 0
  /\ lastSession \in [Interfaces -> Nat]
  /\ DOMAIN calls = Interfaces /\ DOMAIN live = Interfaces /\ DOMAIN refused = Interfaces
  /\ IsSeq(reqQueue)
  /\ \A i \in Interfaces :
       /\ IsSeq(calls[i]) /\ live[i] \subseteq 1..lastSession[i]
       /\ \A k \in DOMAIN calls[i] : calls[i][k].sessions \subseteq 1..lastSession[i]
       /\ i \notin interfaces => calls[i] = <<>> /\ live[i] = {}

OneSession(c) == c.op # "add" /\ \E t : c.sessions = {t}

TrackInv ==
  /\ reqSession \in Nat
  /\ \A i \in interfaces : reqSession <= lastSession[i]
  /\ \A i \in Interfaces :
       /\ ~collided => Answering(calls[i], reqQueue, reqSession, live[i])
       /\ \A k \in DOMAIN calls[i] : OneSession(calls[i][k])

(* The dictionary is a bijection of ids and sessions.                      *)
DictInv ==
  /\ DOMAIN extMap = DOMAIN backwardMap /\ DOMAIN forwardMap \subseteq GeofenceIds
  /\ \A i \in DOMAIN forwardMap : /\ forwardMap[i] \in 1..lastSession["geofence"]
                                  /\ forwardMap[i] \in DOMAIN backwardMap
                                  /\ backwardMap[forwardMap[i]] = i
  /\ \A s \in DOMAIN backwardMap : backwardMap[s] \in DOMAIN forwardMap /\ forwardMap[backwardMap[s]] = s

FenceInv ==
  /\ reqSession # 0 => "geofence" \in interfaces
  /\ Lockstep(calls["geofence"], reqQueue)
  /\ DictInv

EndsInv == \A i \in Interfaces : EndInv(calls[i], live[i], refused[i], HeldSessions)

ScopeInv ==
  /\ ApiTypes /\ (~collided => ~mismatch)
  /\ apiRole = "tracking" => TrackInv
  /\ apiRole = "geofence" => FenceInv
  /\ EndsInv

ApiInv == ApiLoaded /\ (InScope => ScopeInv)

(* A collision of a session with the id of an NI response is remembered.   *)
CollisionKept == collided => collided'

(* The responses to network-initiated requests.  Until the first collision *)
(* the answer to one finds no tracking request, and no other answer finds  *)
(* the request of one.                                                     *)
NiInv ==
  /\ niRequest \in BOOLEAN /\ collided \in BOOLEAN /\ niSession \in NiIds \cup {0}
  /\ IsSeq(niCalls) /\ \A k \in DOMAIN niCalls : niCalls[k].id \in NiIds
  /\ apiRole # "tracking" => DOMAIN niCalls = {}
  /\ ~collided => ~IdShared

LEMMA TrackingScope ==
  ASSUME ApiInv, InScope, apiRole = "tracking"
  PROVE  /\ interfaces = {} \/ \E i \in Interfaces : interfaces = {i}
         /\ \A d : TrackingInterface(d) = interfaces
         /\ ScopeInv /\ TrackInv
  <1>1. interfaces \subseteq {"gnss", "flp"} /\ ~({"gnss", "flp"} \subseteq interfaces)
    BY DEF ApiInv, ApiLoaded, Wanted, InScope
  <1>2. interfaces = {} \/ interfaces = {"gnss"} \/ interfaces = {"flp"}
    BY <1>1
  <1>3. \A d : TrackingInterface(d) = interfaces
    BY <1>2 DEF TrackingInterface, needsGnssTrackingInfo
  <1> QED BY <1>2, <1>3 DEF Interfaces, ApiInv, ScopeInv

(* A call is put at the end of what waits in the interfaces it goes to.    *)
LEMMA SentTyped ==
  ASSUME ApiTypes, NEW to, NEW c, calls' = Sent(calls, to, c),
         NEW rq, IsSeq(rq), reqQueue' = rq, mLocationAPI,
         UNCHANGED <<interfaces, mLocationAPI, live, refused>>,
         lastSession' \in [Interfaces -> Nat],
         \A i \in Interfaces : lastSession[i] <= lastSession'[i],
         \A i \in to \cap interfaces : c.sessions \subseteq 1..lastSession'[i]
  PROVE  /\ ApiTypes'
         /\ \A i \in Interfaces : calls'[i] = IF i \in to \cap interfaces THEN Append(calls[i], c) ELSE calls[i]
  <1>1. \A i \in Interfaces : calls'[i] = IF i \in to \cap interfaces THEN Append(calls[i], c) ELSE calls[i]
    BY DEF Sent
  <1>2. DOMAIN calls' = Interfaces
    BY DEF Sent
  <1>3. ASSUME NEW i \in Interfaces
        PROVE  /\ IsSeq(calls'[i]) /\ live[i] \subseteq 1..lastSession'[i]
               /\ \A k \in DOMAIN calls'[i] : calls'[i][k].sessions \subseteq 1..lastSession'[i]
               /\ i \notin interfaces => calls'[i] = <<>> /\ live[i] = {}
    <2>1. PICK n \in Nat, m \in Nat : n = lastSession[i] /\ m = lastSession'[i]
      BY DEF ApiTypes
    <2>2. 1..n \subseteq 1..m
      BY <2>1
    <2>3. /\ IsSeq(calls[i]) /\ live[i] \subseteq 1..n
          /\ \A k \in DOMAIN calls[i] : calls[i][k].sessions \subseteq 1..n
          /\ i \notin interfaces => calls[i] = <<>> /\ live[i] = {}
      BY <2>1 DEF ApiTypes
    <2>4. CASE i \in to \cap interfaces
      <3>1. PICK r : r = Append(calls[i], c)
        OBVIOUS
      <3>2. PICK l \in Nat : l = Len(calls[i])
        BY <2>3, MixedAppend
      <3>3. /\ IsSeq(r) /\ DOMAIN calls[i] = 1..l /\ DOMAIN r = 1..(l + 1)
            /\ r[l + 1] = c /\ \A k \in 1..l : r[k] = calls[i][k]
        BY <2>3, <3>1, <3>2, MixedAppend
      <3>4. \A k \in 1..(l + 1) : k \in 1..l \/ k = l + 1
        OBVIOUS
      <3>5. \A k \in DOMAIN r : r[k].sessions \subseteq 1..m
        BY <2>1, <2>2, <2>3, <2>4, <3>3, <3>4
      <3> QED BY <1>1, <2>1, <2>2, <2>3, <2>4, <3>1, <3>3, <3>5
    <2>5. CASE i \notin to \cap interfaces
      BY <1>1, <2>1, <2>2, <2>3, <2>5
    <2> QED BY <2>4, <2>5
  <1> QED BY <1>1, <1>2, <1>3 DEF ApiTypes

LEMMA SingleAppended ==
  ASSUME NEW q, IsSeq(q), \A k \in DOMAIN q : OneSession(q[k]),
         NEW c, OneSession(c)
  PROVE  \A k \in DOMAIN Append(q, c) : OneSession(Append(q, c)[k])
  <1>1. PICK r : r = Append(q, c)
    OBVIOUS
  <1>2. PICK l \in Nat : l = Len(q)
    BY MixedAppend
  <1>3. DOMAIN q = 1..l /\ DOMAIN r = 1..(l + 1) /\ r[l + 1] = c /\ \A k \in 1..l : r[k] = q[k]
    BY <1>1, <1>2, MixedAppend
  <1>4. \A k \in 1..(l + 1) : k \in 1..l \/ k = l + 1
    OBVIOUS
  <1>5. \A k \in DOMAIN r : OneSession(r[k])
    BY <1>3, <1>4
  <1> QED BY <1>1, <1>5

(* Tracking is started.                                                    *)
LEMMA StartTrackingStep ==
  ASSUME ApiInv, CollisionKept, NEW d, locAPIStartTracking(d)
  PROVE  ApiInv'
  <1>1. /\ apiRole = "tracking" /\ mLocationAPI /\ ~mTracking /\ mTracking' = TRUE
        /\ UNCHANGED <<apiRole, interfaces, mLocationAPI, live, refused, mismatch>>
    BY DEF locAPIStartTracking, ClientCalls
  <1>2. ApiLoaded'
    BY <1>1 DEF ApiInv, ApiLoaded, Wanted
  <1>3. SUFFICES ASSUME InScope
                 PROVE  ScopeInv'
    BY <1>1, <1>2 DEF ApiInv, InScope
  <1>4. /\ interfaces = {} \/ \E i \in Interfaces : interfaces = {i}
        /\ TrackingInterface(d) = interfaces
        /\ ScopeInv /\ TrackInv /\ ApiTypes
    BY <1>1, <1>3, TrackingScope DEF ScopeInv
  <1>5. PICK s : s = NextSession(interfaces)
    OBVIOUS
  <1>6. PICK c : c = Call("start", {s}, {})
    OBVIOUS
  <1>7. c.op = "start" /\ c.sessions = {s}
    BY <1>6 DEF Call
  <1>8. PICK x : x = Request("start")
    OBVIOUS
  <1>9. x.op = "start"
    BY <1>8 DEF Request
  <1>10. /\ reqSession' = s /\ reqQueue' = <<x>>
         /\ lastSession' = [i \in Interfaces |-> IF i \in interfaces THEN lastSession[i] + 1 ELSE lastSession[i]]
         /\ calls' = Sent(calls, interfaces, c)
    BY <1>4, <1>5, <1>6, <1>8 DEF locAPIStartTracking, Allocated
  <1>11. /\ s \in Nat /\ \A i \in interfaces : s = lastSession[i] + 1 /\ s = lastSession'[i]
         /\ interfaces \subseteq Interfaces
    <2>1. CASE interfaces = {}
      BY <1>5, <2>1 DEF NextSession
    <2>2. ASSUME NEW i \in Interfaces, interfaces = {i}
          PROVE  s \in Nat /\ s = lastSession[i] + 1 /\ lastSession'[i] = lastSession[i] + 1
      <3>1. (CHOOSE j \in interfaces : TRUE) = i
        BY <2>2
      <3>2. s = lastSession[i] + 1
        BY <1>5, <2>2, <3>1 DEF NextSession
      <3> QED BY <1>4, <1>10, <2>2, <3>2 DEF ApiTypes
    <2> QED BY <1>4, <2>1, <2>2
  <1>12. lastSession' \in [Interfaces -> Nat] /\ \A i \in Interfaces : lastSession[i] <= lastSession'[i]
    BY <1>4, <1>10 DEF ApiTypes
  <1>13. IsSeq(<<x>>)
    <2>1. <<x>> \in Seq({x})
      OBVIOUS
    <2> QED BY <2>1 DEF IsSeq
  <1>14. \A i \in interfaces : {s} \subseteq 1..lastSession'[i]
    BY <1>4, <1>11 DEF ApiTypes
  <1>15. /\ ApiTypes'
         /\ \A i \in Interfaces :
              calls'[i] = IF i \in interfaces THEN Append(calls[i], c) ELSE calls[i]
    BY <1>1, <1>4, <1>7, <1>10, <1>12, <1>13, <1>14, SentTyped
  <1>16. ASSUME NEW i \in interfaces
         PROVE  s \notin live[i] /\ \A k \in DOMAIN calls[i] : calls[i][k].sessions # {s}
    <2>1. s \notin 1..lastSession[i]
      BY <1>4, <1>11, <1>16 DEF ApiTypes
    <2> QED BY <1>4, <1>11, <1>16, <2>1 DEF ApiTypes
  <1>17. TrackInv'
    <2>1. ASSUME NEW i \in Interfaces
          PROVE  /\ Answering(calls'[i], <<x>>, s, live[i])
                 /\ \A k \in DOMAIN calls'[i] : OneSession(calls'[i][k])
      <3>1. CASE i \in interfaces
        <4>1. Answering(Append(calls[i], c), <<x>>, s, live[i])
          BY <1>4, <1>7, <1>9, <1>16, <3>1, AnsweringStarted DEF ApiTypes
        <4>2. \A k \in DOMAIN Append(calls[i], c) :
                OneSession(Append(calls[i], c)[k])
          <5>1. PICK q : q = calls[i]
            OBVIOUS
          <5>2. IsSeq(q) /\ \A k \in DOMAIN q : OneSession(q[k])
            BY <1>4, <5>1 DEF ApiTypes, TrackInv
          <5>3. OneSession(c)
            BY <1>7 DEF OneSession
          <5>4. \A k \in DOMAIN Append(q, c) : OneSession(Append(q, c)[k])
            BY <5>2, <5>3, SingleAppended
          <5> QED BY <5>1, <5>4
        <4> QED BY <1>15, <3>1, <4>1, <4>2
      <3>2. CASE i \notin interfaces
        <4>1. calls'[i] = <<>> /\ live[i] = {}
          BY <1>4, <1>15, <3>2 DEF ApiTypes
        <4> QED BY <4>1 DEF Answering, Unanswered
      <3> QED BY <3>1, <3>2
    <2>2. \A i \in interfaces : s <= lastSession'[i]
      BY <1>11
    <2> QED BY <1>1, <1>10, <1>11, <2>1, <2>2 DEF TrackInv
  <1>18. EndsInv'
    <2>1. HeldSessions = {} /\ HeldSessions' = {s}
      BY <1>1, <1>10 DEF HeldSessions
    <2>2. ASSUME NEW i \in Interfaces
          PROVE  EndInv(calls'[i], live[i], refused[i], {s})
      <3>1. EndInv(calls[i], live[i], refused[i], {})
        BY <1>4, <2>1 DEF ScopeInv, EndsInv
      <3>2. CASE i \in interfaces
        <4>1. \A t : Opens(c, t) => t \in {s}
          BY <1>7 DEF Opens
        <4>2. EndInv(Append(calls[i], c), live[i], refused[i], {s})
          BY <1>4, <3>1, <4>1, EndAppended DEF ApiTypes
        <4> QED BY <1>15, <3>2, <4>2
      <3>3. CASE i \notin interfaces
        BY <1>15, <3>1, <3>3 DEF EndInv
      <3> QED BY <3>2, <3>3
    <2> QED BY <1>1, <2>1, <2>2 DEF EndsInv
  <1> QED BY <1>1, <1>4, <1>15, <1>17, <1>18 DEF ScopeInv, CollisionKept

(* Tracking is stopped or gets new options.                                *)
LEMMA StopTrackingStep ==
  ASSUME ApiInv, CollisionKept, NEW op \in {"stop", "update"}, StopOrUpdateTracking(op)
  PROVE  ApiInv'
  <1>1. /\ apiRole = "tracking" /\ mLocationAPI /\ reqSession > 0
        /\ mTracking' = IF op = "stop" THEN FALSE ELSE mTracking
        /\ UNCHANGED <<apiRole, interfaces, mLocationAPI, live, refused, mismatch, reqSession, lastSession>>
    BY DEF StopOrUpdateTracking, ClientCalls
  <1>2. ApiLoaded'
    BY <1>1 DEF ApiInv, ApiLoaded, Wanted
  <1>3. SUFFICES ASSUME InScope
                 PROVE  ScopeInv'
    BY <1>1, <1>2 DEF ApiInv, InScope
  <1>4. ScopeInv /\ TrackInv /\ ApiTypes
    BY <1>1, <1>3, TrackingScope DEF ScopeInv
  <1>5. PICK s \in Nat : s = reqSession
    BY <1>4 DEF TrackInv
  <1>6. PICK c : c = Call(op, {s}, {})
    OBVIOUS
  <1>7. c.op = op /\ c.sessions = {s}
    BY <1>6 DEF Call
  <1>8. PICK x : x = Request(op)
    OBVIOUS
  <1>9. x.op = op
    BY <1>8 DEF Request
  <1>10. reqQueue' = Append(reqQueue, x) /\ calls' = Sent(calls, {"gnss", "flp"}, c)
    BY <1>5, <1>6, <1>8 DEF StopOrUpdateTracking
  <1>11. interfaces \subseteq Interfaces /\ {"gnss", "flp"} \cap interfaces = interfaces
    BY <1>1 DEF Interfaces, ApiInv, ApiLoaded, Wanted
  <1>12. IsSeq(Append(reqQueue, x))
    BY <1>4, MixedAppend DEF ApiTypes
  <1>13. \A i \in interfaces : {s} \subseteq 1..lastSession'[i]
    BY <1>1, <1>4, <1>5, <1>11 DEF ApiTypes, TrackInv
  <1>14. \A i \in Interfaces : lastSession[i] <= lastSession'[i]
    BY <1>1, <1>4 DEF ApiTypes
  <1>15. /\ ApiTypes'
         /\ \A i \in Interfaces :
              calls'[i] = IF i \in interfaces THEN Append(calls[i], c) ELSE calls[i]
    <2>1. lastSession' \in [Interfaces -> Nat]
      BY <1>1, <1>4 DEF ApiTypes
    <2>2. PICK to : to = {"gnss", "flp"}
      OBVIOUS
    <2>3. to \cap interfaces = interfaces /\ calls' = Sent(calls, to, c)
      BY <1>10, <1>11, <2>2
    <2>4. \A i \in to \cap interfaces : c.sessions \subseteq 1..lastSession'[i]
      BY <1>7, <1>13, <2>3
    <2>5. UNCHANGED <<interfaces, mLocationAPI, live, refused>> /\ mLocationAPI
      BY <1>1
    <2>6. /\ ApiTypes'
          /\ \A i \in Interfaces : calls'[i] = IF i \in to \cap interfaces THEN Append(calls[i], c) ELSE calls[i]
      BY <1>4, <1>10, <1>12, <1>14, <2>1, <2>3, <2>4, <2>5, SentTyped
    <2> QED BY <2>3, <2>6
  <1>16. TrackInv'
    <2>1. ASSUME NEW i \in Interfaces
          PROVE  /\ ~collided' => Answering(calls'[i], reqQueue', s, live[i])
                 /\ \A k \in DOMAIN calls'[i] : OneSession(calls'[i][k])
      <3>1. CASE i \in interfaces
        <4>1. ~collided' => Answering(Append(calls[i], c), Append(reqQueue, x), s, live[i])
          <5>1. ASSUME ~collided'
                PROVE  Answering(calls[i], reqQueue, s, live[i])
            BY <1>4, <1>5, <5>1 DEF TrackInv, CollisionKept
          <5> QED BY <1>4, <1>5, <1>7, <1>9, <5>1, AnsweringRequested DEF ApiTypes
        <4>2. \A k \in DOMAIN Append(calls[i], c) :
                OneSession(Append(calls[i], c)[k])
          <5>1. PICK q : q = calls[i]
            OBVIOUS
          <5>2. IsSeq(q) /\ \A k \in DOMAIN q : OneSession(q[k])
            BY <1>4, <5>1 DEF ApiTypes, TrackInv
          <5>3. OneSession(c)
            BY <1>7 DEF OneSession
          <5>4. \A k \in DOMAIN Append(q, c) : OneSession(Append(q, c)[k])
            BY <5>2, <5>3, SingleAppended
          <5> QED BY <5>1, <5>4
        <4> QED BY <1>10, <1>15, <3>1, <4>1, <4>2
      <3>2. CASE i \notin interfaces
        <4>1. calls'[i] = <<>> /\ live[i] = {}
          BY <1>4, <1>15, <3>2 DEF ApiTypes
        <4> QED BY <4>1 DEF Answering, Unanswered
      <3> QED BY <3>1, <3>2
    <2> QED BY <1>1, <1>4, <1>5, <2>1 DEF TrackInv
  <1>17. EndsInv'
    <2>1. PICK held, held2 : held = HeldSessions /\ held2 = HeldSessions'
      OBVIOUS
    <2>2. \A t \in held : t \in held2 \/ Ends(c, t)
      BY <1>1, <1>5, <1>7, <2>1 DEF HeldSessions, Ends
    <2>3. \A t : ~Opens(c, t)
      BY <1>7 DEF Opens
    <2>4. ASSUME NEW i \in Interfaces
          PROVE  EndInv(calls'[i], live[i], refused[i], held2)
      <3>1. EndInv(calls[i], live[i], refused[i], held)
        BY <1>4, <2>1 DEF ScopeInv, EndsInv
      <3>2. CASE i \in interfaces
        <4>1. EndInv(Append(calls[i], c), live[i], refused[i], held2)
          BY <1>4, <2>2, <2>3, <3>1, EndAppended DEF ApiTypes
        <4> QED BY <1>15, <3>2, <4>1
      <3>3. CASE i \notin interfaces
        <4>1. calls'[i] = <<>> /\ live[i] = {}
          BY <1>4, <1>15, <3>3 DEF ApiTypes
        <4> QED BY <4>1 DEF EndInv
      <3> QED BY <3>2, <3>3
    <2> QED BY <1>1, <2>1, <2>4 DEF EndsInv
  <1> QED BY <1>1, <1>4, <1>15, <1>16, <1>17 DEF ScopeInv, CollisionKept

(* A call about geofences.                                                 *)
LEMMA FenceCallStep ==
  ASSUME ApiInv, CollisionKept, apiRole = "geofence", mLocationAPI, "geofence" \in interfaces,
         NEW c, NEW x, Matches(x, c), calls' = Sent(calls, {"geofence"}, c),
         reqQueue' = Append(reqQueue, x),
         UNCHANGED <<apiRole, interfaces, mLocationAPI, live, refused, mismatch>>,
         lastSession' \in [Interfaces -> Nat],
         \A i \in Interfaces : lastSession[i] <= lastSession'[i],
         c.sessions \subseteq 1..lastSession'["geofence"],
         DictInv', NEW known, known = DOMAIN backwardMap',
         \A t \in DOMAIN backwardMap : t \in known \/ Ends(c, t),
         \A t : Opens(c, t) => t \in known
  PROVE  ApiInv'
  <1>1. ApiLoaded'
    BY DEF ApiInv, ApiLoaded, Wanted
  <1>2. InScope
    BY DEF InScope, ApiInv, ApiLoaded, Wanted
  <1>3. ScopeInv /\ ApiTypes /\ FenceInv
    BY <1>2 DEF ApiInv, ScopeInv
  <1>4. "geofence" \in Interfaces /\ {"geofence"} \cap interfaces = {"geofence"}
    BY DEF Interfaces
  <1>5. /\ ApiTypes'
        /\ \A i \in Interfaces :
             calls'[i] = IF i \in {"geofence"} THEN Append(calls[i], c) ELSE calls[i]
    <2>1. PICK to : to = {"geofence"}
      OBVIOUS
    <2>2. IsSeq(Append(reqQueue, x))
      BY <1>3, MixedAppend DEF ApiTypes
    <2>3. \A i \in to \cap interfaces : c.sessions \subseteq 1..lastSession'[i]
      BY <1>4, <2>1
    <2>4. UNCHANGED <<interfaces, mLocationAPI, live, refused>> /\ calls' = Sent(calls, to, c)
      BY <2>1
    <2>5. /\ ApiTypes'
          /\ \A i \in Interfaces : calls'[i] = IF i \in to \cap interfaces THEN Append(calls[i], c) ELSE calls[i]
      BY <1>3, <2>2, <2>3, <2>4, SentTyped
    <2> QED BY <1>4, <2>1, <2>5
  <1>6. FenceInv'
    <2>1. Lockstep(Append(calls["geofence"], c), Append(reqQueue, x))
      BY <1>3, <1>4, LockstepAppended DEF FenceInv, ApiTypes
    <2>2. Lockstep(calls["geofence"], reqQueue)'
      BY <1>4, <1>5, <2>1
    <2> QED BY <2>2 DEF FenceInv
  <1>7. EndsInv'
    <2>1. HeldSessions = DOMAIN backwardMap /\ HeldSessions' = known
      BY DEF HeldSessions
    <2>2. PICK held : held = HeldSessions
      OBVIOUS
    <2>3. ASSUME NEW i \in Interfaces
          PROVE  EndInv(calls'[i], live[i], refused[i], known)
      <3>1. EndInv(calls[i], live[i], refused[i], held)
        BY <1>3, <2>2 DEF ScopeInv, EndsInv
      <3>2. CASE i = "geofence"
        <4>1. EndInv(Append(calls[i], c), live[i], refused[i], known)
          BY <1>3, <2>1, <2>2, <3>1, EndAppended DEF ApiTypes
        <4> QED BY <1>5, <3>2, <4>1
      <3>3. CASE i # "geofence"
        <4>1. i \notin interfaces
          BY <3>3 DEF ApiInv, ApiLoaded, Wanted
        <4>2. calls'[i] = <<>> /\ live[i] = {}
          BY <1>3, <1>5, <3>3, <4>1 DEF ApiTypes
        <4> QED BY <4>2 DEF EndInv
      <3> QED BY <3>2, <3>3
    <2> QED BY <2>1, <2>3 DEF EndsInv
  <1>8. ScopeInv'
    BY <1>3, <1>5, <1>6, <1>7 DEF ScopeInv, CollisionKept
  <1> QED BY <1>1, <1>8 DEF ApiInv

LEMMA FenceScope ==
  ASSUME ApiInv, apiRole = "geofence"
  PROVE  InScope /\ ScopeInv /\ ApiTypes /\ FenceInv /\ DictInv /\ "geofence" \in Interfaces
  <1>1. InScope
    BY DEF InScope, ApiInv, ApiLoaded, Wanted
  <1> QED BY <1>1 DEF ApiInv, ScopeInv, FenceInv, Interfaces

LEMMA AddGeofencesStep ==
  ASSUME ApiInv, CollisionKept, NEW ids \in SUBSET GeofenceIds, NEW mask, locAPIAddGeofences(ids, mask)
  PROVE  ApiInv'
  <1>1. /\ apiRole = "geofence" /\ mLocationAPI /\ "geofence" \in interfaces
        /\ ids \cap DOMAIN forwardMap = {} /\ reqSession' = 1
        /\ UNCHANGED <<apiRole, interfaces, mLocationAPI, live, refused, mismatch>>
    BY DEF locAPIAddGeofences, ClientCalls
  <1>2. ApiTypes /\ DictInv /\ "geofence" \in Interfaces
    BY <1>1, FenceScope
  <1>3. PICK last \in Nat, n \in Nat : last = lastSession["geofence"] /\ n = Cardinality(ids)
    <2>1. IsFiniteSet(ids)
      BY ApiAssumption, FS_Subset
    <2>2. Cardinality(ids) \in Nat
      BY <2>1, FS_CardinalityType
    <2> QED BY <1>2, <2>2 DEF ApiTypes
  <1>4. PICK f \in [ids -> (last + 1)..(last + n)] :
          /\ \A a, b \in ids : f[a] = f[b] => a = b
          /\ forwardMap' = [i \in DOMAIN forwardMap \cup ids |-> IF i \in ids THEN f[i] ELSE forwardMap[i]]
          /\ calls' = Sent(calls, {"geofence"}, Call("add", {f[i] : i \in ids}, ids))
    BY <1>3 DEF locAPIAddGeofences
  <1>5. /\ backwardMap' = [s \in {forwardMap'[i] : i \in DOMAIN forwardMap'} |->
                             CHOOSE i \in DOMAIN forwardMap' : forwardMap'[i] = s]
        /\ extMap' = [s \in DOMAIN backwardMap' |-> IF s \in DOMAIN extMap THEN extMap[s] ELSE mask]
        /\ reqQueue' = Append(reqQueue, Request("add"))
        /\ lastSession' = [i \in Interfaces |-> IF i = "geofence" THEN lastSession[i] + n ELSE lastSession[i]]
    BY <1>3 DEF locAPIAddGeofences, Allocated
  <1>6. PICK fm : fm = forwardMap'
    OBVIOUS
  <1>7. /\ DOMAIN fm = DOMAIN forwardMap \cup ids
        /\ \A i \in DOMAIN forwardMap : fm[i] = forwardMap[i] /\ fm[i] \in 1..last
        /\ \A i \in ids : fm[i] = f[i] /\ fm[i] \in (last + 1)..(last + n)
    BY <1>1, <1>2, <1>3, <1>4, <1>6 DEF DictInv
  <1>8. ASSUME NEW a \in DOMAIN fm, NEW b \in DOMAIN fm, fm[a] = fm[b]
        PROVE  a = b
    <2>1. ~(fm[a] \in 1..last /\ fm[a] \in (last + 1)..(last + n))
      OBVIOUS
    <2>2. CASE a \in ids /\ b \in ids
      BY <1>4, <1>7, <1>8, <2>2
    <2>3. CASE a \in DOMAIN forwardMap /\ b \in DOMAIN forwardMap
      BY <1>2, <1>7, <1>8, <2>3 DEF DictInv
    <2> QED BY <1>7, <1>8, <2>1, <2>2, <2>3
  <1>9. PICK bm : bm = backwardMap'
    OBVIOUS
  <1>10. /\ DOMAIN bm = {fm[i] : i \in DOMAIN fm}
         /\ \A i \in DOMAIN fm : bm[fm[i]] = i
         /\ \A s \in DOMAIN bm : bm[s] \in DOMAIN fm /\ fm[bm[s]] = s
    <2>1. bm = [s \in {fm[i] : i \in DOMAIN fm} |-> CHOOSE i \in DOMAIN fm : fm[i] = s]
      BY <1>5, <1>6, <1>9
    <2>2. ASSUME NEW i \in DOMAIN fm
          PROVE  bm[fm[i]] = i
      BY <1>8, <2>1
    <2>3. DOMAIN bm = {fm[i] : i \in DOMAIN fm}
      BY <2>1
    <2> QED BY <2>2, <2>3
  <1>11. DictInv'
    <2>1. 1..last \subseteq 1..(last + n) /\ (last + 1)..(last + n) \subseteq 1..(last + n)
      OBVIOUS
    <2>2. lastSession'["geofence"] = last + n
      BY <1>2, <1>3, <1>5
    <2>3. DOMAIN extMap' = DOMAIN bm
      BY <1>5, <1>9
    <2>4. DOMAIN fm \subseteq GeofenceIds
      BY <1>2, <1>7 DEF DictInv
    <2>5. \A i \in DOMAIN fm : fm[i] \in 1..(last + n) /\ fm[i] \in DOMAIN bm
      BY <1>7, <1>10, <2>1
    <2> QED BY <1>6, <1>9, <1>10, <2>2, <2>3, <2>4, <2>5 DEF DictInv
  <1>12. PICK c, x : c = Call("add", {f[i] : i \in ids}, ids) /\ x = Request("add")
    OBVIOUS
  <1>13. c.op = "add" /\ c.sessions = {f[i] : i \in ids} /\ x.op = "add"
    BY <1>12 DEF Call, Request
  <1>14. Matches(x, c)
    BY <1>13 DEF Matches
  <1>15. c.sessions \subseteq 1..lastSession'["geofence"]
    <2>1. (last + 1)..(last + n) \subseteq 1..(last + n)
      OBVIOUS
    <2> QED BY <1>2, <1>3, <1>5, <1>7, <1>13, <2>1
  <1>16. lastSession' \in [Interfaces -> Nat] /\ \A i \in Interfaces : lastSession[i] <= lastSession'[i]
    BY <1>2, <1>5 DEF ApiTypes
  <1>17. PICK known : known = DOMAIN backwardMap'
    OBVIOUS
  <1>18. \A t \in DOMAIN backwardMap : t \in known
    <2>1. ASSUME NEW t \in DOMAIN backwardMap
          PROVE  t \in DOMAIN bm
      <3>1. PICK i \in DOMAIN forwardMap : forwardMap[i] = t
        BY <1>2, <2>1 DEF DictInv
      <3> QED BY <1>7, <1>10, <3>1
    <2> QED BY <1>9, <1>17, <2>1
  <1>19. \A t : Opens(c, t) => t \in known
    BY <1>7, <1>9, <1>10, <1>13, <1>17 DEF Opens
  <1> QED BY <1>1, <1>4, <1>5, <1>11, <1>12, <1>14, <1>15, <1>16, <1>17, <1>18, <1>19, FenceCallStep

(* Removing, modifying, pausing and resuming geofences.                    *)
LEMMA KnownGeofences ==
  ASSUME ApiInv, NEW op, NEW ids, NEW request, GeofenceCall(op, ids, request)
  PROVE  /\ apiRole = "geofence" /\ mLocationAPI /\ "geofence" \in interfaces
         /\ UNCHANGED <<apiRole, interfaces, mLocationAPI, live, refused, mismatch, lastSession>>
         /\ reqQueue' = Append(reqQueue, request)
         /\ calls' = Sent(calls, {"geofence"}, Call(op, KnownSessions(ids), ids \cap DOMAIN forwardMap))
         /\ lastSession' \in [Interfaces -> Nat]
         /\ \A i \in Interfaces : lastSession[i] <= lastSession'[i]
         /\ KnownSessions(ids) \subseteq 1..lastSession'["geofence"]
         /\ KnownSessions(ids) \subseteq DOMAIN backwardMap
         /\ {backwardMap[s] : s \in KnownSessions(ids)} = ids \cap DOMAIN forwardMap
  <1>1. /\ apiRole = "geofence" /\ mLocationAPI /\ reqSession = 1
        /\ UNCHANGED <<apiRole, interfaces, mLocationAPI, live, refused, mismatch, lastSession>>
        /\ reqQueue' = Append(reqQueue, request)
        /\ calls' = Sent(calls, {"geofence"}, Call(op, KnownSessions(ids), ids \cap DOMAIN forwardMap))
    BY DEF GeofenceCall, ClientCalls
  <1>2. ApiTypes /\ FenceInv /\ DictInv
    BY <1>1, FenceScope
  <1>3. "geofence" \in interfaces
    BY <1>1, <1>2 DEF FenceInv
  <1>4. lastSession' \in [Interfaces -> Nat] /\ \A i \in Interfaces : lastSession[i] <= lastSession'[i]
    BY <1>1, <1>2 DEF ApiTypes
  <1>5. /\ KnownSessions(ids) \subseteq 1..lastSession'["geofence"]
        /\ KnownSessions(ids) \subseteq DOMAIN backwardMap
    BY <1>1, <1>2 DEF KnownSessions, DictInv
  <1>6. {backwardMap[s] : s \in KnownSessions(ids)} = ids \cap DOMAIN forwardMap
    BY <1>2 DEF KnownSessions, DictInv
  <1> QED BY <1>1, <1>3, <1>4, <1>5, <1>6

LEMMA RemoveGeofencesStep ==
  ASSUME ApiInv, CollisionKept, NEW ids, locAPIRemoveGeofences(ids)
  PROVE  ApiInv'
  <1>1. PICK S : S = KnownSessions(ids)
    OBVIOUS
  <1>2. PICK x : x = [op |-> "remove", removed |-> [s \in S |-> backwardMap[s]]]
    OBVIOUS
  <1>3. GeofenceCall("remove", ids, x) /\ rmBySession(S)
    BY <1>1, <1>2 DEF locAPIRemoveGeofences
  <1>4. PICK c : c = Call("remove", S, ids \cap DOMAIN forwardMap)
    OBVIOUS
  <1>5. c.op = "remove" /\ c.sessions = S /\ c.ids = ids \cap DOMAIN forwardMap
    BY <1>4 DEF Call
  <1>6. /\ apiRole = "geofence" /\ mLocationAPI /\ "geofence" \in interfaces
        /\ UNCHANGED <<apiRole, interfaces, mLocationAPI, live, refused, mismatch, lastSession>>
        /\ reqQueue' = Append(reqQueue, x)
        /\ calls' = Sent(calls, {"geofence"}, c)
        /\ lastSession' \in [Interfaces -> Nat]
        /\ \A i \in Interfaces : lastSession[i] <= lastSession'[i]
        /\ S \subseteq 1..lastSession'["geofence"]
        /\ S \subseteq DOMAIN backwardMap
        /\ {backwardMap[s] : s \in S} = c.ids
    BY <1>1, <1>3, <1>4, <1>5, KnownGeofences
  <1>7. DictInv
    BY <1>6, FenceScope
  <1>8. Matches(x, c)
    <2>1. x.op = "remove" /\ x.removed = [s \in S |-> backwardMap[s]]
      BY <1>2
    <2>2. \A s \in S : getId(x.removed, s) = backwardMap[s]
      BY <2>1 DEF getId
    <2>3. {getId(x.removed, s) : s \in c.sessions} = c.ids
      BY <1>5, <1>6, <2>2
    <2> QED BY <1>5, <2>1, <2>3 DEF Matches
  <1>9. PICK gone : gone = {backwardMap[s] : s \in S}
    OBVIOUS
  <1>10. /\ DOMAIN forwardMap' = DOMAIN forwardMap \ gone /\ DOMAIN backwardMap' = DOMAIN backwardMap \ S
         /\ DOMAIN extMap' = DOMAIN extMap \ S
         /\ \A i \in DOMAIN forwardMap \ gone : forwardMap'[i] = forwardMap[i]
         /\ \A s \in DOMAIN backwardMap \ S : backwardMap'[s] = backwardMap[s]
    BY <1>3, <1>9 DEF rmBySession, Without
  <1>11. /\ \A i \in DOMAIN forwardMap \ gone : forwardMap[i] \notin S
         /\ \A s \in DOMAIN backwardMap \ S : backwardMap[s] \notin gone
    BY <1>6, <1>7, <1>9 DEF DictInv
  <1>12. DictInv'
    BY <1>6, <1>7, <1>10, <1>11 DEF DictInv
  <1>13. PICK known : known = DOMAIN backwardMap'
    OBVIOUS
  <1>14. \A t \in DOMAIN backwardMap : t \in known \/ Ends(c, t)
    BY <1>5, <1>10, <1>13 DEF Ends
  <1>15. \A t : Opens(c, t) => t \in known
    BY <1>5 DEF Opens
  <1> QED BY <1>5, <1>6, <1>8, <1>12, <1>13, <1>14, <1>15, FenceCallStep

LEMMA ChangeGeofencesStep ==
  ASSUME ApiInv, CollisionKept, NEW op \in {"modify", "pause", "resume"}, NEW ids,
         GeofenceCall(op, ids, Request(op)), UNCHANGED <<forwardMap, backwardMap>>,
         DOMAIN extMap' = DOMAIN extMap
  PROVE  ApiInv'
  <1>1. PICK c, x, S : /\ S = KnownSessions(ids)
                       /\ c = Call(op, S, ids \cap DOMAIN forwardMap) /\ x = Request(op)
    OBVIOUS
  <1>2. c.op = op /\ c.sessions = S /\ x.op = op
    BY <1>1 DEF Call, Request
  <1>3. Matches(x, c)
    BY <1>2 DEF Matches
  <1>4. /\ apiRole = "geofence" /\ mLocationAPI /\ "geofence" \in interfaces
        /\ UNCHANGED <<apiRole, interfaces, mLocationAPI, live, refused, mismatch, lastSession>>
        /\ reqQueue' = Append(reqQueue, x)
        /\ calls' = Sent(calls, {"geofence"}, c)
        /\ lastSession' \in [Interfaces -> Nat]
        /\ \A i \in Interfaces : lastSession[i] <= lastSession'[i]
        /\ c.sessions \subseteq 1..lastSession'["geofence"]
    <2>1. GeofenceCall(op, ids, x)
      BY <1>1
    <2>2. /\ apiRole = "geofence" /\ mLocationAPI /\ "geofence" \in interfaces
          /\ UNCHANGED <<apiRole, interfaces, mLocationAPI, live, refused, mismatch, lastSession>>
          /\ reqQueue' = Append(reqQueue, x)
          /\ calls' = Sent(calls, {"geofence"}, Call(op, KnownSessions(ids), ids \cap DOMAIN forwardMap))
          /\ lastSession' \in [Interfaces -> Nat]
          /\ \A i \in Interfaces : lastSession[i] <= lastSession'[i]
          /\ KnownSessions(ids) \subseteq 1..lastSession'["geofence"]
      BY <2>1, KnownGeofences
    <2> QED BY <1>1, <1>2, <2>2
  <1>5. DictInv'
    <2>1. DictInv
      BY <1>4, FenceScope
    <2> QED BY <1>4, <2>1 DEF DictInv
  <1>6. PICK known : known = DOMAIN backwardMap'
    OBVIOUS
  <1>7. \A t : ~Opens(c, t)
    BY <1>2 DEF Opens
  <1> QED BY <1>3, <1>4, <1>5, <1>6, <1>7, FenceCallStep

(* The client gets its interfaces.                                         *)
LEMMA SetCallbacksStep ==
  ASSUME ApiInv, CollisionKept, locAPISetCallbacks
  PROVE  ApiInv'
  <1>1. /\ ~mLocationAPI /\ mLocationAPI' = TRUE /\ interfaces' \subseteq Wanted
        /\ UNCHANGED <<apiRole, reqSession, reqQueue, mTracking, forwardMap, backwardMap, extMap,
                       lastSession, live, calls, refused, mismatch>>
    BY DEF locAPISetCallbacks, createInstance, clientSide
  <1>2. ApiLoaded' /\ interfaces = {} /\ interfaces' \subseteq Interfaces
    BY <1>1 DEF ApiInv, ApiLoaded, Wanted, Interfaces
  <1>3. SUFFICES ASSUME InScope'
                 PROVE  ScopeInv'
    BY <1>2 DEF ApiInv
  <1>4. InScope
    BY <1>1, <1>2, <1>3 DEF InScope
  <1>5. ScopeInv /\ ApiTypes /\ reqSession = 0
    BY <1>1, <1>4 DEF ApiInv, ScopeInv, ApiTypes
  <1>6. \A i \in Interfaces : calls[i] = <<>> /\ live[i] = {}
    BY <1>2, <1>5 DEF ApiTypes
  <1>7. ApiTypes'
    BY <1>1, <1>5, <1>6 DEF ApiTypes
  <1>8. apiRole' = "tracking" => TrackInv'
    <2>1. \A i \in Interfaces : 0 <= lastSession[i]
      BY <1>5 DEF ApiTypes
    <2> QED BY <1>1, <1>2, <1>5, <2>1 DEF ScopeInv, TrackInv, CollisionKept
  <1>9. apiRole' = "geofence" => FenceInv'
    BY <1>1, <1>5 DEF ScopeInv, FenceInv, DictInv
  <1>10. EndsInv'
    BY <1>1, <1>5 DEF ScopeInv, EndsInv, HeldSessions
  <1> QED BY <1>1, <1>5, <1>7, <1>8, <1>9, <1>10 DEF ScopeInv, CollisionKept

(* A service handles a call.                                               *)
LEMMA ServedTyped ==
  ASSUME ApiTypes, NEW i \in Interfaces, calls[i] # <<>>, calls' = [calls EXCEPT ![i] = Tail(calls[i])],
         NEW c, c = Head(calls[i]), NEW ok \in BOOLEAN,
         live' = [live EXCEPT ![i] = RunsAfter(c, ok, live[i])],
         refused' = [refused EXCEPT ![i] = KeptAfter(c, ok, live[i], refused[i])],
         UNCHANGED <<mLocationAPI, reqSession, interfaces, lastSession>>,
         NEW rq, IsSeq(rq), reqQueue' = rq
  PROVE  ApiTypes' /\ i \in interfaces
  <1>1. /\ calls'[i] = Tail(calls[i]) /\ live'[i] = RunsAfter(c, ok, live[i])
        /\ \A j \in Interfaces : j # i => calls'[j] = calls[j] /\ live'[j] = live[j]
        /\ DOMAIN calls' = Interfaces /\ DOMAIN live' = Interfaces /\ DOMAIN refused' = Interfaces
    BY DEF ApiTypes
  <1>2. i \in interfaces
    BY DEF ApiTypes
  <1>3. PICK q : q = calls[i]
    OBVIOUS
  <1>4. /\ IsSeq(q) /\ q # <<>> /\ live[i] \subseteq 1..lastSession[i]
        /\ \A k \in DOMAIN q : q[k].sessions \subseteq 1..lastSession[i]
    BY <1>3 DEF ApiTypes
  <1>6. PICK r : r = Tail(q)
    OBVIOUS
  <1>8. PICK n \in Nat : /\ IsSeq(r) /\ DOMAIN q = 1..(n + 1) /\ DOMAIN r = 1..n
                         /\ Head(q) = q[1] /\ 1 \in 1..(n + 1)
                         /\ \A k \in 1..n : k + 1 \in 1..(n + 1) /\ r[k] = q[k + 1]
    BY <1>4, <1>6, TailOf
  <1>10. c.sessions \subseteq 1..lastSession[i] /\ \A k \in DOMAIN r : r[k].sessions \subseteq 1..lastSession[i]
    BY <1>3, <1>4, <1>8
  <1>11. live'[i] \subseteq 1..lastSession[i]
    BY <1>1, <1>4, <1>10 DEF RunsAfter
  <1>12. ASSUME NEW j \in Interfaces
         PROVE  /\ IsSeq(calls'[j]) /\ live'[j] \subseteq 1..lastSession[j]
                /\ \A k \in DOMAIN calls'[j] : calls'[j][k].sessions \subseteq 1..lastSession[j]
                /\ j \notin interfaces => calls'[j] = <<>> /\ live'[j] = {}
    <2>1. CASE j = i
      BY <1>1, <1>2, <1>3, <1>6, <1>8, <1>10, <1>11, <2>1
    <2>2. CASE j # i
      BY <1>1, <2>2 DEF ApiTypes
    <2> QED BY <2>1, <2>2
  <1> QED BY <1>1, <1>2, <1>12 DEF ApiTypes

LEMMA ServedEnds ==
  ASSUME ApiTypes, EndsInv, NEW i \in Interfaces, calls[i] # <<>>,
         calls' = [calls EXCEPT ![i] = Tail(calls[i])],
         NEW c, c = Head(calls[i]), NEW ok \in BOOLEAN,
         live' = [live EXCEPT ![i] = RunsAfter(c, ok, live[i])],
         refused' = [refused EXCEPT ![i] = KeptAfter(c, ok, live[i], refused[i])],
         NEW held, HeldSessions = held, HeldSessions' = held
  PROVE  EndsInv'
  <1>1. ASSUME NEW j \in Interfaces
        PROVE  EndInv(calls'[j], live'[j], refused'[j], held)
    <2>1. EndInv(calls[j], live[j], refused[j], held)
      BY DEF EndsInv
    <2>2. CASE j = i
      <3>1. /\ calls'[j] = Tail(calls[j]) /\ live'[j] = RunsAfter(c, ok, live[j])
            /\ refused'[j] = KeptAfter(c, ok, live[j], refused[j])
        BY <2>2 DEF ApiTypes
      <3>2. PICK q, runs, kept : q = calls[j] /\ runs = live[j] /\ kept = refused[j]
        OBVIOUS
      <3>3. IsSeq(q) /\ q # <<>> /\ c = Head(q)
        BY <2>2, <3>2 DEF ApiTypes
      <3>4. EndInv(Tail(q), RunsAfter(c, ok, runs), KeptAfter(c, ok, runs, kept), held)
        BY <2>1, <3>2, <3>3, EndServed
      <3> QED BY <3>1, <3>2, <3>4
    <2>3. CASE j # i
      BY <2>1, <2>3 DEF ApiTypes
    <2> QED BY <2>2, <2>3
  <1> QED BY <1>1 DEF EndsInv

Answered(c, rq, s, runs) == (c.op = "start" \/ c.sessions \subseteq runs) /\ rq # <<>> /\ c.sessions = {s}

LEMMA AnsweringCall ==
  ASSUME NEW q, IsSeq(q), q # <<>>, NEW rq, IsSeq(rq), NEW s, NEW runs, Answering(q, rq, s, runs),
         NEW c, c = Head(q), OneSession(c), NEW ok \in BOOLEAN
  PROVE  /\ Answering(Tail(q), IF Answered(c, rq, s, runs) THEN Tail(rq) ELSE rq, s, RunsAfter(c, ok, runs))
         /\ Answered(c, rq, s, runs) => Head(rq).op = c.op
  <1>1. PICK t : c.sessions = {t} /\ c.op # "add"
    BY DEF OneSession
  <1>2. CASE Answered(c, rq, s, runs)
    <2>1. PICK answered \in BOOLEAN : answered = TRUE
      OBVIOUS
    <2>2. answered <=> (c.op = "start" \/ c.sessions \subseteq runs) /\ rq # <<>> /\ t = s
      BY <1>1, <1>2, <2>1 DEF Answered
    <2>3. /\ Answering(Tail(q), IF answered THEN Tail(rq) ELSE rq, s, RunsAfter(c, ok, runs))
          /\ answered => Head(rq).op = c.op
      BY <1>1, <2>2, AnsweringServed
    <2> QED BY <1>2, <2>1, <2>3
  <1>3. CASE ~Answered(c, rq, s, runs)
    <2>1. PICK answered \in BOOLEAN : answered = FALSE
      OBVIOUS
    <2>2. answered <=> (c.op = "start" \/ c.sessions \subseteq runs) /\ rq # <<>> /\ t = s
      BY <1>1, <1>3, <2>1 DEF Answered
    <2>3. Answering(Tail(q), IF answered THEN Tail(rq) ELSE rq, s, RunsAfter(c, ok, runs))
      BY <1>1, <2>2, AnsweringServed
    <2> QED BY <1>3, <2>1, <2>3
  <1> QED BY <1>2, <1>3

LEMMA ServeTracking ==
  ASSUME ApiInv, CollisionKept, ~collided => ~IdShared, InScope, apiRole = "tracking", NEW i \in Interfaces,
         calls[i] # <<>>, calls' = [calls EXCEPT ![i] = Tail(calls[i])],
         NEW c, c = Head(calls[i]), NEW ok \in BOOLEAN,
         live' = [live EXCEPT ![i] = RunsAfter(c, ok, live[i])],
         refused' = [refused EXCEPT ![i] = KeptAfter(c, ok, live[i], refused[i])],
         IF c.op = "start" \/ c.sessions \subseteq live[i] THEN onResponseCb(c, ok)
         ELSE UNCHANGED <<reqQueue, mismatch, dict, niRequest>>,
         UNCHANGED <<apiRole, interfaces, mLocationAPI, reqSession, mTracking, lastSession>>
  PROVE  ScopeInv'
  <1>1. ScopeInv /\ TrackInv /\ ApiTypes /\ EndsInv
    BY TrackingScope DEF ScopeInv
  <1>2. PICK q, rq, s, runs : q = calls[i] /\ rq = reqQueue /\ s = reqSession /\ runs = live[i]
    OBVIOUS
  <1>3. /\ IsSeq(q) /\ q # <<>> /\ IsSeq(rq) /\ c = Head(q)
        /\ ~collided => Answering(q, rq, s, runs)
        /\ \A k \in DOMAIN q : OneSession(q[k])
    BY <1>1, <1>2 DEF ApiTypes, TrackInv
  <1>4. OneSession(c) /\ 1 \in DOMAIN q /\ c = q[1]
    <2>1. Head(q) = q[1] /\ 1 \in DOMAIN q
      BY <1>3, TailOf
    <2> QED BY <1>3, <2>1
  <1>5. PICK t : c.sessions = {t}
    BY <1>4 DEF OneSession
  <1>6. ~collided' => ~collided /\ ~mismatch /\ ~(niRequest /\ niSession = t)
    <2>1. t \in calls[i][1].sessions /\ 1 \in DOMAIN calls[i]
      BY <1>2, <1>4, <1>5
    <2>2. niRequest /\ niSession = t => IdShared
      BY <2>1 DEF IdShared
    <2> QED BY <1>1, <2>2 DEF ScopeInv, CollisionKept
  <1>7. ASSUME ~collided
        PROVE  /\ Answering(Tail(q), IF Answered(c, rq, s, runs) THEN Tail(rq) ELSE rq, s, RunsAfter(c, ok, runs))
               /\ Answered(c, rq, s, runs) => Head(rq).op = c.op
    BY <1>3, <1>4, <1>7, AnsweringCall
  <1>8. (CHOOSE x \in c.sessions : TRUE) = t
    BY <1>5
  <1>9. /\ reqQueue' = IF Answered(c, rq, s, runs) THEN Tail(rq) ELSE rq
        /\ ~collided' => ~mismatch'
    <2>1. CASE Answered(c, rq, s, runs)
      <3>1. onResponseCb(c, ok) /\ "calls" \in getRequestBySession(t) /\ reqQueue # <<>>
        BY <1>2, <1>5, <2>1 DEF getRequestBySession, Answered
      <3>2. reqQueue' = Tail(reqQueue) /\ mismatch' = (mismatch \/ Head(reqQueue).op # c.op)
        BY <1>8, <3>1 DEF onResponseCb
      <3> QED BY <1>2, <1>6, <1>7, <2>1, <3>2
    <2>2. CASE ~Answered(c, rq, s, runs)
      <3>1. CASE c.op = "start" \/ c.sessions \subseteq live[i]
        <4>1. ~("calls" \in getRequestBySession(t) /\ reqQueue # <<>>)
          BY <1>2, <1>5, <2>2, <3>1 DEF getRequestBySession, Answered
        <4>2. /\ reqQueue' = reqQueue
              /\ mismatch' = (mismatch \/ ("ni" \in getRequestBySession(t) /\ niRequest))
          BY <1>8, <3>1, <4>1 DEF onResponseCb
        <4>3. "ni" \in getRequestBySession(t) => niSession = t
          BY DEF getRequestBySession
        <4> QED BY <1>2, <1>6, <2>2, <4>2, <4>3
      <3>2. CASE ~(c.op = "start" \/ c.sessions \subseteq live[i])
        BY <1>2, <1>6, <2>2, <3>2 DEF Answered
      <3> QED BY <3>1, <3>2
    <2> QED BY <2>1, <2>2
  <1>10. IsSeq(reqQueue')
    <2>1. Answered(c, rq, s, runs) => IsSeq(Tail(rq))
      BY <1>3, MixedTail DEF Answered
    <2> QED BY <1>3, <1>9, <2>1
  <1>11. ApiTypes' /\ i \in interfaces
    BY <1>1, <1>10, ServedTyped
  <1>12. TrackInv'
    <2>1. ASSUME NEW j \in Interfaces
          PROVE  /\ ~collided' => Answering(calls'[j], reqQueue', s, live'[j])
                 /\ \A k \in DOMAIN calls'[j] : OneSession(calls'[j][k])
      <3>1. CASE j = i
        <4>1. calls'[j] = Tail(q) /\ live'[j] = RunsAfter(c, ok, runs)
          BY <1>1, <1>2, <3>1 DEF ApiTypes
        <4>2. \A k \in DOMAIN Tail(q) : OneSession(Tail(q)[k])
          <5>1. PICK n \in Nat : /\ DOMAIN q = 1..(n + 1) /\ DOMAIN Tail(q) = 1..n
                                 /\ \A k \in 1..n : k + 1 \in 1..(n + 1) /\ Tail(q)[k] = q[k + 1]
            BY <1>3, TailOf
          <5> QED BY <1>3, <5>1
        <4> QED BY <1>6, <1>7, <1>9, <4>1, <4>2
      <3>2. CASE j # i
        <4>1. j \notin interfaces
          BY <1>11, <3>2, TrackingScope
        <4>2. calls'[j] = <<>> /\ live'[j] = {}
          BY <1>11, <4>1 DEF ApiTypes
        <4> QED BY <4>2 DEF Answering, Unanswered
      <3> QED BY <3>1, <3>2
    <2> QED BY <1>1, <1>2, <2>1 DEF TrackInv
  <1>13. EndsInv'
    <2>1. PICK held : held = HeldSessions
      OBVIOUS
    <2>2. HeldSessions' = held
      BY <2>1 DEF HeldSessions
    <2> QED BY <1>1, <2>1, <2>2, ServedEnds
  <1> QED BY <1>9, <1>11, <1>12, <1>13 DEF ScopeInv

LEMMA ServeGeofences ==
  ASSUME ApiInv, CollisionKept, apiRole = "geofence", NEW i \in Interfaces,
         calls[i] # <<>>, calls' = [calls EXCEPT ![i] = Tail(calls[i])],
         NEW c, c = Head(calls[i]), NEW ok \in BOOLEAN,
         live' = [live EXCEPT ![i] = RunsAfter(c, ok, live[i])],
         refused' = [refused EXCEPT ![i] = KeptAfter(c, ok, live[i], refused[i])],
         onCollectiveResponseCb(c),
         UNCHANGED <<apiRole, interfaces, mLocationAPI, reqSession, mTracking, lastSession>>
  PROVE  ScopeInv'
  <1>1. ScopeInv /\ FenceInv /\ DictInv /\ ApiTypes /\ EndsInv /\ (~collided' => ~mismatch)
    BY FenceScope DEF ScopeInv, CollisionKept
  <1>2. i = "geofence"
    <2>1. interfaces \subseteq {"geofence"}
      BY DEF ApiInv, ApiLoaded, Wanted
    <2> QED BY <1>1, <2>1 DEF ApiTypes
  <1>3. PICK q, rq : q = calls[i] /\ rq = reqQueue
    OBVIOUS
  <1>4. IsSeq(q) /\ q # <<>> /\ IsSeq(rq) /\ Lockstep(q, rq) /\ c = Head(q)
    BY <1>1, <1>2, <1>3 DEF ApiTypes, FenceInv
  <1>5. rq # <<>> /\ Lockstep(Tail(q), Tail(rq)) /\ Matches(Head(rq), c)
    BY <1>4, LockstepServed
  <1>6. reqQueue' = Tail(rq) /\ UNCHANGED <<forwardMap, backwardMap, extMap>>
    BY <1>3 DEF onCollectiveResponseCb, dict
  <1>7. ~collided' => ~mismatch'
    <2>1. PICK x : x = Head(reqQueue)
      OBVIOUS
    <2>2. mismatch' = (mismatch \/ x.op # c.op \/ (c.op = "remove" /\ IdsTold(x, c.sessions) # c.ids))
      BY <2>1 DEF onCollectiveResponseCb
    <2>3. x.op = c.op /\ (c.op = "remove" => {getId(x.removed, s) : s \in c.sessions} = c.ids)
      BY <1>3, <1>5, <2>1 DEF Matches
    <2>4. ASSUME c.op = "remove"
          PROVE  IdsTold(x, c.sessions) = c.ids
      BY <2>3, <2>4 DEF IdsTold
    <2> QED BY <1>1, <2>2, <2>3, <2>4
  <1>8. IsSeq(Tail(rq))
    BY <1>4, <1>5, MixedTail
  <1>9. ApiTypes'
    BY <1>1, <1>6, <1>8, ServedTyped
  <1>10. FenceInv'
    <2>1. calls'["geofence"] = Tail(q)
      BY <1>1, <1>2, <1>3 DEF ApiTypes
    <2>2. Lockstep(calls["geofence"], reqQueue)'
      BY <1>5, <1>6, <2>1
    <2>3. DictInv'
      BY <1>1, <1>6 DEF DictInv
    <2> QED BY <1>1, <2>2, <2>3 DEF FenceInv
  <1>11. EndsInv'
    <2>1. PICK held : held = HeldSessions
      OBVIOUS
    <2>2. HeldSessions' = held
      BY <1>6, <2>1 DEF HeldSessions
    <2> QED BY <1>1, <2>1, <2>2, ServedEnds
  <1> QED BY <1>7, <1>9, <1>10, <1>11 DEF ScopeInv

LEMMA ServeStep ==
  ASSUME ApiInv, CollisionKept, NiInv, NEW i \in Interfaces, Serve(i)
  PROVE  ApiInv'
  <1>1. /\ calls[i] # <<>> /\ calls' = [calls EXCEPT ![i] = Tail(calls[i])]
        /\ UNCHANGED <<apiRole, interfaces, mLocationAPI, reqSession, mTracking, lastSession>>
    BY DEF Serve
  <1>2. PICK c : c = Head(calls[i])
    OBVIOUS
  <1>3. PICK ok \in BOOLEAN :
          /\ live' = [live EXCEPT ![i] = RunsAfter(c, ok, live[i])]
          /\ refused' = [refused EXCEPT ![i] = KeptAfter(c, ok, live[i], refused[i])]
          /\ IF apiRole = "geofence" THEN onCollectiveResponseCb(c) /\ UNCHANGED niRequest
             ELSE IF c.op = "start" \/ c.sessions \subseteq live[i] THEN onResponseCb(c, ok)
             ELSE UNCHANGED <<reqQueue, mismatch, dict, niRequest>>
    BY <1>2 DEF Serve, RunsAfter, KeptAfter
  <1>4. ApiLoaded'
    BY <1>1 DEF ApiInv, ApiLoaded, Wanted
  <1>5. SUFFICES ASSUME InScope
                 PROVE  ScopeInv'
    BY <1>1, <1>4 DEF ApiInv, InScope
  <1>6. CASE apiRole = "tracking"
    BY <1>1, <1>2, <1>3, <1>5, <1>6, ServeTracking DEF NiInv
  <1>7. CASE apiRole = "geofence"
    BY <1>1, <1>2, <1>3, <1>7, ServeGeofences
  <1> QED BY <1>5, <1>6, <1>7 DEF InScope, ApiInv, ApiLoaded

LEMMA BreachStep ==
  ASSUME ApiInv, CollisionKept, NEW s, NEW type, beforeGeofenceBreachCb(s, type)
  PROVE  ApiInv'
  <1>1. /\ apiRole = "geofence"
        /\ UNCHANGED <<apiRole, interfaces, mLocationAPI, reqSession, reqQueue, mTracking, forwardMap,
                       backwardMap, extMap, lastSession, live, calls, refused>>
    BY DEF beforeGeofenceBreachCb, clientSide
  <1>2. ScopeInv /\ DictInv /\ (~collided' => ~mismatch)
    BY <1>1, FenceScope DEF ScopeInv, CollisionKept
  <1>3. ~collided' => ~mismatch'
    <2>1. mismatch' = (mismatch \/ ((s \in DOMAIN extMap /\ type \in extMap[s]) /\ s \notin DOMAIN backwardMap))
      BY DEF beforeGeofenceBreachCb
    <2>2. DOMAIN extMap = DOMAIN backwardMap
      BY <1>2 DEF DictInv
    <2> QED BY <1>2, <2>1, <2>2
  <1>4. ApiLoaded'
    BY <1>1 DEF ApiInv, ApiLoaded, Wanted
  <1>5. ApiTypes' /\ FenceInv'
    BY <1>1, <1>2 DEF ScopeInv, ApiTypes, FenceInv, DictInv
  <1>6. EndsInv'
    BY <1>1, <1>2 DEF ScopeInv, EndsInv, HeldSessions
  <1> QED BY <1>1, <1>3, <1>4, <1>5, <1>6 DEF ApiInv, ScopeInv

(* A response to a network-initiated request, and gnss's answer to it.     *)
LEMMA NiResponseStep ==
  ASSUME ApiInv, CollisionKept, NEW id, locAPIGnssNiResponse(id)
  PROVE  ApiInv'
  <1>1. /\ apiRole = "tracking"
        /\ UNCHANGED <<apiRole, interfaces, mLocationAPI, reqSession, reqQueue, mTracking, forwardMap,
                       backwardMap, extMap, lastSession, live, calls, refused, mismatch>>
    BY DEF locAPIGnssNiResponse, clientSide
  <1>2. ApiLoaded'
    BY <1>1 DEF ApiInv, ApiLoaded, Wanted
  <1>3. SUFFICES ASSUME InScope
                 PROVE  ScopeInv'
    BY <1>1, <1>2 DEF ApiInv, InScope
  <1>4. ScopeInv /\ TrackInv
    BY <1>1, <1>3, TrackingScope
  <1>5. ApiTypes' /\ EndsInv'
    BY <1>1, <1>4 DEF ScopeInv, ApiTypes, EndsInv, HeldSessions
  <1>6. TrackInv'
    BY <1>1, <1>4 DEF TrackInv, CollisionKept
  <1> QED BY <1>1, <1>4, <1>5, <1>6 DEF ScopeInv, CollisionKept

LEMMA ServeNiStep ==
  ASSUME ApiInv, CollisionKept, NiInv, ServeNi
  PROVE  ApiInv'
  <1>1. /\ niCalls # <<>>
        /\ UNCHANGED <<apiRole, interfaces, mLocationAPI, reqSession, mTracking, forwardMap, backwardMap,
                       extMap, lastSession, live, calls, refused>>
    BY DEF ServeNi, dict
  <1>2. ApiLoaded'
    BY <1>1 DEF ApiInv, ApiLoaded, Wanted
  <1>3. SUFFICES ASSUME InScope
                 PROVE  ScopeInv'
    BY <1>1, <1>2 DEF ApiInv, InScope
  <1>4. 1 \in DOMAIN niCalls /\ Head(niCalls) = niCalls[1]
    BY <1>1, TailOf DEF NiInv
  <1>5. apiRole = "tracking"
    BY <1>4 DEF NiInv
  <1>6. ScopeInv /\ TrackInv /\ ApiTypes
    BY <1>3, <1>5, TrackingScope DEF ScopeInv
  <1>7. PICK id : id = Head(niCalls).id
    OBVIOUS
  <1>8. /\ reqQueue' = IF "calls" \in getRequestBySession(id) /\ reqQueue # <<>> THEN Tail(reqQueue) ELSE reqQueue
        /\ mismatch' = (mismatch \/ ("calls" \in getRequestBySession(id)
                                      /\ (reqQueue # <<>> \/ (niRequest /\ niSession = id))))
    BY <1>7 DEF ServeNi
  <1>9. ~collided' => "calls" \notin getRequestBySession(id) /\ ~collided
    <2>1. id = reqSession => IdShared
      BY <1>4, <1>7 DEF IdShared
    <2>2. "calls" \in getRequestBySession(id) => id = reqSession
      BY <1>5 DEF getRequestBySession
    <2> QED BY <2>1, <2>2 DEF NiInv, CollisionKept
  <1>10. IsSeq(reqQueue')
    <2>1. reqQueue # <<>> => IsSeq(Tail(reqQueue))
      BY <1>6, MixedTail DEF ApiTypes
    <2> QED BY <1>6, <1>8, <2>1 DEF ApiTypes
  <1>11. ApiTypes'
    BY <1>1, <1>6, <1>10 DEF ApiTypes
  <1>12. EndsInv'
    BY <1>1, <1>6 DEF ScopeInv, EndsInv, HeldSessions
  <1>13. ~collided' => reqQueue' = reqQueue /\ ~mismatch'
    BY <1>6, <1>8, <1>9 DEF ScopeInv
  <1>14. TrackInv'
    BY <1>1, <1>6, <1>9, <1>13 DEF TrackInv
  <1> QED BY <1>1, <1>5, <1>11, <1>12, <1>13, <1>14 DEF ScopeInv

(* Of the batching sessions, which the properties are not about, only that *)
(* the interfaces stay.                                                    *)
LEMMA SessionStep ==
  ASSUME ApiInv, apiRole = "session", UNCHANGED <<apiRole, interfaces, mLocationAPI>>
  PROVE  ApiInv'
  BY DEF ApiInv, ApiLoaded, Wanted, InScope

LEMMA ApiCallsStep ==
  ASSUME ApiInv, CollisionKept, ApiCalls
  PROVE  ApiInv'
  <1>1. ASSUME NEW d, gnssStart(d)
        PROVE  ApiInv'
    BY <1>1, StartTrackingStep DEF gnssStart
  <1>2. CASE measurementSetCallback
    BY <1>2, StartTrackingStep DEF measurementSetCallback
  <1>3. CASE gnssStop \/ measurementClose \/ gnssSetPositionMode
    BY <1>3, StopTrackingStep DEF gnssStop, measurementClose, gnssSetPositionMode
  <1>4. CASE startSession \/ updateSessionOptions \/ stopSession \/ flushBatchedLocations
    BY <1>4, SessionStep DEF startSession, locAPIStartSession, updateSessionOptions,
       locAPIUpdateSessionOptions, stopSession, locAPIStopSession, flushBatchedLocations,
       locAPIGetBatchedLocations, ClientCalls
  <1>5. ASSUME NEW ids, NEW mask, SetMask(ids, mask)
        PROVE  UNCHANGED <<forwardMap, backwardMap>> /\ DOMAIN extMap' = DOMAIN extMap
    BY <1>5 DEF SetMask
  <1>6. ASSUME NEW id, geofencePause(id)
        PROVE  ApiInv'
    <2>1. GeofenceCall("pause", {id}, Request("pause")) /\ UNCHANGED <<forwardMap, backwardMap, extMap>>
      BY <1>6 DEF geofencePause, locAPIPauseGeofences, dict
    <2> QED BY <2>1, ChangeGeofencesStep
  <1>7. ASSUME NEW id, NEW t, geofenceResume(id, t)
        PROVE  ApiInv'
    <2>1. GeofenceCall("resume", {id}, Request("resume")) /\ SetMask({id}, Monitored(t))
      BY <1>7 DEF geofenceResume, locAPIResumeGeofences
    <2> QED BY <1>5, <2>1, ChangeGeofencesStep
  <1>8. ASSUME NEW t, locAPIModifyGeofences(GeofenceIds, t)
        PROVE  ApiInv'
    <2>1. GeofenceCall("modify", GeofenceIds, Request("modify")) /\ SetMask(GeofenceIds, t)
      BY <1>8 DEF locAPIModifyGeofences
    <2> QED BY <1>5, <2>1, ChangeGeofencesStep
  <1>9. ASSUME NEW id \in GeofenceIds, NEW t, geofenceAdd(id, t)
        PROVE  ApiInv'
    <2>1. locAPIAddGeofences({id}, Monitored(t)) /\ {id} \in SUBSET GeofenceIds
      BY <1>9 DEF geofenceAdd
    <2> QED BY <2>1, AddGeofencesStep
  <1>10. ASSUME NEW t, locAPIAddGeofences(GeofenceIds, t)
         PROVE  ApiInv'
    BY <1>10, AddGeofencesStep
  <1>11. ASSUME NEW id, geofenceRemove(id)
         PROVE  ApiInv'
    BY <1>11, RemoveGeofencesStep DEF geofenceRemove
  <1>12. CASE locAPIRemoveGeofences(GeofenceIds)
    BY <1>12, RemoveGeofencesStep
  <1> QED BY <1>1, <1>2, <1>3, <1>4, <1>6, <1>7, <1>8, <1>9, <1>10, <1>11, <1>12 DEF ApiCalls

LEMMA NiKept ==
  ASSUME NiInv, ApiNext
  PROVE  CollisionKept /\ NiInv'
  <1>1. ApiOperation /\ collided' = (collided \/ IdShared')
    BY DEF ApiNext
  <1>2. CollisionKept /\ collided' \in BOOLEAN /\ (~collided' => ~IdShared')
    BY <1>1 DEF CollisionKept
  <1> DEFINE Calm == /\ niRequest' \in BOOLEAN /\ niSession' \in NiIds \cup {0}
                     /\ IsSeq(niCalls)' /\ \A k \in DOMAIN niCalls' : niCalls'[k].id \in NiIds
                     /\ apiRole' # "tracking" => DOMAIN niCalls' = {}
  <1>3. SUFFICES Calm
    BY <1>2 DEF NiInv
  <1>4. CASE UNCHANGED <<apiRole, niSession, niRequest, niCalls>>
    BY <1>4 DEF NiInv, IsSeq
  <1>5. ASSUME NEW id \in NiIds, locAPIGnssNiResponse(id)
        PROVE  Calm
    <2>1. /\ apiRole' = "tracking" /\ niSession' = id /\ niRequest' = TRUE
          /\ niCalls' = niCalls \/ niCalls' = Append(niCalls, [id |-> id, ahead |-> Len(calls["gnss"])])
      BY <1>5 DEF locAPIGnssNiResponse
    <2>2. CASE niCalls' = niCalls
      BY <2>1, <2>2 DEF NiInv, IsSeq
    <2>3. CASE niCalls' = Append(niCalls, [id |-> id, ahead |-> Len(calls["gnss"])])
      <3> DEFINE rec == [id |-> id, ahead |-> Len(calls["gnss"])]
      <3>0. rec.id = id
        OBVIOUS
      <3> HIDE DEF rec
      <3>1. PICK e : e = rec /\ e.id = id
        BY <3>0
      <3>1a. niCalls' = Append(niCalls, e)
        BY <2>3, <3>1 DEF rec
      <3>2. PICK n \in Nat : n = Len(niCalls)
        BY MixedAppend DEF NiInv
      <3>3. /\ IsSeq(niCalls') /\ DOMAIN niCalls = 1..n /\ DOMAIN niCalls' = 1..(n + 1)
            /\ niCalls'[n + 1] = e /\ \A k \in 1..n : niCalls'[k] = niCalls[k]
        BY <3>1a, <3>2, MixedAppend DEF NiInv
      <3>4. \A k \in 1..(n + 1) : k \in 1..n \/ k = n + 1
        OBVIOUS
      <3>5. \A k \in DOMAIN niCalls' : niCalls'[k].id \in NiIds
        BY <3>1, <3>3, <3>4 DEF NiInv
      <3> QED BY <2>1, <3>3, <3>5
    <2> QED BY <2>1, <2>2, <2>3
  <1>6. CASE ServeNi
    <2>1. /\ niCalls # <<>> /\ niCalls' = Tail(niCalls) /\ niRequest' \in BOOLEAN
          /\ UNCHANGED <<apiRole, niSession>>
      BY <1>6 DEF ServeNi
    <2>2. PICK n \in Nat : /\ IsSeq(Tail(niCalls)) /\ DOMAIN niCalls = 1..(n + 1) /\ DOMAIN Tail(niCalls) = 1..n
                           /\ 1 \in 1..(n + 1)
                           /\ \A k \in 1..n : k + 1 \in 1..(n + 1) /\ Tail(niCalls)[k] = niCalls[k + 1]
      BY <2>1, TailOf DEF NiInv
    <2>3. apiRole = "tracking"
      BY <2>2 DEF NiInv
    <2>4. \A k \in DOMAIN niCalls' : niCalls'[k].id \in NiIds
      BY <2>1, <2>2 DEF NiInv
    <2> QED BY <2>1, <2>2, <2>3, <2>4 DEF NiInv
  <1>7. ASSUME NEW i \in Interfaces, Serve(i)
        PROVE  Calm
    <2>1. UNCHANGED <<apiRole, niSession>>
      BY <1>7 DEF Serve
    <2>2. niRequest' \in BOOLEAN
      <3>1. PICK c, ok : \/ UNCHANGED niRequest
                         \/ onResponseCb(c, ok)
        BY <1>7 DEF Serve
      <3> QED BY <3>1 DEF onResponseCb, NiInv
    <2>3. CASE niCalls' = niCalls
      BY <2>1, <2>2, <2>3 DEF NiInv, IsSeq
    <2>4. CASE niCalls' = [k \in DOMAIN niCalls |-> [niCalls[k] EXCEPT !.ahead = @ - 1]]
      <3>1. PICK n \in Nat : DOMAIN niCalls = 1..n
        BY MixedAppend DEF NiInv
      <3>2. DOMAIN niCalls' = 1..n
        BY <2>4, <3>1
      <3>3. IsSeq(niCalls')
        <4>1. niCalls' \in [1..n -> {niCalls'[k] : k \in 1..n}]
          BY <2>4, <3>1
        <4>2. niCalls' \in Seq({niCalls'[k] : k \in 1..n})
          BY <4>1, SeqDef
        <4> QED BY <4>2 DEF IsSeq
      <3>4. \A k \in DOMAIN niCalls' : niCalls'[k].id \in NiIds
        <4>1. ASSUME NEW k \in 1..n
              PROVE  niCalls'[k].id \in NiIds
          <5>1. niCalls'[k] = [niCalls[k] EXCEPT !.ahead = niCalls[k].ahead - 1] /\ niCalls[k].id \in NiIds
            BY <2>4, <3>1 DEF NiInv
          <5> QED BY <5>1
        <4> QED BY <3>2, <4>1
      <3> QED BY <2>1, <2>2, <3>1, <3>2, <3>3, <3>4 DEF NiInv
    <2> QED BY <1>7, <2>3, <2>4 DEF Serve
  <1>8. CASE ApiCalls
    <2>1. UNCHANGED <<apiRole, niSide>>
      BY <1>8 DEF ApiCalls, gnssStart, measurementSetCallback, gnssStop, measurementClose, gnssSetPositionMode,
         startSession, updateSessionOptions, stopSession, flushBatchedLocations, geofencePause, geofenceRemove,
         geofenceAdd, geofenceResume, locAPIStartTracking, StopOrUpdateTracking, locAPIStartSession,
         locAPIUpdateSessionOptions, locAPIStopSession, locAPIGetBatchedLocations, locAPIPauseGeofences,
         locAPIRemoveGeofences, locAPIAddGeofences, locAPIResumeGeofences, locAPIModifyGeofences, GeofenceCall,
         ClientCalls
    <2> QED BY <1>4, <2>1 DEF niSide
  <1>9. CASE locAPISetCallbacks
    BY <1>4, <1>9 DEF locAPISetCallbacks, niSide
  <1>10. ASSUME NEW s, beforeBatchingStatusCb(s) \/ \E t : beforeGeofenceBreachCb(s, t)
         PROVE  Calm
    BY <1>4, <1>10 DEF beforeBatchingStatusCb, beforeGeofenceBreachCb, niSide
  <1> HIDE DEF Calm
  <1> QED BY <1>1, <1>5, <1>6, <1>7, <1>8, <1>9, <1>10 DEF ApiOperation, gnssNiRespond

LEMMA ApiStep == ApiInv /\ NiInv /\ [ApiNext]_apiVars => ApiInv' /\ NiInv'
  <1> SUFFICES ASSUME ApiInv, NiInv, [ApiNext]_apiVars
               PROVE  ApiInv' /\ NiInv'
    OBVIOUS
  <1>6. CASE UNCHANGED apiVars
    <2>1. UNCHANGED <<apiRole, interfaces, mLocationAPI, reqSession, reqQueue, mTracking, forwardMap,
                      backwardMap, extMap, lastSession, live, calls, niSession, niRequest, niCalls, refused,
                      mismatch, collided>>
      BY <1>6 DEF apiVars, clientSide, niSide
    <2>2. ApiInv'
      BY <2>1 DEF ApiInv, ApiLoaded, Wanted, InScope, ScopeInv, ApiTypes, TrackInv, FenceInv,
         DictInv, EndsInv, HeldSessions
    <2>3. NiInv'
      BY <2>1 DEF NiInv, IdShared, IsSeq
    <2> QED BY <2>2, <2>3
  <1> SUFFICES ASSUME ApiNext
               PROVE  ApiInv' /\ NiInv'
    BY <1>6
  <1>7. CollisionKept /\ NiInv'
    BY NiKept
  <1> USE <1>7
  <1>1. CASE locAPISetCallbacks
    BY <1>1, SetCallbacksStep
  <1>2. CASE ApiCalls
    BY <1>2, ApiCallsStep
  <1>3. ASSUME NEW i \in Interfaces, Serve(i)
        PROVE  ApiInv'
    BY <1>3, ServeStep
  <1>4. ASSUME NEW s, beforeBatchingStatusCb(s)
        PROVE  ApiInv'
    BY <1>4, SessionStep DEF beforeBatchingStatusCb
  <1>5. ASSUME NEW s, NEW t, beforeGeofenceBreachCb(s, t)
        PROVE  ApiInv'
    BY <1>5, BreachStep
  <1>8. ASSUME NEW id, gnssNiRespond(id)
        PROVE  ApiInv'
    BY <1>8, NiResponseStep DEF gnssNiRespond
  <1>9. CASE ServeNi
    BY <1>9, ServeNiStep
  <1> QED BY <1>1, <1>2, <1>3, <1>4, <1>5, <1>8, <1>9 DEF ApiNext, ApiOperation

LEMMA ApiStart == ApiInit => ApiInv /\ NiInv
  <1> SUFFICES ASSUME ApiInit
               PROVE  ApiInv /\ NiInv
    OBVIOUS
  <1>1. /\ apiRole \in {"tracking", "session", "geofence"} /\ interfaces = {}
        /\ mLocationAPI = FALSE /\ mTracking = FALSE /\ reqSession = 0 /\ reqQueue = <<>>
        /\ forwardMap = << >> /\ backwardMap = << >> /\ extMap = << >> /\ mismatch = FALSE
        /\ lastSession = [i \in Interfaces |-> 0] /\ live = [i \in Interfaces |-> {}]
        /\ calls = [i \in Interfaces |-> <<>>] /\ refused = [i \in Interfaces |-> {}]
        /\ niSession = 0 /\ niRequest = FALSE /\ niCalls = <<>> /\ collided = FALSE
    BY DEF ApiInit
  <1>2. IsSeq(<<>>) /\ DOMAIN <<>> = {} /\ Len(<<>>) = 0
    BY DEF IsSeq
  <1>3. ApiLoaded
    BY <1>1 DEF ApiLoaded
  <1>4. ApiTypes
    BY <1>1, <1>2 DEF ApiTypes
  <1>5. TrackInv
    BY <1>1, <1>2 DEF TrackInv, Answering, Unanswered
  <1>6. FenceInv
    <2>1. DictInv
      BY <1>1, <1>2 DEF DictInv
    <2>2. calls["geofence"] = <<>>
      BY <1>1 DEF Interfaces
    <2> QED BY <1>1, <1>2, <2>1, <2>2 DEF FenceInv, Lockstep
  <1>7. EndsInv
    BY <1>1, <1>2 DEF EndsInv, EndInv
  <1>8. NiInv
    BY <1>1, <1>2 DEF NiInv, IdShared
  <1> QED BY <1>1, <1>3, <1>4, <1>5, <1>6, <1>7, <1>8 DEF ApiInv, ScopeInv

LEMMA ApiInvariant == ApiSpec => [](ApiInv /\ NiInv)
  BY ApiStart, ApiStep, PTL DEF ApiSpec

(* Every answer of a service reaches the request of the call it answers    *)
(* (RequestQueue, LocationAPIClientBase.h): the requests of a session are  *)
(* in the order of its calls, an older session's answers find no request,  *)
(* a removal keeps the ids it was called with, and the answers of NI       *)
(* responses find their own queue as long as none had the id of a tracking *)
(* session that was in use with it.                                        *)
THEOREM AnswersReachRequests == ApiSpec => []AnswersMatchRequests
  <1>1. ApiInv => AnswersMatchRequests
    BY DEF ApiInv, ScopeInv, AnswersMatchRequests
  <1> QED BY <1>1, ApiInvariant, PTL

(* A session or a geofence that runs is the one the client would name to   *)
(* end it, or its end waits in the service, unless the service refused it  *)
(* (BiDict and the session of a RequestQueue).                             *)
THEOREM SessionsCanBeEnded == ApiSpec => []LiveCanBeEnded
  <1>1. ASSUME ApiInv
        PROVE  LiveCanBeEnded
    <2>1. SUFFICES ASSUME InScope, NEW i \in Interfaces, NEW s \in live[i] \ refused[i],
                          ~\E k \in DOMAIN calls[i] : calls[i][k].op \in {"stop", "remove"} /\ s \in calls[i][k].sessions
                   PROVE  \/ apiRole = "tracking" /\ mTracking /\ reqSession = s
                          \/ apiRole # "tracking" /\ s \in DOMAIN backwardMap /\ forwardMap[backwardMap[s]] = s
      BY DEF LiveCanBeEnded
    <2>2. ScopeInv
      BY <1>1, <2>1 DEF ApiInv
    <2>3. s \in HeldSessions
      <3>1. EndInv(calls[i], live[i], refused[i], HeldSessions)
        BY <2>2 DEF ScopeInv, EndsInv
      <3> QED BY <2>1, <3>1 DEF EndInv, Ends
    <2>4. CASE apiRole = "tracking"
      BY <2>3, <2>4 DEF HeldSessions
    <2>5. CASE apiRole = "geofence"
      BY <2>2, <2>3, <2>5 DEF HeldSessions, ScopeInv, FenceInv, DictInv
    <2> QED BY <1>1, <2>1, <2>4, <2>5 DEF InScope, ApiInv, ApiLoaded
  <1> QED BY <1>1, ApiInvariant, PTL

-----------------------------------------------------------------------------
(* The types of the client's side and of the services, for every role.     *)
(* That only sessions run, never the 0 of a call no interface takes, needs *)
(* of the calls that wait that a start or an add names sessions; that a    *)
(* geofence's answer finds a request is what Lockstep says.                *)
SessionOrNone == 0..MaxApiSessions
ClientIds == GeofenceIds \cup {mDefaultId}
PlainCalls == [op : Operations, sessions : SUBSET SessionOrNone, ids : SUBSET ClientIds]
TypedCalls == {c \in PlainCalls : c.op \in {"start", "add"} => c.sessions \subseteq Sessions}

RequestTyped(x) == x.op \in Operations /\ DOMAIN x.removed \subseteq Sessions
QueueTyped(q) == IsSeq(q) /\ \A k \in DOMAIN q : RequestTyped(q[k])
DictTyped(f, b, e) ==
  /\ DOMAIN f \subseteq ClientIds /\ \A id \in DOMAIN f : f[id] \in SessionOrNone
  /\ DOMAIN b = DOMAIN e /\ DOMAIN e \subseteq SessionOrNone
CountersTyped(last) == last \in [Interfaces -> SessionOrNone]
CallsTyped(cs) == cs \in [Interfaces -> Seq(TypedCalls)]
ServicesTyped(runs, kept) == runs \in [Interfaces -> SUBSET Sessions] /\ kept \in [Interfaces -> SUBSET Sessions]

TypesInv ==
  /\ mLocationAPI \in BOOLEAN /\ mTracking \in BOOLEAN /\ mismatch \in BOOLEAN
  /\ reqSession \in SessionOrNone /\ QueueTyped(reqQueue)
  /\ DictTyped(forwardMap, backwardMap, extMap)
  /\ CountersTyped(lastSession) /\ CallsTyped(calls) /\ ServicesTyped(live, refused)

LEMMA SessionNumbers ==
  /\ MaxApiSessions \in Nat \ {0} /\ 0 \in SessionOrNone /\ 1 \in SessionOrNone
  /\ Sessions \subseteq SessionOrNone
  BY ApiAssumption DEF SessionOrNone, Sessions

(* Requests.                                                               *)
LEMMA OpNames ==
  /\ "start" \in Operations /\ "add" \in Operations /\ "remove" \in Operations
  /\ \A op \in {"stop", "update", "getBatched", "modify", "pause", "resume"} :
       op \in Operations /\ op \notin {"start", "add"}
  BY DEF Operations

LEMMA PlainRequest ==
  ASSUME NEW op \in Operations
  PROVE  RequestTyped(Request(op))
  <1>1. PICK x : x = Request(op)
    OBVIOUS
  <1>2. x.op = op /\ x.removed = << >>
    BY <1>1 DEF Request
  <1>3. DOMAIN x.removed = {}
    BY <1>2
  <1> QED BY <1>1, <1>2, <1>3 DEF RequestTyped

LEMMA RequestQueued ==
  ASSUME NEW q, QueueTyped(q), NEW x, RequestTyped(x)
  PROVE  QueueTyped(Append(q, x)) /\ QueueTyped(<<x>>)
  <1>1. PICK r : r = Append(q, x)
    OBVIOUS
  <1>2. PICK l \in Nat : l = Len(q)
    BY MixedAppend DEF QueueTyped
  <1>3. IsSeq(r) /\ DOMAIN q = 1..l /\ DOMAIN r = 1..(l + 1) /\ r[l + 1] = x /\ \A k \in 1..l : r[k] = q[k]
    BY <1>1, <1>2, MixedAppend DEF QueueTyped
  <1>4. \A k \in 1..(l + 1) : k \in 1..l \/ k = l + 1
    OBVIOUS
  <1>5. QueueTyped(r)
    BY <1>3, <1>4 DEF QueueTyped
  <1>6. PICK y : y = <<x>>
    OBVIOUS
  <1>7. y \in Seq({x}) /\ DOMAIN y = {1} /\ y[1] = x
    BY <1>6
  <1>8. QueueTyped(y)
    BY <1>7 DEF QueueTyped, IsSeq
  <1> QED BY <1>1, <1>5, <1>6, <1>8

LEMMA RequestTaken ==
  ASSUME NEW q, QueueTyped(q), q # <<>>
  PROVE  QueueTyped(Tail(q))
  <1>1. PICK r : r = Tail(q)
    OBVIOUS
  <1>2. PICK n \in Nat : /\ IsSeq(r) /\ DOMAIN q = 1..(n + 1) /\ DOMAIN r = 1..n
                         /\ \A k \in 1..n : k + 1 \in 1..(n + 1) /\ r[k] = q[k + 1]
    BY <1>1, TailOf DEF QueueTyped
  <1>3. QueueTyped(r)
    BY <1>2 DEF QueueTyped
  <1> QED BY <1>1, <1>3

(* Calls.  A call no interface takes need not be one.                      *)
LEMMA CallTyped ==
  ASSUME NEW op \in Operations, NEW sessions \in SUBSET SessionOrNone, NEW ids \in SUBSET ClientIds,
         op \in {"start", "add"} => sessions \subseteq Sessions
  PROVE  Call(op, sessions, ids) \in TypedCalls
  <1>1. PICK c : c = Call(op, sessions, ids)
    OBVIOUS
  <1>2. c = [op |-> op, sessions |-> sessions, ids |-> ids]
    BY <1>1 DEF Call
  <1>3. c \in PlainCalls /\ c.op = op /\ c.sessions = sessions
    BY <1>2 DEF PlainCalls
  <1> QED BY <1>1, <1>3 DEF TypedCalls

LEMMA CallSent ==
  ASSUME NEW cs, CallsTyped(cs), NEW to, NEW c, to \cap interfaces # {} => c \in TypedCalls
  PROVE  CallsTyped(Sent(cs, to, c))
  <1>1. ASSUME NEW i \in Interfaces
        PROVE  (IF i \in to \cap interfaces THEN Append(cs[i], c) ELSE cs[i]) \in Seq(TypedCalls)
    <2>1. cs[i] \in Seq(TypedCalls)
      BY DEF CallsTyped
    <2>2. CASE i \in to \cap interfaces
      <3>1. c \in TypedCalls
        BY <2>2
      <3>2. Append(cs[i], c) \in Seq(TypedCalls)
        BY <2>1, <3>1
      <3> QED BY <2>2, <3>2
    <2> QED BY <2>1, <2>2
  <1> QED BY <1>1 DEF CallsTyped, Sent

(* Sessions: an interface has at most one number to give for a call.       *)
LEMMA ServingInterface ==
  ASSUME NEW to, \/ \E d : to = TrackingInterface(d)
                 \/ \E mode : to = SessionInterface(mode)
  PROVE  to = {} \/ \E i \in Interfaces : to = {i}
  <1>1. ASSUME NEW d
        PROVE  TrackingInterface(d) = {} \/ \E i \in Interfaces : TrackingInterface(d) = {i}
    BY DEF TrackingInterface, Interfaces
  <1>2. ASSUME NEW mode
        PROVE  SessionInterface(mode) = {} \/ \E i \in Interfaces : SessionInterface(mode) = {i}
    BY <1>1 DEF SessionInterface, Interfaces
  <1> QED BY <1>1, <1>2

LEMMA NumberGiven ==
  ASSUME CountersTyped(lastSession), NEW to, to = {} \/ \E i \in Interfaces : to = {i},
         Allocated(to, 1), \A i \in Interfaces : lastSession'[i] <= MaxApiSessions
  PROVE  /\ CountersTyped(lastSession') /\ NextSession(to) \in SessionOrNone
         /\ to # {} => NextSession(to) \in Sessions
  <1>1. ASSUME NEW i \in Interfaces
        PROVE  lastSession[i] \in Nat /\ lastSession'[i] \in SessionOrNone
    <2>1. lastSession'[i] = IF i \in to THEN lastSession[i] + 1 ELSE lastSession[i]
      BY DEF Allocated
    <2>2. lastSession[i] \in Nat
      BY SessionNumbers DEF CountersTyped, SessionOrNone
    <2> QED BY <2>1, <2>2, SessionNumbers DEF SessionOrNone
  <1>2. CountersTyped(lastSession')
    BY <1>1 DEF CountersTyped, Allocated
  <1>3. CASE to = {}
    BY <1>2, <1>3, SessionNumbers DEF NextSession
  <1>4. ASSUME NEW i \in Interfaces, to = {i}
        PROVE  NextSession(to) \in Sessions
    <2>1. (CHOOSE j \in to : TRUE) = i
      BY <1>4
    <2>2. NextSession(to) = lastSession[i] + 1 /\ lastSession'[i] = lastSession[i] + 1
      BY <1>4, <2>1 DEF NextSession, Allocated
    <2>3. lastSession'[i] <= MaxApiSessions
      OBVIOUS
    <2> QED BY <1>1, <2>2, <2>3, SessionNumbers DEF Sessions
  <1> QED BY <1>2, <1>3, <1>4, SessionNumbers

(* The dictionary.                                                         *)
LEMMA RebindTyped ==
  ASSUME DictTyped(forwardMap, backwardMap, extMap), NEW id \in ClientIds, NEW s \in SessionOrNone,
         NEW ext, Rebind(id, s, ext)
  PROVE  DictTyped(forwardMap', backwardMap', extMap')
  <1>1. PICK old : old = IF id \in DOMAIN forwardMap THEN {forwardMap[id]} ELSE {}
    OBVIOUS
  <1>2. /\ forwardMap' = With(forwardMap, id, s)
        /\ backwardMap' = With(Without(backwardMap, old), s, id)
        /\ extMap' = With(Without(extMap, old), s, ext)
    BY <1>1 DEF Rebind
  <1>5. /\ DOMAIN forwardMap' = DOMAIN forwardMap \cup {id}
        /\ DOMAIN backwardMap' = (DOMAIN backwardMap \ old) \cup {s}
        /\ DOMAIN extMap' = (DOMAIN extMap \ old) \cup {s}
    BY <1>2 DEF With, Without
  <1>6. \A x \in DOMAIN forwardMap' : forwardMap'[x] = IF x = id THEN s ELSE forwardMap[x]
    BY <1>2, <1>5 DEF With
  <1> QED BY <1>5, <1>6 DEF DictTyped

LEMMA RemovedTyped ==
  ASSUME DictTyped(forwardMap, backwardMap, extMap), NEW S, rmBySession(S)
  PROVE  DictTyped(forwardMap', backwardMap', extMap')
  <1>1. PICK ids : ids = {backwardMap[s] : s \in S}
    OBVIOUS
  <1>2. /\ forwardMap' = Without(forwardMap, ids) /\ backwardMap' = Without(backwardMap, S)
        /\ extMap' = Without(extMap, S)
    BY <1>1 DEF rmBySession
  <1>3. /\ DOMAIN forwardMap' = DOMAIN forwardMap \ ids /\ DOMAIN backwardMap' = DOMAIN backwardMap \ S
        /\ DOMAIN extMap' = DOMAIN extMap \ S
    BY <1>2 DEF Without
  <1>4. \A x \in DOMAIN forwardMap' : forwardMap'[x] = forwardMap[x]
    BY <1>2, <1>3 DEF Without
  <1> QED BY <1>3, <1>4 DEF DictTyped

(* Tracking.                                                               *)
NumbersLeft == \A i \in Interfaces : lastSession'[i] <= MaxApiSessions

LEMMA StartTyped ==
  ASSUME TypesInv, NEW d, locAPIStartTracking(d), NumbersLeft
  PROVE  TypesInv'
  <1>1. PICK to : to = TrackingInterface(d)
    OBVIOUS
  <1>2. PICK s : s = NextSession(to)
    OBVIOUS
  <1>3. /\ reqSession' = s /\ reqQueue' = <<Request("start")>> /\ mTracking' = TRUE
        /\ Allocated(to, 1) /\ calls' = Sent(calls, to, Call("start", {s}, {}))
        /\ UNCHANGED <<mLocationAPI, live, refused, mismatch, forwardMap, backwardMap, extMap>>
    BY <1>1, <1>2 DEF locAPIStartTracking, ClientCalls, dict
  <1>4. CountersTyped(lastSession') /\ s \in SessionOrNone /\ (to # {} => s \in Sessions)
    BY <1>1, <1>2, <1>3, ServingInterface, NumberGiven DEF TypesInv, NumbersLeft
  <1>5. QueueTyped(reqQueue')
    BY <1>3, PlainRequest, RequestQueued, OpNames DEF TypesInv
  <1>6. CallsTyped(calls')
    <2>1. to \cap interfaces # {} => Call("start", {s}, {}) \in TypedCalls
      <3>1. ASSUME to # {}
            PROVE  Call("start", {s}, {}) \in TypedCalls
        BY <1>4, <3>1, CallTyped, OpNames
      <3> QED BY <3>1
    <2> QED BY <1>3, <2>1, CallSent DEF TypesInv
  <1> QED BY <1>3, <1>4, <1>5, <1>6 DEF TypesInv

LEMMA StopTyped ==
  ASSUME TypesInv, NEW op \in {"stop", "update"}, StopOrUpdateTracking(op)
  PROVE  TypesInv'
  <1>1. /\ reqQueue' = Append(reqQueue, Request(op))
        /\ calls' = Sent(calls, {"gnss", "flp"}, Call(op, {reqSession}, {}))
        /\ mTracking' = IF op = "stop" THEN FALSE ELSE mTracking
        /\ UNCHANGED <<mLocationAPI, live, refused, mismatch, forwardMap, backwardMap, extMap,
                       reqSession, lastSession>>
    BY DEF StopOrUpdateTracking, ClientCalls, dict
  <1>2. op \in Operations /\ op \notin {"start", "add"}
    BY OpNames
  <1>3. QueueTyped(reqQueue')
    BY <1>1, <1>2, PlainRequest, RequestQueued DEF TypesInv
  <1>4. Call(op, {reqSession}, {}) \in TypedCalls
    BY <1>2, CallTyped DEF TypesInv
  <1>5. CallsTyped(calls')
    BY <1>1, <1>4, CallSent DEF TypesInv
  <1> QED BY <1>1, <1>3, <1>5 DEF TypesInv

(* Sessions of one id.                                                     *)
LEMMA SessionCallTyped ==
  ASSUME TypesInv, NEW to, NEW op \in {"stop", "update", "getBatched"}, NEW s \in SessionOrNone,
         reqQueue' = Append(reqQueue, Request(op)), calls' = Sent(calls, to, Call(op, {s}, {}))
  PROVE  QueueTyped(reqQueue') /\ CallsTyped(calls')
  <1>1. op \in Operations /\ op \notin {"start", "add"}
    BY OpNames
  <1>2. QueueTyped(reqQueue')
    BY <1>1, PlainRequest, RequestQueued DEF TypesInv
  <1>3. Call(op, {s}, {}) \in TypedCalls
    BY <1>1, CallTyped
  <1> QED BY <1>2, <1>3, CallSent DEF TypesInv

LEMMA StartSessionTyped ==
  ASSUME TypesInv, NEW mode, locAPIStartSession(mode), NumbersLeft
  PROVE  TypesInv'
  <1>1. PICK to : to = SessionInterface(mode)
    OBVIOUS
  <1>2. PICK s : s = NextSession(to)
    OBVIOUS
  <1>3. /\ reqQueue' = Append(reqQueue, Request("start")) /\ Rebind(mDefaultId, s, mode)
        /\ Allocated(to, 1) /\ calls' = Sent(calls, to, Call("start", {s}, {}))
        /\ UNCHANGED <<mLocationAPI, live, refused, mismatch, reqSession, mTracking>>
    BY <1>1, <1>2 DEF locAPIStartSession, ClientCalls
  <1>4. CountersTyped(lastSession') /\ s \in SessionOrNone /\ (to # {} => s \in Sessions)
    BY <1>1, <1>2, <1>3, ServingInterface, NumberGiven DEF TypesInv, NumbersLeft
  <1>5. QueueTyped(reqQueue')
    BY <1>3, PlainRequest, RequestQueued, OpNames DEF TypesInv
  <1>6. CallsTyped(calls')
    <2>1. ASSUME to # {}
          PROVE  Call("start", {s}, {}) \in TypedCalls
      BY <1>4, <2>1, CallTyped, OpNames
    <2> QED BY <1>3, <2>1, CallSent DEF TypesInv
  <1>7. DictTyped(forwardMap', backwardMap', extMap')
    BY <1>3, <1>4, RebindTyped DEF TypesInv, ClientIds
  <1> QED BY <1>3, <1>4, <1>5, <1>6, <1>7 DEF TypesInv

LEMMA StopSessionTyped ==
  ASSUME TypesInv, locAPIStopSession \/ locAPIGetBatchedLocations
  PROVE  TypesInv'
  <1>1. PICK s : s = forwardMap[mDefaultId]
    OBVIOUS
  <1>2. /\ mDefaultId \in DOMAIN forwardMap
        /\ UNCHANGED <<mLocationAPI, live, refused, mismatch, forwardMap, backwardMap, extMap,
                       reqSession, mTracking, lastSession>>
    BY DEF locAPIStopSession, locAPIGetBatchedLocations, ClientCalls, dict
  <1>3. s \in SessionOrNone
    BY <1>1, <1>2 DEF TypesInv, DictTyped
  <1>4. CASE locAPIStopSession
    <2>1. PICK to : calls' = Sent(calls, to, Call("stop", {s}, {}))
      BY <1>1, <1>4 DEF locAPIStopSession
    <2>2. reqQueue' = Append(reqQueue, Request("stop"))
      BY <1>4 DEF locAPIStopSession
    <2> QED BY <1>2, <1>3, <2>1, <2>2, SessionCallTyped DEF TypesInv
  <1>5. CASE locAPIGetBatchedLocations
    <2>1. /\ calls' = Sent(calls, {"flp"}, Call("getBatched", {s}, {}))
          /\ reqQueue' = Append(reqQueue, Request("getBatched"))
      BY <1>1, <1>5 DEF locAPIGetBatchedLocations
    <2> QED BY <1>2, <1>3, <2>1, SessionCallTyped DEF TypesInv
  <1> QED BY <1>4, <1>5

LEMMA UpdateSessionTyped ==
  ASSUME TypesInv, NEW mode, locAPIUpdateSessionOptions(mode), NumbersLeft
  PROVE  TypesInv'
  <1>1. PICK s, old, to : s = forwardMap[mDefaultId] /\ old = extMap[s] /\ to = SessionInterface(mode)
    OBVIOUS
  <1>2. PICK new : new = NextSession(to)
    OBVIOUS
  <1>3. /\ mDefaultId \in DOMAIN forwardMap /\ reqQueue' = Append(reqQueue, Request("update"))
        /\ UNCHANGED <<mLocationAPI, live, refused, mismatch, reqSession, mTracking>>
        /\ \/ /\ Rebind(mDefaultId, new, mode) /\ Allocated(to, 1)
              /\ calls' = Sent(Sent(calls, StopInterfaces(old), Call("stop", {s}, {})),
                               to, Call("start", {new}, {}))
           \/ /\ Rebind(mDefaultId, s, mode) /\ UNCHANGED lastSession
              /\ calls' = Sent(calls, StopInterfaces(mode), Call("update", {s}, {}))
    BY <1>1, <1>2 DEF locAPIUpdateSessionOptions, ClientCalls
  <1>4. s \in SessionOrNone /\ mDefaultId \in ClientIds
    BY <1>1, <1>3 DEF TypesInv, DictTyped, ClientIds
  <1>5. QueueTyped(reqQueue')
    BY <1>3, PlainRequest, RequestQueued, OpNames DEF TypesInv
  <1>6. CASE /\ Rebind(mDefaultId, new, mode) /\ Allocated(to, 1)
             /\ calls' = Sent(Sent(calls, StopInterfaces(old), Call("stop", {s}, {})),
                              to, Call("start", {new}, {}))
    <2>1. CountersTyped(lastSession') /\ new \in SessionOrNone /\ (to # {} => new \in Sessions)
      BY <1>1, <1>2, <1>6, ServingInterface, NumberGiven DEF TypesInv, NumbersLeft
    <2>2. DictTyped(forwardMap', backwardMap', extMap')
      BY <1>4, <1>6, <2>1, RebindTyped DEF TypesInv
    <2>3. Call("stop", {s}, {}) \in TypedCalls
      BY <1>4, CallTyped, OpNames
    <2>4. PICK cs : cs = Sent(calls, StopInterfaces(old), Call("stop", {s}, {})) /\ CallsTyped(cs)
      BY <2>3, CallSent DEF TypesInv
    <2>5. ASSUME to # {}
          PROVE  Call("start", {new}, {}) \in TypedCalls
      BY <2>1, <2>5, CallTyped, OpNames
    <2>6. CallsTyped(calls')
      BY <1>6, <2>4, <2>5, CallSent
    <2> QED BY <1>3, <1>5, <2>1, <2>2, <2>6 DEF TypesInv
  <1>7. CASE /\ Rebind(mDefaultId, s, mode) /\ UNCHANGED lastSession
             /\ calls' = Sent(calls, StopInterfaces(mode), Call("update", {s}, {}))
    <2>1. DictTyped(forwardMap', backwardMap', extMap')
      BY <1>4, <1>7, RebindTyped DEF TypesInv
    <2>2. Call("update", {s}, {}) \in TypedCalls
      BY <1>4, CallTyped, OpNames
    <2>3. CallsTyped(calls')
      BY <1>7, <2>2, CallSent DEF TypesInv
    <2> QED BY <1>3, <1>5, <1>7, <2>1, <2>3 DEF TypesInv
  <1> QED BY <1>3, <1>6, <1>7

(* Geofences.                                                              *)
LEMMA AddTyped ==
  ASSUME TypesInv, ApiInv, NEW ids \in SUBSET GeofenceIds, NEW mask, locAPIAddGeofences(ids, mask), NumbersLeft
  PROVE  TypesInv'
  <1>1. PICK n \in Nat : n = Cardinality(ids)
    <2>1. IsFiniteSet(ids)
      BY ApiAssumption, FS_Subset
    <2> QED BY <2>1, FS_CardinalityType
  <1>2. PICK l \in Nat : l = lastSession["geofence"]
    BY SessionNumbers DEF TypesInv, CountersTyped, Interfaces, SessionOrNone
  <1>3. PICK f \in [ids -> (l + 1)..(l + n)] :
          /\ forwardMap' = [i \in DOMAIN forwardMap \cup ids |-> IF i \in ids THEN f[i] ELSE forwardMap[i]]
          /\ calls' = Sent(calls, {"geofence"}, Call("add", {f[i] : i \in ids}, ids))
    BY <1>1, <1>2 DEF locAPIAddGeofences
  <1>4. /\ backwardMap' = [s \in {forwardMap'[i] : i \in DOMAIN forwardMap'} |->
                             CHOOSE i \in DOMAIN forwardMap' : forwardMap'[i] = s]
        /\ extMap' = [s \in DOMAIN backwardMap' |-> IF s \in DOMAIN extMap THEN extMap[s] ELSE mask]
        /\ reqSession' = 1 /\ reqQueue' = Append(reqQueue, Request("add"))
        /\ lastSession' = [i \in Interfaces |-> IF i \in {"geofence"} THEN lastSession[i] + n ELSE lastSession[i]]
        /\ UNCHANGED <<mLocationAPI, live, refused, mismatch, mTracking>>
    BY <1>1 DEF locAPIAddGeofences, Allocated, ClientCalls
  <1>5. l + n <= MaxApiSessions
    BY <1>2, <1>4 DEF NumbersLeft, Interfaces
  <1>6. CountersTyped(lastSession')
    <2>1. ASSUME NEW i \in Interfaces
          PROVE  lastSession'[i] \in SessionOrNone
      <3>1. lastSession[i] \in SessionOrNone
        BY DEF TypesInv, CountersTyped
      <3> QED BY <1>2, <1>4, <1>5, <3>1, SessionNumbers DEF SessionOrNone
    <2> QED BY <1>4, <2>1 DEF CountersTyped
  <1>7. (l + 1)..(l + n) \subseteq Sessions
    BY <1>5, SessionNumbers DEF Sessions
  <1>8. \A i \in ids : f[i] \in Sessions
    BY <1>3, <1>7
  <1>9. {f[i] : i \in ids} \subseteq Sessions /\ ids \in SUBSET ClientIds
    BY <1>8 DEF ClientIds
  <1>10. CallsTyped(calls')
    <2>1. Call("add", {f[i] : i \in ids}, ids) \in TypedCalls
      <3>1. PICK S : S = {f[i] : i \in ids}
        OBVIOUS
      <3>2. S \in SUBSET SessionOrNone /\ S \subseteq Sessions
        BY <1>9, <3>1, SessionNumbers
      <3> QED BY <1>9, <3>1, <3>2, CallTyped, OpNames
    <2> QED BY <1>3, <2>1, CallSent DEF TypesInv
  <1>11. QueueTyped(reqQueue')
    BY <1>4, PlainRequest, RequestQueued, OpNames DEF TypesInv
  <1>12. DictTyped(forwardMap', backwardMap', extMap')
    <2>1. DOMAIN forwardMap' = DOMAIN forwardMap \cup ids
      BY <1>3
    <2>2. DOMAIN forwardMap' \subseteq ClientIds
      BY <1>9, <2>1 DEF TypesInv, DictTyped
    <2>3. ASSUME NEW i \in DOMAIN forwardMap'
          PROVE  forwardMap'[i] \in SessionOrNone
      <3>1. CASE i \in ids
        BY <1>3, <1>8, <2>1, <3>1, SessionNumbers
      <3>2. CASE i \notin ids
        BY <1>3, <2>1, <3>2 DEF TypesInv, DictTyped
      <3> QED BY <3>1, <3>2
    <2>4. DOMAIN extMap' = DOMAIN backwardMap' /\ DOMAIN backwardMap' = {forwardMap'[i] : i \in DOMAIN forwardMap'}
      BY <1>4
    <2>5. DOMAIN extMap' \subseteq SessionOrNone
      BY <2>3, <2>4
    <2> QED BY <2>2, <2>3, <2>4, <2>5 DEF DictTyped
  <1> QED BY <1>4, <1>6, <1>10, <1>11, <1>12, SessionNumbers DEF TypesInv

LEMMA KnownTyped ==
  ASSUME TypesInv, ApiInv, NEW op \in Operations \ {"start", "add"}, NEW ids, NEW request,
         RequestTyped(request), GeofenceCall(op, ids, request)
  PROVE  /\ KnownSessions(ids) \subseteq Sessions
         /\ QueueTyped(reqQueue') /\ CallsTyped(calls')
         /\ UNCHANGED <<mLocationAPI, live, refused, mismatch, reqSession, mTracking, lastSession>>
  <1>1. PICK S, known : S = KnownSessions(ids) /\ known = ids \cap DOMAIN forwardMap
    OBVIOUS
  <1>2. /\ reqQueue' = Append(reqQueue, request) /\ calls' = Sent(calls, {"geofence"}, Call(op, S, known))
        /\ UNCHANGED <<mLocationAPI, live, refused, mismatch, reqSession, mTracking, lastSession>>
    BY <1>1 DEF GeofenceCall, ClientCalls
  <1>3. S \subseteq 1..lastSession["geofence"]
    BY <1>1, <1>2, KnownGeofences
  <1>4. lastSession["geofence"] \in SessionOrNone
    BY DEF TypesInv, CountersTyped, Interfaces
  <1>5. S \subseteq Sessions /\ S \in SUBSET SessionOrNone
    BY <1>3, <1>4, SessionNumbers DEF Sessions, SessionOrNone
  <1>6. known \in SUBSET ClientIds
    BY <1>1 DEF TypesInv, DictTyped
  <1>7. Call(op, S, known) \in TypedCalls
    BY <1>5, <1>6, CallTyped
  <1>8. QueueTyped(reqQueue') /\ CallsTyped(calls')
    BY <1>2, <1>7, CallSent, RequestQueued DEF TypesInv
  <1> QED BY <1>1, <1>2, <1>5, <1>8

LEMMA RemoveTyped ==
  ASSUME TypesInv, ApiInv, NEW ids, locAPIRemoveGeofences(ids)
  PROVE  TypesInv'
  <1>1. PICK S, x : S = KnownSessions(ids) /\ x = [op |-> "remove", removed |-> [s \in S |-> backwardMap[s]]]
    OBVIOUS
  <1>2. GeofenceCall("remove", ids, x) /\ rmBySession(S)
    BY <1>1 DEF locAPIRemoveGeofences
  <1>3. x.op = "remove" /\ DOMAIN x.removed = S
    BY <1>1
  <1>4. S \subseteq Sessions
    <2>1. S \subseteq 1..lastSession'["geofence"] /\ UNCHANGED lastSession
      BY <1>1, <1>2, KnownGeofences
    <2>2. lastSession["geofence"] \in SessionOrNone
      BY DEF TypesInv, CountersTyped, Interfaces
    <2> QED BY <2>1, <2>2, SessionNumbers DEF Sessions, SessionOrNone
  <1>5. RequestTyped(x)
    BY <1>3, <1>4, OpNames DEF RequestTyped
  <1>6. /\ QueueTyped(reqQueue') /\ CallsTyped(calls')
        /\ UNCHANGED <<mLocationAPI, live, refused, mismatch, reqSession, mTracking, lastSession>>
    BY <1>2, <1>5, KnownTyped, OpNames
  <1>7. DictTyped(forwardMap', backwardMap', extMap')
    BY <1>2, RemovedTyped DEF TypesInv
  <1> QED BY <1>6, <1>7 DEF TypesInv

LEMMA ChangeTyped ==
  ASSUME TypesInv, ApiInv, NEW op \in {"modify", "pause", "resume"}, NEW ids, GeofenceCall(op, ids, Request(op)),
         UNCHANGED <<forwardMap, backwardMap>>, DOMAIN extMap' = DOMAIN extMap
  PROVE  TypesInv'
  <1>1. op \in Operations \ {"start", "add"}
    BY OpNames
  <1>2. /\ QueueTyped(reqQueue') /\ CallsTyped(calls')
        /\ UNCHANGED <<mLocationAPI, live, refused, mismatch, reqSession, mTracking, lastSession>>
    BY <1>1, PlainRequest, KnownTyped
  <1>3. DictTyped(forwardMap', backwardMap', extMap')
    BY DEF TypesInv, DictTyped
  <1> QED BY <1>2, <1>3 DEF TypesInv

LEMMA CallsTypedStep ==
  ASSUME TypesInv, ApiInv, ApiCalls, NumbersLeft
  PROVE  TypesInv'
  <1>1. CASE (\E d \in {0, 1} : gnssStart(d)) \/ measurementSetCallback
    BY <1>1, StartTyped DEF gnssStart, measurementSetCallback
  <1>2. CASE gnssStop \/ measurementClose \/ gnssSetPositionMode
    BY <1>2, StopTyped DEF gnssStop, measurementClose, gnssSetPositionMode
  <1>3. CASE startSession
    BY <1>3, StartSessionTyped DEF startSession
  <1>4. CASE updateSessionOptions
    BY <1>4, UpdateSessionTyped DEF updateSessionOptions
  <1>5. CASE stopSession \/ flushBatchedLocations
    BY <1>5, StopSessionTyped DEF stopSession, flushBatchedLocations
  <1>6. ASSUME NEW ids, NEW mask, SetMask(ids, mask)
        PROVE  UNCHANGED <<forwardMap, backwardMap>> /\ DOMAIN extMap' = DOMAIN extMap
    BY <1>6 DEF SetMask
  <1>7. ASSUME NEW id, geofencePause(id)
        PROVE  TypesInv'
    <2>1. GeofenceCall("pause", {id}, Request("pause")) /\ UNCHANGED <<forwardMap, backwardMap, extMap>>
      BY <1>7 DEF geofencePause, locAPIPauseGeofences, dict
    <2> QED BY <2>1, ChangeTyped
  <1>8. ASSUME NEW id, NEW t, geofenceResume(id, t)
        PROVE  TypesInv'
    <2>1. GeofenceCall("resume", {id}, Request("resume")) /\ SetMask({id}, Monitored(t))
      BY <1>8 DEF geofenceResume, locAPIResumeGeofences
    <2> QED BY <1>6, <2>1, ChangeTyped
  <1>9. ASSUME NEW t, locAPIModifyGeofences(GeofenceIds, t)
        PROVE  TypesInv'
    <2>1. GeofenceCall("modify", GeofenceIds, Request("modify")) /\ SetMask(GeofenceIds, t)
      BY <1>9 DEF locAPIModifyGeofences
    <2> QED BY <1>6, <2>1, ChangeTyped
  <1>10. ASSUME NEW id \in GeofenceIds, NEW t, geofenceAdd(id, t)
         PROVE  TypesInv'
    <2>1. locAPIAddGeofences({id}, Monitored(t)) /\ {id} \in SUBSET GeofenceIds
      BY <1>10 DEF geofenceAdd
    <2> QED BY <2>1, AddTyped
  <1>11. ASSUME NEW t, locAPIAddGeofences(GeofenceIds, t)
         PROVE  TypesInv'
    BY <1>11, AddTyped
  <1>12. ASSUME NEW ids, locAPIRemoveGeofences(ids)
         PROVE  TypesInv'
    BY <1>12, RemoveTyped
  <1> QED BY <1>1, <1>2, <1>3, <1>4, <1>5, <1>7, <1>8, <1>9, <1>10, <1>11, <1>12 DEF ApiCalls, geofenceRemove

(* A service handles a call, and what it does on its own.                  *)
LEMMA ServeTyped ==
  ASSUME TypesInv, ApiInv, NEW i \in Interfaces, Serve(i)
  PROVE  TypesInv'
  <1>1. PICK c : c = Head(calls[i])
    OBVIOUS
  <1>2. /\ calls[i] # <<>> /\ calls' = [calls EXCEPT ![i] = Tail(calls[i])]
        /\ UNCHANGED <<mLocationAPI, reqSession, mTracking, lastSession>>
    BY DEF Serve
  <1>3. calls[i] \in Seq(TypedCalls) /\ calls \in [Interfaces -> Seq(TypedCalls)]
    BY DEF TypesInv, CallsTyped
  <1>4. c \in TypedCalls /\ Tail(calls[i]) \in Seq(TypedCalls)
    BY <1>1, <1>2, <1>3
  <1>5. CallsTyped(calls')
    BY <1>2, <1>3, <1>4 DEF CallsTyped
  <1>6. PICK ok \in BOOLEAN :
          /\ live' = [live EXCEPT ![i] = RunsAfter(c, ok, live[i])]
          /\ refused' = [refused EXCEPT ![i] = KeptAfter(c, ok, live[i], refused[i])]
          /\ IF apiRole = "geofence" THEN onCollectiveResponseCb(c) /\ UNCHANGED niRequest
             ELSE IF c.op = "start" \/ c.sessions \subseteq live[i] THEN onResponseCb(c, ok)
             ELSE UNCHANGED <<reqQueue, mismatch, dict, niRequest>>
    BY <1>1 DEF Serve, RunsAfter, KeptAfter
  <1>7. ServicesTyped(live', refused')
    <2>1. live \in [Interfaces -> SUBSET Sessions] /\ refused \in [Interfaces -> SUBSET Sessions]
      BY DEF TypesInv, ServicesTyped
    <2>2. RunsAfter(c, ok, live[i]) \in SUBSET Sessions
      <3>1. c.op \in {"start", "add"} => c.sessions \subseteq Sessions
        BY <1>4 DEF TypedCalls
      <3> QED BY <2>1, <3>1 DEF RunsAfter
    <2>3. KeptAfter(c, ok, live[i], refused[i]) \in SUBSET Sessions
      BY <2>1 DEF KeptAfter
    <2> QED BY <1>6, <2>1, <2>2, <2>3 DEF ServicesTyped
  <1>8. QueueTyped(reqQueue') /\ mismatch' \in BOOLEAN /\ DictTyped(forwardMap', backwardMap', extMap')
    <2>1. CASE UNCHANGED <<reqQueue, mismatch, dict>>
      BY <2>1 DEF TypesInv, dict
    <2>2. CASE apiRole = "geofence" /\ onCollectiveResponseCb(c)
      <3>1. /\ reqQueue' = Tail(reqQueue) /\ mismatch' \in BOOLEAN
            /\ UNCHANGED <<forwardMap, backwardMap, extMap>>
        BY <2>2 DEF onCollectiveResponseCb, dict
      <3>2. reqQueue # <<>>
        <4>1. ApiTypes /\ FenceInv
          BY <2>2, FenceScope
        <4>2. i = "geofence"
          BY <1>2, <2>2, <4>1 DEF ApiTypes, ApiInv, ApiLoaded, Wanted
        <4>3. IsSeq(calls[i]) /\ IsSeq(reqQueue) /\ Lockstep(calls[i], reqQueue)
          BY <4>1, <4>2 DEF ApiTypes, FenceInv
        <4> QED BY <1>2, <4>3, LockstepServed
      <3> QED BY <3>1, <3>2, RequestTaken DEF TypesInv
    <2>3. CASE onResponseCb(c, ok)
      <3>1. PICK s : s = CHOOSE x \in c.sessions : TRUE
        OBVIOUS
      <3>2. CASE "calls" \in getRequestBySession(s) /\ reqQueue # <<>>
        <4>1. /\ reqQueue' = Tail(reqQueue) /\ mismatch' \in BOOLEAN
              /\ rmBySession({s}) \/ UNCHANGED <<forwardMap, backwardMap, extMap>>
          BY <2>3, <3>1, <3>2 DEF onResponseCb, dict
        <4>2. DictTyped(forwardMap', backwardMap', extMap')
          BY <4>1, RemovedTyped DEF TypesInv
        <4> QED BY <3>2, <4>1, <4>2, RequestTaken DEF TypesInv
      <3>3. CASE ~("calls" \in getRequestBySession(s) /\ reqQueue # <<>>)
        <4>1. UNCHANGED <<reqQueue, forwardMap, backwardMap, extMap>> /\ mismatch' \in BOOLEAN
          BY <2>3, <3>1, <3>3 DEF onResponseCb, dict
        <4> QED BY <4>1 DEF TypesInv
      <3> QED BY <3>2, <3>3
    <2> QED BY <1>6, <2>1, <2>2, <2>3
  <1> QED BY <1>2, <1>5, <1>7, <1>8 DEF TypesInv

LEMMA TypesStep ==
  ASSUME TypesInv, ApiInv, [ApiNext]_apiVars
  PROVE  TypesInv'
  <1>1. CASE locAPISetCallbacks
    <2>1. /\ mLocationAPI' = TRUE
          /\ UNCHANGED <<reqSession, reqQueue, mTracking, forwardMap, backwardMap, extMap, lastSession,
                         live, calls, refused, mismatch>>
      BY <1>1 DEF locAPISetCallbacks, createInstance, clientSide
    <2> QED BY <2>1 DEF TypesInv
  <1>2. CASE ApiCalls /\ NumbersLeft
    BY <1>2, CallsTypedStep
  <1>3. ASSUME NEW i \in Interfaces, Serve(i)
        PROVE  TypesInv'
    BY <1>3, ServeTyped
  <1>4. ASSUME NEW s, beforeBatchingStatusCb(s)
        PROVE  TypesInv'
    <2>1. /\ live' = [live EXCEPT !["flp"] = @ \ {s}] /\ rmBySession({s})
          /\ UNCHANGED <<mLocationAPI, reqSession, reqQueue, mTracking, lastSession, calls, refused, mismatch>>
      BY <1>4 DEF beforeBatchingStatusCb
    <2>2. ServicesTyped(live', refused')
      BY <2>1 DEF TypesInv, ServicesTyped, Interfaces
    <2>3. DictTyped(forwardMap', backwardMap', extMap')
      BY <2>1, RemovedTyped DEF TypesInv
    <2> QED BY <2>1, <2>2, <2>3 DEF TypesInv
  <1>5. ASSUME NEW s, NEW t, beforeGeofenceBreachCb(s, t)
        PROVE  TypesInv'
    <2>1. /\ mismatch' \in BOOLEAN
          /\ UNCHANGED <<mLocationAPI, reqSession, reqQueue, mTracking, forwardMap, backwardMap, extMap,
                         lastSession, live, calls, refused>>
      BY <1>5 DEF beforeGeofenceBreachCb, clientSide
    <2> QED BY <2>1 DEF TypesInv
  <1>6. CASE UNCHANGED apiVars
    BY <1>6 DEF apiVars, clientSide, TypesInv
  <1>7. ASSUME NEW id, gnssNiRespond(id)
        PROVE  TypesInv'
    BY <1>7 DEF gnssNiRespond, locAPIGnssNiResponse, clientSide, TypesInv
  <1>8. CASE ServeNi
    <2>1. /\ (reqQueue' = Tail(reqQueue) /\ reqQueue # <<>>) \/ reqQueue' = reqQueue
          /\ mismatch' \in BOOLEAN
          /\ UNCHANGED <<mLocationAPI, reqSession, mTracking, forwardMap, backwardMap, extMap, lastSession,
                         live, calls, refused>>
      BY <1>8 DEF ServeNi, dict
    <2>2. QueueTyped(reqQueue')
      BY <2>1, RequestTaken DEF TypesInv
    <2> QED BY <2>1, <2>2 DEF TypesInv
  <1> QED BY <1>1, <1>2, <1>3, <1>4, <1>5, <1>6, <1>7, <1>8 DEF ApiNext, ApiOperation, NumbersLeft

LEMMA TypesStart == ApiInit => TypesInv
  <1> SUFFICES ASSUME ApiInit
               PROVE  TypesInv
    OBVIOUS
  <1>1. /\ mLocationAPI = FALSE /\ mTracking = FALSE /\ reqSession = 0 /\ reqQueue = <<>>
        /\ forwardMap = << >> /\ backwardMap = << >> /\ extMap = << >> /\ mismatch = FALSE
        /\ lastSession = [i \in Interfaces |-> 0] /\ live = [i \in Interfaces |-> {}]
        /\ calls = [i \in Interfaces |-> <<>>] /\ refused = [i \in Interfaces |-> {}]
    BY DEF ApiInit
  <1>2. IsSeq(<<>>) /\ DOMAIN <<>> = {}
    BY DEF IsSeq
  <1>3. QueueTyped(reqQueue) /\ DictTyped(forwardMap, backwardMap, extMap)
    BY <1>1, <1>2 DEF QueueTyped, DictTyped
  <1>4. CountersTyped(lastSession) /\ ServicesTyped(live, refused) /\ CallsTyped(calls)
    BY <1>1, SessionNumbers DEF CountersTyped, ServicesTyped, CallsTyped
  <1> QED BY <1>1, <1>3, <1>4, SessionNumbers DEF TypesInv

(* The types of the location API's client and of the services, for every   *)
(* role: session numbers stay in range, the dictionary's two maps have the *)
(* same sessions, only sessions that were started run (the 0 a call gets   *)
(* when no library serves it is never one), and an answer is handled only  *)
(* when a request waits (LocationAPIClientBase.cpp).                       *)
THEOREM ApiTypeCorrect == ApiSpec => []ApiTypeOK
  <1> DEFINE Inv == ApiInv /\ NiInv /\ TypesInv
  <1>1. ApiInit => Inv
    BY ApiStart, TypesStart
  <1>2. Inv /\ [ApiNext]_apiVars => Inv'
    BY ApiStep, TypesStep
  <1>3. Inv => ApiTypeOK
    <2> SUFFICES ASSUME ApiInv, NiInv, TypesInv
                 PROVE  ApiTypeOK
      OBVIOUS
    <2>1. apiRole \in {"tracking", "session", "geofence"} /\ interfaces \subseteq Interfaces
      BY DEF ApiInv, ApiLoaded, Wanted, Interfaces
    <2>2. ASSUME NEW i \in Interfaces
          PROVE  calls[i] \in Seq([op : Operations, sessions : SUBSET (0..MaxApiSessions),
                                   ids : SUBSET (GeofenceIds \cup {mDefaultId})])
      <3>1. TypedCalls \subseteq PlainCalls
        BY DEF TypedCalls
      <3>2. calls[i] \in Seq(TypedCalls)
        BY DEF TypesInv, CallsTyped
      <3>3. calls[i] \in Seq(PlainCalls)
        BY <3>1, <3>2
      <3> QED BY <3>3 DEF PlainCalls, SessionOrNone, ClientIds
    <2>3. \A i \in DOMAIN reqQueue : reqQueue[i].op \in Operations /\ DOMAIN reqQueue[i].removed \subseteq Sessions
      BY DEF TypesInv, QueueTyped, RequestTyped
    <2>4. /\ DOMAIN forwardMap \subseteq GeofenceIds \cup {mDefaultId}
          /\ DOMAIN backwardMap = DOMAIN extMap /\ DOMAIN extMap \subseteq 0..MaxApiSessions
      BY DEF TypesInv, DictTyped, SessionOrNone, ClientIds
    <2>5. /\ {mLocationAPI, mTracking, niRequest, mismatch, collided} \subseteq BOOLEAN
          /\ reqSession \in 0..MaxApiSessions
          /\ lastSession \in [Interfaces -> 0..MaxApiSessions]
          /\ live \in [Interfaces -> SUBSET Sessions] /\ refused \in [Interfaces -> SUBSET Sessions]
      BY DEF TypesInv, NiInv, CountersTyped, ServicesTyped, SessionOrNone
    <2>6. niSession \in NiIds \cup {0} /\ \A k \in DOMAIN niCalls : niCalls[k].id \in NiIds
      BY DEF NiInv
    <2> QED BY <2>1, <2>2, <2>3, <2>4, <2>5, <2>6 DEF ApiTypeOK
  <1> QED BY <1>1, <1>2, <1>3, PTL DEF ApiSpec
=============================================================================
