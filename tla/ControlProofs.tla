--------------------------- MODULE ControlProofs ---------------------------
(***************************************************************************)
(* Theorems about the control path to the engine: who hears it and what it *)
(* is asked for (EventMask), and the power vote, the configuration and the *)
(* capabilities (GnssControl), for any adapters, clients, updates and      *)
(* bounds.                                                                 *)
(*                                                                         *)
(* Event masks: LocApiBase's array is filled without holes or repetitions  *)
(* up to its first NULL, GnssAdapter's own mask is always the one its      *)
(* clients and callbacks need, and the engine's mask is the union of all   *)
(* adapters' unless a message that reopens the engine waits.               *)
(*                                                                         *)
(* Controls: what waits in the queue takes the adapter's vote to the       *)
(* client's, the engine's items to mGps_conf and mGps_conf to what the     *)
(* framework wanted; when nothing waits they agree.                        *)
(***************************************************************************)
EXTENDS EventMask, GnssControl, ReportProofs, FiniteSetTheorems

-----------------------------------------------------------------------------
(* The adapters' array.                                                    *)
Filled(n) ==
  /\ \A i \in 1..MAX_ADAPTERS : mLocAdapters[i] # NoAdapter <=> i <= n
  /\ \A i, j \in 1..n : mLocAdapters[i] = mLocAdapters[j] => i = j
  /\ registered = {mLocAdapters[i] : i \in 1..n}

ArrayInv ==
  /\ mLocAdapters \in [1..MAX_ADAPTERS -> Adapters \cup {NoAdapter}]
  /\ registered \subseteq Adapters /\ Gnss \in registered
  /\ \E n \in 1..MAX_ADAPTERS : Filled(n)

LEMMA ReachedAreRegistered ==
  ASSUME ArrayInv
  PROVE  Reached = registered
  <1> USE MaskAssumption
  <1>1. PICK n \in 1..MAX_ADAPTERS : Filled(n)
    BY DEF ArrayInv
  <1>2. {j \in 1..MAX_ADAPTERS : \A k \in 1..j : mLocAdapters[k] # NoAdapter} = 1..n
    <2>1. ASSUME NEW j \in 1..MAX_ADAPTERS, \A k \in 1..j : mLocAdapters[k] # NoAdapter
          PROVE  j \in 1..n
      <3>1. j \in 1..j
        OBVIOUS
      <3> QED BY <1>1, <2>1, <3>1 DEF Filled
    <2>2. ASSUME NEW j \in 1..n
          PROVE  j \in 1..MAX_ADAPTERS /\ \A k \in 1..j : mLocAdapters[k] # NoAdapter
      <3>1. \A k \in 1..j : k \in 1..MAX_ADAPTERS /\ k <= n
        OBVIOUS
      <3> QED BY <1>1, <3>1 DEF Filled
    <2> QED BY <2>1, <2>2
  <1> QED BY <1>1, <1>2 DEF Reached, Filled

LEMMA AdapterAdded ==
  ASSUME ArrayInv, NEW a \in Adapters, addAdapter(a)
  PROVE  ArrayInv'
  <1> USE MaskAssumption
  <1>1. PICK n \in 1..MAX_ADAPTERS : Filled(n)
    BY DEF ArrayInv
  <1>2. PICK i \in 1..MAX_ADAPTERS :
          /\ mLocAdapters[i] = NoAdapter /\ \A j \in 1..(i - 1) : mLocAdapters[j] # NoAdapter
          /\ mLocAdapters' = [mLocAdapters EXCEPT ![i] = a]
    BY DEF addAdapter
  <1>3. i = n + 1
    <2>1. ~(i <= n)
      BY <1>1, <1>2 DEF Filled
    <2>2. CASE i > n + 1
      <3>1. n + 1 \in 1..(i - 1) /\ n + 1 \in 1..MAX_ADAPTERS
        BY <2>2
      <3> QED BY <1>1, <1>2, <3>1 DEF Filled
    <2> QED BY <2>1, <2>2
  <1>4. a \notin registered /\ registered' = registered \cup {a}
    BY DEF addAdapter
  <1>5. /\ mLocAdapters' \in [1..MAX_ADAPTERS -> Adapters \cup {NoAdapter}]
        /\ mLocAdapters'[n + 1] = a
        /\ \A k \in 1..MAX_ADAPTERS : k # n + 1 => mLocAdapters'[k] = mLocAdapters[k]
    BY <1>2, <1>3 DEF ArrayInv
  <1>6. \A k \in 1..n : k \in 1..MAX_ADAPTERS /\ k # n + 1 /\ mLocAdapters[k] \in registered
    BY <1>1 DEF Filled
  <1>7. \A k \in 1..(n + 1) : k \in 1..n \/ k = n + 1
    OBVIOUS
  <1>8. \A k \in 1..MAX_ADAPTERS : mLocAdapters'[k] # NoAdapter <=> k <= n + 1
    <2>1. \A k \in 1..MAX_ADAPTERS : k # n + 1 => (k <= n + 1 <=> k <= n)
      OBVIOUS
    <2> QED BY <1>1, <1>5, <2>1 DEF Filled
  <1>9. \A k, l \in 1..(n + 1) : mLocAdapters'[k] = mLocAdapters'[l] => k = l
    BY <1>1, <1>4, <1>5, <1>6, <1>7 DEF Filled
  <1>10. registered' = {mLocAdapters'[k] : k \in 1..(n + 1)}
    <2>1. \A k \in 1..n : mLocAdapters'[k] = mLocAdapters[k] /\ k \in 1..(n + 1)
      BY <1>5, <1>6
    <2>2. n + 1 \in 1..(n + 1)
      OBVIOUS
    <2> QED BY <1>1, <1>4, <1>5, <1>7, <2>1, <2>2 DEF Filled
  <1>11. n + 1 \in 1..MAX_ADAPTERS
    BY <1>2, <1>3
  <1>12. Filled(n + 1)'
    BY <1>8, <1>9, <1>10 DEF Filled
  <1> QED BY <1>4, <1>5, <1>11, <1>12 DEF ArrayInv

LEMMA AdapterRemoved ==
  ASSUME ArrayInv, NEW a \in Adapters, removeAdapter(a)
  PROVE  ArrayInv'
  <1> USE MaskAssumption
  <1>1. PICK n \in 1..MAX_ADAPTERS : Filled(n)
    BY DEF ArrayInv
  <1> DEFINE IsLast(j, i) == /\ \A k \in j..i : mLocAdapters[k] # NoAdapter
                             /\ i = MAX_ADAPTERS \/ mLocAdapters[i + 1] = NoAdapter
  <1>2. PICK j \in 1..MAX_ADAPTERS :
          /\ mLocAdapters[j] = a
          /\ LET last == CHOOSE i \in j..MAX_ADAPTERS : IsLast(j, i)
             IN mLocAdapters' = [mLocAdapters EXCEPT ![j] = mLocAdapters[last], ![last] = NoAdapter]
    BY DEF removeAdapter
  <1>3. j \in 1..n
    BY <1>1, <1>2 DEF Filled
  <1>4. n \in j..MAX_ADAPTERS /\ IsLast(j, n)
    <2>1. \A k \in j..n : k \in 1..MAX_ADAPTERS /\ k <= n
      BY <1>3
    <2>2. n # MAX_ADAPTERS => n + 1 \in 1..MAX_ADAPTERS /\ ~(n + 1 <= n)
      OBVIOUS
    <2> QED BY <1>1, <1>3, <2>1, <2>2 DEF Filled
  <1>5. \A i \in j..MAX_ADAPTERS : IsLast(j, i) => i = n
    <2>1. ASSUME NEW i \in j..MAX_ADAPTERS, IsLast(j, i)
          PROVE  i = n
      <3>1. i \in j..i /\ i \in 1..MAX_ADAPTERS
        OBVIOUS
      <3>2. i <= n
        BY <1>1, <2>1, <3>1 DEF Filled
      <3>3. i # MAX_ADAPTERS => i + 1 \in 1..MAX_ADAPTERS
        BY <3>1
      <3>4. i < n => i # MAX_ADAPTERS /\ i + 1 <= n
        OBVIOUS
      <3> QED BY <1>1, <2>1, <3>2, <3>3, <3>4 DEF Filled
    <2> QED BY <2>1
  <1>6. (CHOOSE i \in j..MAX_ADAPTERS : IsLast(j, i)) = n
    BY <1>4, <1>5
  <1>7. mLocAdapters' = [mLocAdapters EXCEPT ![j] = mLocAdapters[n], ![n] = NoAdapter]
    BY <1>2, <1>6
  <1> HIDE DEF IsLast
  <1>8. a \in registered \ {Gnss} /\ registered' = registered \ {a}
    BY DEF removeAdapter
  <1>9. n > 1
    <2>1. CASE n = 1
      <3>1. registered = {mLocAdapters[1]} /\ j = 1
        BY <1>1, <1>3, <2>1 DEF Filled
      <3> QED BY <1>2, <1>8, <3>1 DEF ArrayInv
    <2> QED BY <2>1
  <1>10. /\ mLocAdapters' \in [1..MAX_ADAPTERS -> Adapters \cup {NoAdapter}]
         /\ mLocAdapters'[n] = NoAdapter
         /\ j # n => mLocAdapters'[j] = mLocAdapters[n]
         /\ \A k \in 1..MAX_ADAPTERS : k \notin {j, n} => mLocAdapters'[k] = mLocAdapters[k]
    BY <1>7 DEF ArrayInv
  <1>11. PICK p : p = n - 1
    OBVIOUS
  <1>12. /\ p \in 1..MAX_ADAPTERS
         /\ \A k \in 1..MAX_ADAPTERS : k <= p <=> k <= n /\ k # n
         /\ \A k \in 1..p : k \in 1..n /\ k # n /\ k \in 1..MAX_ADAPTERS
         /\ \A k \in 1..n : k # n => k \in 1..p
         /\ n \in 1..n
    BY <1>9, <1>11
  <1>13. \A k \in 1..MAX_ADAPTERS : mLocAdapters'[k] # NoAdapter <=> k <= p
    BY <1>1, <1>3, <1>10, <1>12 DEF Filled
  <1>14. \A k \in 1..p : mLocAdapters'[k] = IF k = j THEN mLocAdapters[n] ELSE mLocAdapters[k]
    BY <1>10, <1>12
  <1>15. \A k, l \in 1..p : mLocAdapters'[k] = mLocAdapters'[l] => k = l
    BY <1>1, <1>12, <1>14 DEF Filled
  <1>16. registered' = {mLocAdapters'[k] : k \in 1..p}
    <2>1. ASSUME NEW x \in registered'
          PROVE  \E k \in 1..p : x = mLocAdapters'[k]
      <3>1. PICK k \in 1..n : x = mLocAdapters[k] /\ k # j
        BY <1>1, <1>2, <1>8, <2>1 DEF Filled
      <3>2. CASE k = n
        BY <1>3, <1>12, <1>14, <3>1, <3>2
      <3>3. CASE k # n
        BY <1>12, <1>14, <3>1, <3>3
      <3> QED BY <3>2, <3>3
    <2>2. ASSUME NEW k \in 1..p
          PROVE  mLocAdapters'[k] \in registered'
      <3>1. \E l \in 1..n : mLocAdapters'[k] = mLocAdapters[l] /\ l # j
        <4>1. CASE k = j
          BY <1>12, <1>14, <4>1
        <4>2. CASE k # j
          BY <1>12, <1>14, <4>2
        <4> QED BY <4>1, <4>2
      <3>2. PICK l \in 1..n : mLocAdapters'[k] = mLocAdapters[l] /\ l # j
        BY <3>1
      <3>3. mLocAdapters[l] \in registered /\ mLocAdapters[l] # a
        BY <1>1, <1>2, <1>3, <3>2 DEF Filled
      <3> QED BY <1>8, <3>2, <3>3
    <2> QED BY <2>1, <2>2
  <1>17. Filled(p)'
    BY <1>13, <1>15, <1>16 DEF Filled
  <1> QED BY <1>8, <1>10, <1>12, <1>17 DEF ArrayInv

-----------------------------------------------------------------------------
(* The masks.  Reopening: the engine has the adapters' mask unless it is   *)
(* down or a message that opens it waits.  The NMEA mask: until the first  *)
(* MsgSetConfig is handled there are no clients, because it was posted     *)
(* before any of them could be, so no client's event depends on a mask     *)
(* that is not yet the configured one.                                     *)
Reopens(m) == m.type \in {"open", "ssr"}
NoReopen(q) == \A k \in DOMAIN q : ~Reopens(q[k])

ConfigFirst(q) ==
  \E k \in DOMAIN q : q[k].type = "setConfig" /\ \A j \in 1..(k - 1) : q[j].type # "addClient"

AskedFor == (UNION {mEvtMask[a] : a \in registered}) \ mExcludedMask

ServerEvents == IF cbPriority > 0 THEN {"server"} ELSE {}
WifiEvents == IF odcpiCb THEN {"wifi"} ELSE {}

MaskTypes ==
  /\ mEvtMask \in [Adapters -> SUBSET Events]
  /\ DOMAIN mClientData \subseteq MaskClients
  /\ \A c \in DOMAIN mClientData : mClientData[c] \subseteq Callbacks
  /\ {mNmeaMask, odcpiCb, engineUp} \subseteq BOOLEAN /\ cbPriority \in 0..MaxPriority
  /\ engineMask \subseteq Events
  /\ maskQ \in Seq(MaskMsg)

NmeaInv ==
  mNmeaMask # NmeaFromModem => DOMAIN mClientData = {} /\ ConfigFirst(maskQ)

GnssMaskInv ==
  mEvtMask[Gnss] = ClientEvents(mClientData) \cup (AutomotiveEvents \cap mEvtMask[Gnss])
                     \cup ServerEvents \cup WifiEvents

EngineMaskInv == engineUp /\ NoReopen(maskQ) => engineMask = AskedFor

MaskInv == ArrayInv /\ MaskTypes /\ NmeaInv /\ GnssMaskInv /\ EngineMaskInv

LEMMA QueueAppends ==
  ASSUME NEW q \in Seq(MaskMsg), NEW m \in MaskMsg
  PROVE  /\ Append(q, m) \in Seq(MaskMsg)
         /\ NoReopen(Append(q, m)) <=> NoReopen(q) /\ ~Reopens(m)
         /\ ConfigFirst(q) => ConfigFirst(Append(q, m))
  <1>1. IsSeq(q)
    BY DEF IsSeq
  <1>2. PICK r : r = Append(q, m)
    OBVIOUS
  <1>3. /\ Len(q) \in Nat /\ DOMAIN q = 1..Len(q) /\ DOMAIN r = 1..(Len(q) + 1)
        /\ \A i \in 1..Len(q) : r[i] = q[i]
        /\ r[Len(q) + 1] = m
    BY <1>1, <1>2, MixedAppend
  <1>4. r \in Seq(MaskMsg)
    BY <1>2
  <1>5. NoReopen(r) <=> NoReopen(q) /\ ~Reopens(m)
    BY <1>3 DEF NoReopen
  <1>6. ASSUME ConfigFirst(q)
        PROVE  ConfigFirst(r)
    <2>1. PICK k \in DOMAIN q :
            q[k].type = "setConfig" /\ \A j \in 1..(k - 1) : q[j].type # "addClient"
      BY <1>6 DEF ConfigFirst
    <2>2. k \in DOMAIN r /\ \A j \in 1..(k - 1) : j \in 1..Len(q)
      BY <1>3
    <2> QED BY <1>3, <2>1, <2>2 DEF ConfigFirst
  <1> QED BY <1>2, <1>4, <1>5, <1>6

LEMMA QueueHandles ==
  ASSUME NEW q \in Seq(MaskMsg), q # <<>>
  PROVE  /\ Head(q) \in MaskMsg /\ Tail(q) \in Seq(MaskMsg)
         /\ NoReopen(Tail(q)) /\ ~Reopens(Head(q)) => NoReopen(q)
         /\ ConfigFirst(q) /\ Head(q).type # "setConfig" =>
              ConfigFirst(Tail(q)) /\ Head(q).type # "addClient"
  <1>1. IsSeq(q)
    BY DEF IsSeq
  <1>2. PICK r : r = Tail(q)
    OBVIOUS
  <1>3. /\ Len(q) \in Nat \ {0} /\ DOMAIN q = 1..Len(q) /\ DOMAIN r = 1..(Len(q) - 1)
        /\ \A i \in 1..(Len(q) - 1) : r[i] = q[i + 1]
        /\ Head(q) = q[1]
    BY <1>1, <1>2, MixedTail
  <1>4. Head(q) \in MaskMsg /\ r \in Seq(MaskMsg)
    BY <1>2
  <1>5. ASSUME NoReopen(r), ~Reopens(Head(q))
        PROVE  NoReopen(q)
    <2>1. ASSUME NEW k \in DOMAIN q
          PROVE  ~Reopens(q[k])
      <3>1. CASE k = 1
        BY <1>3, <1>5, <3>1
      <3>2. CASE k # 1
        <4>1. PICK j \in DOMAIN r : j = k - 1 /\ r[j] = q[k]
          BY <1>3, <3>2
        <4> QED BY <1>5, <4>1 DEF NoReopen
      <3> QED BY <3>1, <3>2
    <2> QED BY <2>1 DEF NoReopen
  <1>6. ASSUME ConfigFirst(q), Head(q).type # "setConfig"
        PROVE  ConfigFirst(r) /\ Head(q).type # "addClient"
    <2>1. PICK k \in DOMAIN q :
            q[k].type = "setConfig" /\ \A j \in 1..(k - 1) : q[j].type # "addClient"
      BY <1>6 DEF ConfigFirst
    <2>2. k # 1
      BY <1>3, <1>6, <2>1
    <2>3. 1 \in 1..(k - 1)
      BY <1>3, <2>1, <2>2
    <2>4. Head(q).type # "addClient"
      BY <1>3, <2>1, <2>3
    <2>5. PICK p \in DOMAIN r : p = k - 1 /\ r[p] = q[k]
      BY <1>3, <2>2
    <2>6. \A j \in 1..(p - 1) : j \in 1..(Len(q) - 1) /\ j + 1 \in 1..(k - 1)
      BY <1>3, <2>5
    <2>7. \A j \in 1..(p - 1) : r[j].type # "addClient"
      BY <1>3, <2>1, <2>6
    <2> QED BY <2>1, <2>4, <2>5, <2>7 DEF ConfigFirst
  <1> QED BY <1>2, <1>4, <1>5, <1>6

LEMMA EventsOfClients ==
  ASSUME NEW data, \A c \in DOMAIN data : data[c] \subseteq Callbacks
  PROVE  /\ ClientEvents(data) \subseteq Events
         /\ DOMAIN data = {} => ClientEvents(data) = {}
  <1>1. \A cb \in Callbacks : EventOf(cb) \in Events
    BY DEF Callbacks, EventOf, Events
  <1>2. UNION {data[c] : c \in DOMAIN data} \subseteq Callbacks
    OBVIOUS
  <1> QED BY <1>1, <1>2 DEF ClientEvents

(* A message is posted; nothing else changes.                              *)
LEMMA MaskPosted ==
  ASSUME MaskInv, NEW m \in MaskMsg, maskQ' = Append(maskQ, m),
         UNCHANGED <<mLocAdapters, registered, mEvtMask, gnssVars, engineUp, engineMask>>
  PROVE  MaskInv'
  <1>1. /\ maskQ' \in Seq(MaskMsg)
        /\ NoReopen(maskQ') => NoReopen(maskQ)
        /\ ConfigFirst(maskQ) => ConfigFirst(maskQ')
    BY QueueAppends DEF MaskInv, MaskTypes
  <1>2. ArrayInv' /\ MaskTypes'
    BY <1>1 DEF MaskInv, ArrayInv, Filled, MaskTypes, gnssVars
  <1>3. NmeaInv'
    BY <1>1 DEF MaskInv, NmeaInv, ConfigFirst, gnssVars
  <1>4. GnssMaskInv'
    BY DEF MaskInv, GnssMaskInv, ClientEvents, ServerEvents, WifiEvents, gnssVars
  <1>5. EngineMaskInv'
    BY <1>1 DEF MaskInv, EngineMaskInv, AskedFor, NoReopen
  <1> QED BY <1>2, <1>3, <1>4, <1>5 DEF MaskInv

(* updateEvtMask: GnssAdapter's mask changes and the engine follows.       *)
LEMMA MaskUpdated ==
  ASSUME ArrayInv, MaskTypes, NEW mask \in SUBSET Events, updateEvtMask(mask),
         UNCHANGED <<registered, engineUp>>
  PROVE  /\ mEvtMask' \in [Adapters -> SUBSET Events] /\ mEvtMask'[Gnss] = mask
         /\ engineMask' \subseteq Events
         /\ engineUp => engineMask' = AskedFor'
  <1> USE MaskAssumption
  <1>1. mEvtMask' = [mEvtMask EXCEPT ![Gnss] = mask]
    BY DEF updateEvtMask
  <1>2. mEvtMask' \in [Adapters -> SUBSET Events] /\ mEvtMask'[Gnss] = mask
    BY <1>1 DEF MaskTypes
  <1>3. engineMask' = IF engineUp THEN (UNION {mEvtMask'[a] : a \in registered}) \ mExcludedMask
                                  ELSE engineMask
    BY ReachedAreRegistered DEF updateEvtMask, open
  <1>4. UNION {mEvtMask'[a] : a \in registered} \subseteq Events
    BY <1>2 DEF ArrayInv
  <1>5. engineMask' \subseteq Events
    BY <1>3, <1>4 DEF MaskTypes
  <1>6. engineUp => engineMask' = AskedFor'
    BY <1>3 DEF AskedFor
  <1> QED BY <1>2, <1>5, <1>6

LEMMA HandledFacts ==
  ASSUME MaskInv, NEW type, MaskHandles(type)
  PROVE  /\ Head(maskQ) \in MaskMsg /\ Head(maskQ).type = type /\ maskQ' \in Seq(MaskMsg)
         /\ NoReopen(maskQ') /\ ~Reopens(Head(maskQ)) => NoReopen(maskQ)
         /\ ConfigFirst(maskQ) /\ type # "setConfig" => ConfigFirst(maskQ') /\ type # "addClient"
         /\ UNCHANGED <<mLocAdapters, registered, engineUp>> /\ ArrayInv'
  <1>1. maskQ # <<>> /\ Head(maskQ).type = type /\ maskQ' = Tail(maskQ)
    BY DEF MaskHandles
  <1>2. ArrayInv'
    BY DEF MaskHandles, MaskInv, ArrayInv, Filled
  <1> QED BY <1>1, <1>2, QueueHandles DEF MaskHandles, MaskInv, MaskTypes

LEMMA OpenStep ==
  ASSUME MaskInv, LocOpenOrSsrMsg
  PROVE  MaskInv'
  <1>1. PICK type \in {"open", "ssr"} : MaskHandles(type)
    BY DEF LocOpenOrSsrMsg
  <1>2. open(getEvtMask) /\ UNCHANGED <<mEvtMask, gnssVars>>
    BY DEF LocOpenOrSsrMsg
  <1>3. engineMask' = IF engineUp THEN AskedFor ELSE engineMask
    BY <1>2, ReachedAreRegistered DEF open, getEvtMask, AskedFor, MaskInv
  <1>4. AskedFor \subseteq Events
    BY DEF AskedFor, MaskInv, MaskTypes, ArrayInv
  <1>5. MaskTypes'
    BY <1>1, <1>2, <1>3, <1>4, HandledFacts DEF MaskInv, MaskTypes, gnssVars
  <1>6. NmeaInv'
    BY <1>1, <1>2, HandledFacts DEF MaskInv, NmeaInv, ConfigFirst, gnssVars
  <1>7. GnssMaskInv'
    BY <1>2 DEF MaskInv, GnssMaskInv, ClientEvents, ServerEvents, WifiEvents, gnssVars
  <1>8. EngineMaskInv'
    BY <1>1, <1>2, <1>3, HandledFacts DEF EngineMaskInv, AskedFor
  <1> QED BY <1>1, <1>5, <1>6, <1>7, <1>8, HandledFacts DEF MaskInv

LEMMA SetConfigStep ==
  ASSUME MaskInv, MsgSetConfig
  PROVE  MaskInv'
  <1>1. /\ MaskHandles("setConfig") /\ mNmeaMask' = NmeaFromModem
        /\ UNCHANGED <<mEvtMask, mClientData, cbPriority, odcpiCb, engineMask>>
    BY DEF MsgSetConfig
  <1>2. MaskTypes'
    BY <1>1, HandledFacts, MaskAssumption DEF MaskInv, MaskTypes
  <1>3. GnssMaskInv'
    <2>1. ClientEvents(mClientData)' = ClientEvents(mClientData)
      <3>1. CASE mNmeaMask = NmeaFromModem
        BY <1>1, <3>1 DEF ClientEvents
      <3>2. CASE mNmeaMask # NmeaFromModem
        BY <1>1, <3>2 DEF MaskInv, NmeaInv, ClientEvents
      <3> QED BY <3>1, <3>2
    <2> QED BY <1>1, <2>1 DEF MaskInv, GnssMaskInv, ServerEvents, WifiEvents
  <1>4. EngineMaskInv'
    <2>1. ~Reopens(Head(maskQ))
      BY <1>1, HandledFacts DEF Reopens
    <2> QED BY <1>1, <2>1, HandledFacts DEF MaskInv, EngineMaskInv, AskedFor, NoReopen
  <1>5. NmeaInv'
    BY <1>1 DEF NmeaInv
  <1> QED BY <1>1, <1>2, <1>3, <1>4, <1>5, HandledFacts DEF MaskInv

(* The clients' table changes and GnssAdapter's mask with it.              *)
LEMMA ClientsMaskUpdated ==
  ASSUME MaskInv, NEW type \in {"addClient", "removeClient"}, MaskHandles(type),
         NEW data, mClientData' = data, DOMAIN data \subseteq MaskClients,
         \A c \in DOMAIN data : data[c] \subseteq Callbacks,
         type = "removeClient" => DOMAIN data \subseteq DOMAIN mClientData,
         updateClientsEventMask(data), UNCHANGED <<mNmeaMask, cbPriority, odcpiCb>>
  PROVE  MaskInv'
  <1>1. PICK mask : mask = ClientEvents(data) \cup AutomotiveEvents \cup ServerEvents \cup WifiEvents
    OBVIOUS
  <1>2. updateEvtMask(mask)
    BY <1>1 DEF updateClientsEventMask, ServerEvents, WifiEvents
  <1>3. mask \in SUBSET Events
    BY <1>1, EventsOfClients DEF AutomotiveEvents, ServerEvents, WifiEvents, Events
  <1>4. /\ mEvtMask' \in [Adapters -> SUBSET Events] /\ mEvtMask'[Gnss] = mask
        /\ engineMask' \subseteq Events
        /\ engineUp => engineMask' = AskedFor'
    BY <1>2, <1>3, MaskUpdated, HandledFacts DEF MaskInv
  <1>5. MaskTypes'
    BY <1>4, HandledFacts DEF MaskInv, MaskTypes
  <1>6. NmeaInv'
    <2>1. DOMAIN mClientData = {} /\ type = "removeClient" => DOMAIN data = {}
      OBVIOUS
    <2>2. ConfigFirst(maskQ) => type = "removeClient" /\ ConfigFirst(maskQ')
      BY HandledFacts
    <2> QED BY <2>1, <2>2 DEF MaskInv, NmeaInv, ConfigFirst
  <1>7. GnssMaskInv'
    <2>1. /\ ClientEvents(mClientData)' = ClientEvents(data)
          /\ ServerEvents' = ServerEvents /\ WifiEvents' = WifiEvents
      BY DEF ClientEvents, ServerEvents, WifiEvents
    <2> QED BY <1>1, <1>4, <2>1 DEF GnssMaskInv
  <1>8. EngineMaskInv'
    BY <1>4, HandledFacts DEF EngineMaskInv
  <1> QED BY <1>5, <1>6, <1>7, <1>8, HandledFacts DEF MaskInv

LEMMA ClientSteps ==
  ASSUME MaskInv, saveClient \/ eraseClient
  PROVE  MaskInv'
  <1>1. CASE saveClient
    <2>1. PICK m : m = Head(maskQ)
      OBVIOUS
    <2>2. MaskHandles("addClient") /\ UNCHANGED <<mNmeaMask, cbPriority, odcpiCb>>
      BY <1>1 DEF saveClient
    <2>3. m \in MaskMsg /\ m.type = "addClient"
      BY <2>1, <2>2, HandledFacts
    <2>4. m.client \in MaskClients /\ m.cbs \subseteq Callbacks
      BY <2>3 DEF MaskMsg
    <2>5. PICK data : data = [c \in DOMAIN mClientData \cup {m.client} |->
                                IF c = m.client THEN m.cbs ELSE mClientData[c]]
      OBVIOUS
    <2>6. mClientData' = data
      BY <1>1, <2>1, <2>5 DEF saveClient
    <2>7. DOMAIN data \subseteq MaskClients /\ \A c \in DOMAIN data : data[c] \subseteq Callbacks
      BY <2>4, <2>5 DEF MaskInv, MaskTypes
    <2>8. updateClientsEventMask(data)
      BY <1>1, <2>6 DEF saveClient
    <2> QED BY <2>2, <2>6, <2>7, <2>8, ClientsMaskUpdated
  <1>2. CASE eraseClient
    <2>1. PICK data : data = [c \in DOMAIN mClientData \ {Head(maskQ).client} |-> mClientData[c]]
      OBVIOUS
    <2>2. /\ MaskHandles("removeClient") /\ mClientData' = data
          /\ UNCHANGED <<mNmeaMask, cbPriority, odcpiCb>>
      BY <1>2, <2>1 DEF eraseClient
    <2>3. /\ DOMAIN data \subseteq MaskClients /\ DOMAIN data \subseteq DOMAIN mClientData
          /\ \A c \in DOMAIN data : data[c] \subseteq Callbacks
      BY <2>1 DEF MaskInv, MaskTypes
    <2>4. updateClientsEventMask(data)
      BY <1>2, <2>2 DEF eraseClient
    <2> QED BY <2>2, <2>3, <2>4, ClientsMaskUpdated
  <1> QED BY <1>1, <1>2

(* AGPS and ODCPI add an event to the mask when they are registered.       *)
LEMMA EventAdded ==
  ASSUME MaskInv, NEW type \in {"initAgps", "initOdcpi"}, MaskHandles(type),
         NEW added \in SUBSET Events, updateEvtMask(mEvtMask[Gnss] \cup added),
         UNCHANGED <<mClientData, mNmeaMask>>,
         cbPriority' \in 0..MaxPriority, odcpiCb' \in BOOLEAN,
         ServerEvents' \cup WifiEvents' = ServerEvents \cup WifiEvents \cup added
  PROVE  MaskInv'
  <1>1. PICK mask : mask = mEvtMask[Gnss] \cup added
    OBVIOUS
  <1>2. mask \in SUBSET Events
    BY <1>1, MaskAssumption DEF MaskInv, MaskTypes
  <1>3. /\ mEvtMask' \in [Adapters -> SUBSET Events] /\ mEvtMask'[Gnss] = mask
        /\ engineMask' \subseteq Events
        /\ engineUp => engineMask' = AskedFor'
    BY <1>1, <1>2, MaskUpdated, HandledFacts DEF MaskInv
  <1>4. MaskTypes'
    BY <1>3, HandledFacts DEF MaskInv, MaskTypes
  <1>5. NmeaInv'
    BY HandledFacts DEF MaskInv, NmeaInv, ConfigFirst
  <1>6. GnssMaskInv'
    <2>1. ClientEvents(mClientData)' = ClientEvents(mClientData)
      BY DEF ClientEvents
    <2>2. mEvtMask[Gnss] = ClientEvents(mClientData) \cup (AutomotiveEvents \cap mEvtMask[Gnss])
                             \cup ServerEvents \cup WifiEvents
      BY DEF MaskInv, GnssMaskInv
    <2>3. mask = ClientEvents(mClientData) \cup (AutomotiveEvents \cap mask)
                   \cup (ServerEvents' \cup WifiEvents')
      BY <1>1, <2>2
    <2>4. mEvtMask'[Gnss] = ClientEvents(mClientData)' \cup (AutomotiveEvents \cap mEvtMask'[Gnss])
                              \cup (ServerEvents' \cup WifiEvents')
      BY <1>3, <2>1, <2>3
    <2> QED BY <2>4 DEF GnssMaskInv
  <1>7. EngineMaskInv'
    BY <1>3, HandledFacts DEF EngineMaskInv
  <1> QED BY <1>4, <1>5, <1>6, <1>7, HandledFacts DEF MaskInv

LEMMA InitSteps ==
  ASSUME MaskInv, initAgps \/ MaskInitOdcpi
  PROVE  MaskInv'
  <1>1. CASE initAgps
    <2>1. PICK p : p = Head(maskQ).priority
      OBVIOUS
    <2>2. MaskHandles("initAgps") /\ UNCHANGED <<mClientData, mNmeaMask, odcpiCb>>
      BY <1>1 DEF initAgps
    <2>3. p \in 1..MaxPriority
      BY <2>1, <2>2, HandledFacts DEF MaskMsg
    <2>4. CASE AgpsCapable /\ cbPriority <= p
      <3>1. cbPriority' = p /\ updateEvtMask(mEvtMask[Gnss] \cup {"server"})
        BY <1>1, <2>1, <2>4 DEF initAgps
      <3>2. cbPriority' \in 0..MaxPriority /\ cbPriority' > 0 /\ odcpiCb' \in BOOLEAN
        BY <2>2, <2>3, <3>1, MaskAssumption DEF MaskInv, MaskTypes
      <3>3. ServerEvents' = {"server"} /\ WifiEvents' = WifiEvents
        BY <2>2, <3>2 DEF ServerEvents, WifiEvents
      <3>4. ServerEvents \subseteq {"server"}
        BY DEF ServerEvents
      <3>5. ServerEvents' \cup WifiEvents' = ServerEvents \cup WifiEvents \cup {"server"}
        BY <3>3, <3>4
      <3> QED BY <2>2, <3>1, <3>2, <3>5, EventAdded DEF Events
    <2>5. CASE ~(AgpsCapable /\ cbPriority <= p)
      <3>1. UNCHANGED <<cbPriority, mEvtMask, engineMask>>
        BY <1>1, <2>1, <2>5 DEF initAgps
      <3>2. MaskTypes'
        BY <2>2, <3>1, HandledFacts DEF MaskInv, MaskTypes
      <3>3. NmeaInv'
        BY <2>2, <3>1, HandledFacts DEF MaskInv, NmeaInv, ConfigFirst
      <3>4. GnssMaskInv'
        BY <2>2, <3>1 DEF MaskInv, GnssMaskInv, ClientEvents, ServerEvents, WifiEvents
      <3>5. EngineMaskInv'
        <4>1. ~Reopens(Head(maskQ))
          BY <2>2, HandledFacts DEF Reopens
        <4> QED BY <2>2, <3>1, <4>1, HandledFacts DEF MaskInv, EngineMaskInv, AskedFor, NoReopen
      <3> QED BY <2>2, <3>2, <3>3, <3>4, <3>5, HandledFacts DEF MaskInv
    <2> QED BY <2>4, <2>5
  <1>2. CASE MaskInitOdcpi
    <2>1. /\ MaskHandles("initOdcpi") /\ odcpiCb' = TRUE
          /\ updateEvtMask(mEvtMask[Gnss] \cup {"wifi"})
          /\ UNCHANGED <<mClientData, mNmeaMask, cbPriority>>
      BY <1>2 DEF MaskInitOdcpi
    <2>2. WifiEvents' = {"wifi"} /\ ServerEvents' = ServerEvents /\ WifiEvents \subseteq {"wifi"}
      BY <2>1 DEF WifiEvents, ServerEvents
    <2>3. ServerEvents' \cup WifiEvents' = ServerEvents \cup WifiEvents \cup {"wifi"}
      BY <2>2
    <2>4. cbPriority' \in 0..MaxPriority /\ odcpiCb' \in BOOLEAN
      BY <2>1 DEF MaskInv, MaskTypes
    <2> QED BY <2>1, <2>3, <2>4, EventAdded DEF Events
  <1> QED BY <1>1, <1>2

(* Adapters come, go and change their masks.                               *)
LEMMA AdapterSteps ==
  ASSUME MaskInv, NEW a \in Adapters, addAdapter(a) \/ removeAdapter(a) \/ OtherAdapterUpdates(a)
  PROVE  MaskInv'
  <1> USE MaskAssumption
  <1>1. ASSUME maskQ' = Append(maskQ, [type |-> "open"]), UNCHANGED <<gnssVars, engineUp, engineMask>>,
               ArrayInv', mEvtMask' \in [Adapters -> SUBSET Events], mEvtMask'[Gnss] = mEvtMask[Gnss]
        PROVE  MaskInv'
    <2>1. PICK m \in MaskMsg : m = [type |-> "open"]
      BY DEF MaskMsg
    <2>2. /\ maskQ' \in Seq(MaskMsg) /\ ~NoReopen(maskQ')
          /\ ConfigFirst(maskQ) => ConfigFirst(maskQ')
      BY <1>1, <2>1, QueueAppends DEF MaskInv, MaskTypes, Reopens
    <2>3. MaskTypes'
      BY <1>1, <2>2 DEF MaskInv, MaskTypes, gnssVars
    <2>4. NmeaInv'
      BY <1>1, <2>2 DEF MaskInv, NmeaInv, ConfigFirst, gnssVars
    <2>5. GnssMaskInv'
      BY <1>1 DEF MaskInv, GnssMaskInv, ClientEvents, ServerEvents, WifiEvents, gnssVars
    <2>6. EngineMaskInv'
      BY <2>2 DEF EngineMaskInv, NoReopen
    <2> QED BY <1>1, <2>3, <2>4, <2>5, <2>6 DEF MaskInv
  <1>2. CASE addAdapter(a)
    <2>1. /\ a # Gnss /\ mEvtMask' = [mEvtMask EXCEPT ![a] = {"position"}]
          /\ maskQ' = Append(maskQ, [type |-> "open"]) /\ UNCHANGED <<gnssVars, engineUp, engineMask>>
      BY <1>2 DEF addAdapter, MaskInv, ArrayInv
    <2>2. mEvtMask' \in [Adapters -> SUBSET Events] /\ mEvtMask'[Gnss] = mEvtMask[Gnss]
      BY <2>1 DEF MaskInv, MaskTypes, Events
    <2> QED BY <1>1, <1>2, <2>1, <2>2, AdapterAdded DEF MaskInv
  <1>3. CASE removeAdapter(a)
    <2>1. /\ maskQ' = Append(maskQ, [type |-> "open"])
          /\ UNCHANGED <<mEvtMask, gnssVars, engineUp, engineMask>>
      BY <1>3 DEF removeAdapter
    <2> QED BY <1>1, <1>3, <2>1, AdapterRemoved DEF MaskInv, MaskTypes
  <1>4. CASE OtherAdapterUpdates(a)
    <2>1. /\ a # Gnss /\ mEvtMask' = [mEvtMask EXCEPT ![a] = {"position", "wifi"}]
          /\ open((UNION {mEvtMask'[b] : b \in Reached}) \ mExcludedMask)
          /\ UNCHANGED <<mLocAdapters, registered, gnssVars, engineUp, maskQ>>
      BY <1>4 DEF OtherAdapterUpdates
    <2>2. mEvtMask' \in [Adapters -> SUBSET Events] /\ mEvtMask'[Gnss] = mEvtMask[Gnss]
      BY <2>1 DEF MaskInv, MaskTypes, Events
    <2>3. engineMask' = IF engineUp THEN AskedFor' ELSE engineMask
      BY <2>1, ReachedAreRegistered DEF open, AskedFor, MaskInv
    <2>4. AskedFor' \subseteq Events
      BY <2>1, <2>2 DEF AskedFor, MaskInv, ArrayInv
    <2>5. MaskTypes'
      BY <2>1, <2>2, <2>3, <2>4 DEF MaskInv, MaskTypes, gnssVars
    <2>6. NmeaInv'
      BY <2>1 DEF MaskInv, NmeaInv, ConfigFirst, gnssVars
    <2>7. GnssMaskInv'
      BY <2>1, <2>2 DEF MaskInv, GnssMaskInv, ClientEvents, ServerEvents, WifiEvents, gnssVars
    <2>8. EngineMaskInv'
      BY <2>1, <2>3 DEF EngineMaskInv
    <2>9. ArrayInv'
      BY <2>1 DEF MaskInv, ArrayInv, Filled
    <2> QED BY <2>5, <2>6, <2>7, <2>8, <2>9 DEF MaskInv
  <1> QED BY <1>2, <1>3, <1>4

LEMMA EngineSteps ==
  ASSUME MaskInv, EngineDown \/ handleEngineUpEvent
  PROVE  MaskInv'
  <1>1. CASE EngineDown
    <2>1. /\ engineUp' = FALSE /\ engineMask' = {}
          /\ UNCHANGED <<mLocAdapters, registered, mEvtMask, gnssVars, maskQ>>
      BY <1>1 DEF EngineDown
    <2>2. ArrayInv'
      BY <2>1 DEF MaskInv, ArrayInv, Filled
    <2>3. MaskTypes'
      BY <2>1 DEF MaskInv, MaskTypes, gnssVars
    <2>4. EngineMaskInv'
      BY <2>1 DEF EngineMaskInv
    <2>5. NmeaInv'
      BY <2>1 DEF MaskInv, NmeaInv, ConfigFirst, gnssVars
    <2>6. GnssMaskInv'
      BY <2>1 DEF MaskInv, GnssMaskInv, ClientEvents, ServerEvents, WifiEvents, gnssVars
    <2> QED BY <2>2, <2>3, <2>4, <2>5, <2>6 DEF MaskInv
  <1>2. CASE handleEngineUpEvent
    <2>1. PICK ssr \in MaskMsg, conf \in MaskMsg :
            ssr = [type |-> "ssr"] /\ conf = [type |-> "setConfig"]
      BY DEF MaskMsg
    <2>2. /\ engineUp' = TRUE
          /\ maskQ' = maskQ \o <<ssr>> \o
                        (IF Gnss \in Receivers("engineUp") THEN <<conf>> ELSE <<>>)
          /\ UNCHANGED <<mLocAdapters, registered, mEvtMask, gnssVars, engineMask>>
      BY <1>2, <2>1 DEF handleEngineUpEvent
    <2>3. maskQ \in Seq(MaskMsg) /\ Gnss \in Receivers("engineUp")
      BY ReachedAreRegistered DEF MaskInv, MaskTypes, ArrayInv, Receivers, ToAll
    <2>4. PICK q \in Seq(MaskMsg) : q = Append(maskQ, ssr)
      BY <2>3, QueueAppends
    <2>5. maskQ' = Append(q, conf)
      <3>1. maskQ' = maskQ \o <<ssr>> \o <<conf>>
        BY <2>2, <2>3
      <3>2. maskQ \o <<ssr>> = q
        BY <2>3, <2>4
      <3>3. q \o <<conf>> = Append(q, conf)
        BY <2>4
      <3> QED BY <3>1, <3>2, <3>3
    <2>6. /\ maskQ' \in Seq(MaskMsg) /\ ~NoReopen(maskQ')
          /\ ConfigFirst(maskQ) => ConfigFirst(maskQ')
      BY <2>1, <2>3, <2>4, <2>5, QueueAppends DEF Reopens
    <2>7. ArrayInv'
      <3>1. UNCHANGED <<mLocAdapters, registered>>
        BY <2>2
      <3> QED BY <3>1 DEF MaskInv, ArrayInv, Filled
    <2>8. MaskTypes'
      BY <2>2, <2>6 DEF MaskInv, MaskTypes, gnssVars
    <2>9. EngineMaskInv'
      BY <2>6 DEF EngineMaskInv, NoReopen
    <2>10. NmeaInv'
      BY <2>2, <2>6 DEF MaskInv, NmeaInv, ConfigFirst, gnssVars
    <2>11. GnssMaskInv'
      BY <2>2 DEF MaskInv, GnssMaskInv, ClientEvents, ServerEvents, WifiEvents, gnssVars
    <2> QED BY <2>7, <2>8, <2>9, <2>10, <2>11 DEF MaskInv
  <1> QED BY <1>1, <1>2

LEMMA CommandsPosted ==
  ASSUME MaskInv, addClientCommand \/ removeClientCommand \/ initCommands
  PROVE  MaskInv'
  <1>1. ASSUME NEW m \in MaskMsg, MaskPost(m)
        PROVE  MaskInv'
    BY <1>1, MaskPosted DEF MaskPost
  <1>2. CASE addClientCommand
    <2>1. PICK c \in MaskClients, cbs \in CallbackSets :
            MaskPost([type |-> "addClient", client |-> c, cbs |-> cbs])
      BY <1>2 DEF addClientCommand
    <2>2. PICK m \in MaskMsg : m = [type |-> "addClient", client |-> c, cbs |-> cbs]
      BY MaskAssumption DEF MaskMsg
    <2> QED BY <1>1, <2>1, <2>2
  <1>3. CASE removeClientCommand
    <2>1. PICK c \in MaskClients : MaskPost([type |-> "removeClient", client |-> c])
      BY <1>3 DEF removeClientCommand
    <2>2. PICK m \in MaskMsg : m = [type |-> "removeClient", client |-> c]
      BY DEF MaskMsg
    <2> QED BY <1>1, <2>1, <2>2
  <1>4. ASSUME NEW p \in 1..MaxPriority, MaskPost([type |-> "initAgps", priority |-> p])
        PROVE  MaskInv'
    <2>1. PICK m \in MaskMsg : m = [type |-> "initAgps", priority |-> p]
      BY DEF MaskMsg
    <2> QED BY <1>1, <1>4, <2>1
  <1>5. ASSUME MaskPost([type |-> "initOdcpi"])
        PROVE  MaskInv'
    <2>1. PICK m \in MaskMsg : m = [type |-> "initOdcpi"]
      BY DEF MaskMsg
    <2> QED BY <1>1, <1>5, <2>1
  <1> QED BY <1>2, <1>3, <1>4, <1>5 DEF initCommands

LEMMA MaskStart ==
  ASSUME MaskInit
  PROVE  MaskInv
  <1> USE MaskAssumption
  <1>1. ArrayInv
    <2>1. \A i \in 1..MAX_ADAPTERS : mLocAdapters[i] = IF i = 1 THEN Gnss ELSE NoAdapter
      BY DEF MaskInit
    <2>2. 1 \in 1..MAX_ADAPTERS /\ 1..1 = {1} /\ \A i \in 1..MAX_ADAPTERS : i <= 1 <=> i = 1
      OBVIOUS
    <2>3. Filled(1)
      BY <2>1, <2>2 DEF MaskInit, Filled
    <2>4. mLocAdapters \in [1..MAX_ADAPTERS -> Adapters \cup {NoAdapter}]
      BY DEF MaskInit
    <2> QED BY <2>2, <2>3, <2>4 DEF MaskInit, ArrayInv
  <1>2. DOMAIN mClientData = {} /\ 0 \in 0..MaxPriority
    BY DEF MaskInit
  <1>3. PICK m1 \in MaskMsg, m2 \in MaskMsg :
          m1 = [type |-> "open"] /\ m2 = [type |-> "setConfig"]
    BY DEF MaskMsg
  <1>4. /\ maskQ = <<m1, m2>> /\ maskQ \in Seq(MaskMsg) /\ Len(maskQ) = 2 /\ DOMAIN maskQ = 1..2
        /\ maskQ[1] = m1 /\ maskQ[2] = m2
    BY <1>3 DEF MaskInit
  <1>5. MaskTypes
    BY <1>2, <1>4 DEF MaskInit, MaskTypes
  <1>6. NmeaInv
    <2>1. 2 \in DOMAIN maskQ /\ \A j \in 1..(2 - 1) : j = 1
      BY <1>4
    <2>2. maskQ[2].type = "setConfig" /\ maskQ[1].type # "addClient"
      BY <1>3, <1>4
    <2>3. ConfigFirst(maskQ)
      BY <2>1, <2>2 DEF ConfigFirst
    <2> QED BY <1>2, <2>3 DEF NmeaInv
  <1>7. GnssMaskInv
    <2>1. mEvtMask[Gnss] = {} /\ ServerEvents = {} /\ WifiEvents = {}
      BY DEF MaskInit, ServerEvents, WifiEvents
    <2>2. ClientEvents(mClientData) = {}
      BY <1>2, EventsOfClients
    <2> QED BY <2>1, <2>2 DEF GnssMaskInv
  <1>8. EngineMaskInv
    <2>1. 1 \in DOMAIN maskQ /\ Reopens(maskQ[1])
      BY <1>3, <1>4 DEF Reopens
    <2> QED BY <2>1 DEF EngineMaskInv, NoReopen
  <1> QED BY <1>1, <1>5, <1>6, <1>7, <1>8 DEF MaskInv

LEMMA MaskStep ==
  ASSUME MaskInv, [MaskNext]_maskVars
  PROVE  MaskInv'
  <1>1. CASE UNCHANGED maskVars
    <2>1. ArrayInv' /\ MaskTypes' /\ EngineMaskInv'
      BY <1>1 DEF MaskInv, ArrayInv, Filled, MaskTypes, EngineMaskInv, AskedFor, NoReopen, maskVars
    <2>2. NmeaInv' /\ GnssMaskInv'
      BY <1>1 DEF MaskInv, NmeaInv, ConfigFirst, GnssMaskInv, ClientEvents, ServerEvents, WifiEvents,
                  maskVars
    <2> QED BY <2>1, <2>2 DEF MaskInv
  <1>2. CASE MaskNext
    BY <1>2, OpenStep, SetConfigStep, ClientSteps, InitSteps, AdapterSteps, EngineSteps,
       CommandsPosted DEF MaskNext
  <1> QED BY <1>1, <1>2

LEMMA MaskInvariant == MaskSpec => []MaskInv
  BY MaskStart, MaskStep, PTL DEF MaskSpec

(* The array of adapters, the masks and the queue have their types.        *)
THEOREM MaskTypeCorrect == MaskSpec => []MaskTypeOK
  <1>1. MaskInv => MaskTypeOK
    BY DEF MaskInv, ArrayInv, MaskTypes, MaskTypeOK
  <1> QED BY <1>1, MaskInvariant, PTL

(* LocApiBase's walk of its array up to the first NULL reaches every       *)
(* adapter that is alive and no other, for any number of adapters and any  *)
(* order of constructions and deletions.                                   *)
THEOREM AdaptersAreReached == MaskSpec => []AdaptersReached
  <1>1. MaskInv => AdaptersReached
    <2> SUFFICES ASSUME MaskInv
                 PROVE  AdaptersReached
      OBVIOUS
    <2>1. Reached = registered /\ Gnss \in registered
      BY ReachedAreRegistered DEF MaskInv, ArrayInv
    <2>2. \A r \in GnssHandles : r \notin ToAll
      BY DEF GnssHandles, ToAll
    <2> QED BY <2>1, <2>2 DEF AdaptersReached, Receivers
  <1> QED BY <1>1, MaskInvariant, PTL

(* With nothing left to be handled, a running engine reports exactly the   *)
(* events the clients' callbacks, AGPS, ODCPI and the other adapters need: *)
(* through any restarts of the engine, registrations and removals.         *)
THEOREM EngineAskedExactly == MaskSpec => []EngineMaskExact
  <1>1. MaskInv => EngineMaskExact
    <2> SUFFICES ASSUME MaskInv, engineUp, maskQ = <<>>
                 PROVE  engineMask = ((UNION {mEvtMask[a] : a \in registered \ {Gnss}})
                                        \cup ClientEvents(mClientData)
                                        \cup (AutomotiveEvents \cap mEvtMask[Gnss])
                                        \cup ServerEvents \cup WifiEvents) \ mExcludedMask
      BY DEF EngineMaskExact, ServerEvents, WifiEvents
    <2>1. engineMask = AskedFor
      BY DEF MaskInv, EngineMaskInv, NoReopen
    <2>2. (UNION {mEvtMask[a] : a \in registered}) =
            (UNION {mEvtMask[a] : a \in registered \ {Gnss}}) \cup mEvtMask[Gnss]
      BY DEF MaskInv, ArrayInv
    <2>3. mEvtMask[Gnss] = ClientEvents(mClientData) \cup (AutomotiveEvents \cap mEvtMask[Gnss])
                             \cup ServerEvents \cup WifiEvents
      BY DEF MaskInv, GnssMaskInv
    <2> QED BY <2>1, <2>2, <2>3 DEF AskedFor
  <1> QED BY <1>1, MaskInvariant, PTL

-----------------------------------------------------------------------------
(* The power vote.  Effect is what the adapter's thread makes of its vote  *)
(* when it handles a message; Replays says that the messages of q, handled *)
(* in order from the vote v, leave the vote w.                             *)
Effect(v, m) ==
  CASE m.type = "enable" /\ v = 0 -> m.id
    [] m.type = "disable" /\ v = m.id -> 0
    [] OTHER -> v

Replays(q, v, w) ==
  \E c \in [0..Len(q) -> 0..(IdWrap - 1)] :
    /\ c[0] = v /\ c[Len(q)] = w
    /\ \A k \in 1..Len(q) : c[k] = Effect(c[k - 1], q[k])

(* A vote is a session id or 0, and an enable's message has a session id.  *)
Votes == 0..(IdWrap - 1)
VoteMsg(m) == m.type = "enable" => m.id \in Votes

LEMMA VoteAfter ==
  ASSUME NEW v \in Votes, NEW m, VoteMsg(m)
  PROVE  Effect(v, m) \in Votes
  BY ControlAssumption DEF Effect, VoteMsg, Votes

LEMMA ReplayNothing ==
  ASSUME NEW v, NEW w, Replays(<<>>, v, w)
  PROVE  v = w
  <1>1. Len(<<>>) = 0
    OBVIOUS
  <1> QED BY <1>1 DEF Replays

LEMMA ReplayEnds ==
  ASSUME NEW q, IsSeq(q), NEW v, NEW w, Replays(q, v, w)
  PROVE  v \in Votes /\ w \in Votes
  <1>1. Len(q) \in Nat
    BY MixedAppend
  <1>2. 0 \in 0..Len(q) /\ Len(q) \in 0..Len(q)
    BY <1>1
  <1> QED BY <1>2 DEF Replays, Votes

LEMMA ReplayOneMore ==
  ASSUME NEW q, IsSeq(q), NEW v, NEW w, NEW m, VoteMsg(m), Replays(q, v, w)
  PROVE  IsSeq(Append(q, m)) /\ Replays(Append(q, m), v, Effect(w, m))
  <1>1. PICK r : r = Append(q, m)
    OBVIOUS
  <1>2. /\ Len(q) \in Nat /\ DOMAIN r = 1..(Len(q) + 1) /\ Len(r) = Len(q) + 1 /\ IsSeq(r)
        /\ \A i \in 1..Len(q) : r[i] = q[i]
        /\ r[Len(q) + 1] = m
    BY <1>1, MixedAppend
  <1>3. PICK c \in [0..Len(q) -> Votes] :
          /\ c[0] = v /\ c[Len(q)] = w
          /\ \A k \in 1..Len(q) : c[k] = Effect(c[k - 1], q[k])
    BY DEF Replays, Votes
  <1>4. PICK e \in Votes : e = Effect(w, m)
    BY <1>2, <1>3, VoteAfter
  <1>5. PICK d : d = [k \in 0..(Len(q) + 1) |-> IF k = Len(q) + 1 THEN e ELSE c[k]]
    OBVIOUS
  <1>6. /\ d \in [0..(Len(q) + 1) -> Votes] /\ d[Len(q) + 1] = e
        /\ \A k \in 0..Len(q) : d[k] = c[k]
    BY <1>2, <1>3, <1>5
  <1>7. ASSUME NEW k \in 1..(Len(q) + 1)
        PROVE  d[k] = Effect(d[k - 1], r[k])
    <2>1. CASE k = Len(q) + 1
      <3>1. k - 1 = Len(q) /\ Len(q) \in 0..Len(q)
        BY <1>2, <2>1
      <3> QED BY <1>2, <1>3, <1>4, <1>6, <2>1, <3>1
    <2>2. CASE k # Len(q) + 1
      <3>1. k \in 1..Len(q) /\ k \in 0..Len(q) /\ k - 1 \in 0..Len(q)
        BY <1>2, <2>2
      <3> QED BY <1>2, <1>3, <1>6, <3>1
    <2> QED BY <2>1, <2>2
  <1>8. d[0] = v
    BY <1>2, <1>3, <1>6
  <1> QED BY <1>1, <1>2, <1>4, <1>6, <1>7, <1>8 DEF Replays, Votes

LEMMA ReplayTheRest ==
  ASSUME NEW q, IsSeq(q), q # <<>>, NEW v, NEW w, Replays(q, v, w)
  PROVE  IsSeq(Tail(q)) /\ Replays(Tail(q), Effect(v, Head(q)), w)
  <1>1. PICK r : r = Tail(q)
    OBVIOUS
  <1>2. /\ Len(q) \in Nat \ {0} /\ DOMAIN r = 1..(Len(q) - 1) /\ Len(r) = Len(q) - 1 /\ IsSeq(r)
        /\ \A i \in 1..(Len(q) - 1) : r[i] = q[i + 1]
        /\ Head(q) = q[1]
    BY <1>1, MixedTail
  <1>3. PICK c \in [0..Len(q) -> Votes] :
          /\ c[0] = v /\ c[Len(q)] = w
          /\ \A k \in 1..Len(q) : c[k] = Effect(c[k - 1], q[k])
    BY DEF Replays, Votes
  <1>4. PICK n \in Nat : n = Len(q) - 1
    BY <1>2
  <1>5. PICK d : d = [k \in 0..n |-> c[k + 1]]
    OBVIOUS
  <1>6. d \in [0..n -> Votes] /\ \A k \in 0..n : d[k] = c[k + 1]
    BY <1>2, <1>3, <1>4, <1>5
  <1>7. d[0] = Effect(v, Head(q)) /\ d[n] = w
    <2>1. 0 \in 0..n /\ n \in 0..n /\ 1 \in 1..Len(q) /\ n + 1 = Len(q) /\ 0 + 1 = 1 /\ 1 - 1 = 0
      BY <1>2, <1>4
    <2> QED BY <1>2, <1>3, <1>6, <2>1
  <1>8. ASSUME NEW k \in 1..n
        PROVE  d[k] = Effect(d[k - 1], r[k])
    <2>1. /\ k \in 0..n /\ k - 1 \in 0..n /\ k + 1 \in 1..Len(q) /\ k \in 1..(Len(q) - 1)
          /\ (k - 1) + 1 = k /\ (k + 1) - 1 = k
      BY <1>2, <1>4
    <2>2. d[k] = c[k + 1] /\ d[k - 1] = c[k] /\ r[k] = q[k + 1]
      <3>1. d[k - 1] = c[(k - 1) + 1]
        BY <1>6, <2>1
      <3> QED BY <1>2, <1>6, <2>1, <3>1
    <2>3. c[k + 1] = Effect(c[(k + 1) - 1], q[k + 1])
      BY <1>3, <2>1
    <2> QED BY <2>1, <2>2, <2>3
  <1> QED BY <1>1, <1>2, <1>4, <1>6, <1>7, <1>8 DEF Replays, Votes

LEMMA SessionIdInRange ==
  ASSUME mSessionIdCounter \in 1..(IdWrap - 1), NEW n \in Nat
  PROVE  generateSessionId(n) \in 1..(IdWrap - 1)
  <1>1. PICK x \in Nat, y \in Nat \ {0} : x = mSessionIdCounter + n - 1 /\ y = IdWrap - 1
    BY ControlAssumption
  <1>2. x % y \in 0..(y - 1)
    BY <1>1
  <1> QED BY <1>1, <1>2 DEF generateSessionId

LEMMA NoVotePosted ==
  ASSUME NEW q, IsSeq(q), NEW v, NEW w, Replays(q, v, w), NEW m, m.type \notin {"enable", "disable"}
  PROVE  IsSeq(Append(q, m)) /\ Replays(Append(q, m), v, w)
  <1>1. VoteMsg(m) /\ Effect(w, m) = w
    BY DEF VoteMsg, Effect
  <1> QED BY <1>1, ReplayOneMore

LEMMA EnablePosted ==
  ASSUME NEW q, IsSeq(q), NEW v, Replays(q, v, 0), NEW id \in 1..(IdWrap - 1)
  PROVE  /\ IsSeq(Append(q, [type |-> "enable", id |-> id]))
         /\ Replays(Append(q, [type |-> "enable", id |-> id]), v, id)
  <1>1. PICK m : m = [type |-> "enable", id |-> id]
    OBVIOUS
  <1>2. m.type = "enable" /\ m.id = id /\ id \in Votes
    BY <1>1, ControlAssumption DEF Votes
  <1>3. VoteMsg(m) /\ Effect(0, m) = id
    BY <1>2 DEF VoteMsg, Effect
  <1> QED BY <1>1, <1>3, ReplayOneMore

LEMMA DisablePosted ==
  ASSUME NEW q, IsSeq(q), NEW v, NEW id, Replays(q, v, id)
  PROVE  /\ IsSeq(Append(q, [type |-> "disable", id |-> id]))
         /\ Replays(Append(q, [type |-> "disable", id |-> id]), v, 0)
  <1>1. PICK m : m = [type |-> "disable", id |-> id]
    OBVIOUS
  <1>2. m.type = "disable" /\ m.id = id
    BY <1>1
  <1>3. VoteMsg(m) /\ Effect(id, m) = 0
    BY <1>2 DEF VoteMsg, Effect
  <1> QED BY <1>1, <1>3, ReplayOneMore

(* Messages posted together are posted one after the other.                *)
LEMMA PostedTogether ==
  ASSUME NEW q, IsSeq(q), NEW a, NEW b, NEW c
  PROVE  /\ q \o <<>> = q /\ q \o <<a>> = Append(q, a)
         /\ q \o <<a, b, c>> = Append(Append(Append(q, a), b), c)
  <1>1. PICK S : q \in Seq(S)
    BY DEF IsSeq
  <1>2. PICK T : T = S \cup {a, b, c}
    OBVIOUS
  <1>3. q \in Seq(T) /\ a \in T /\ b \in T /\ c \in T
    BY <1>1, <1>2
  <1> QED BY <1>3

-----------------------------------------------------------------------------
(* The client's side and the adapter's agree: what waits in the queue      *)
(* takes the adapter's vote to the client's session, or to none.           *)
Vote == IF mEnabled THEN ctrlSession ELSE 0

VoteInv ==
  /\ mEnabled \in BOOLEAN /\ modemVote = mEnabled
  /\ ~mApi => ~mEnabled
  /\ mEnabled => ctrlSession > 0
  /\ ctrlSession \in Votes /\ mSessionIdCounter \in 1..(IdWrap - 1)
  /\ IsFiniteSet(DOMAIN mPendingConfig)
  /\ IsSeq(controlQ) /\ Replays(controlQ, mPowerVoteId, Vote)

LEMMA VoteStart ==
  ASSUME ControlInit
  PROVE  VoteInv
  <1> USE ControlAssumption
  <1>1. mPowerVoteId = 0 /\ Vote = 0 /\ controlQ = <<>>
    BY DEF ControlInit, Vote
  <1>2. IsSeq(controlQ)
    BY <1>1 DEF IsSeq
  <1>3. Replays(<<>>, 0, 0)
    <2>1. PICK c : c = [k \in 0..0 |-> 0]
      OBVIOUS
    <2>2. Len(<<>>) = 0 /\ c \in [0..0 -> 0..(IdWrap - 1)] /\ c[0] = 0
      BY <2>1
    <2>3. \A k \in 1..0 : c[k] = Effect(c[k - 1], <<>>[k])
      OBVIOUS
    <2> QED BY <2>2, <2>3 DEF Replays
  <1>4. DOMAIN mPendingConfig = {}
    BY DEF ControlInit
  <1>5. IsFiniteSet(DOMAIN mPendingConfig)
    BY <1>4, FS_EmptySet
  <1>6. /\ mEnabled = FALSE /\ modemVote = FALSE /\ ctrlSession = 0 /\ mSessionIdCounter = 1
    BY DEF ControlInit
  <1>7. ctrlSession \in Votes /\ mSessionIdCounter \in 1..(IdWrap - 1)
    BY <1>6 DEF Votes
  <1> QED BY <1>1, <1>2, <1>3, <1>5, <1>6, <1>7 DEF VoteInv

(* locAPIEnable and locAPIDisable.                                         *)
LEMMA EnableStep ==
  ASSUME VoteInv, locAPIEnable, mApi,
         UNCHANGED <<mApi, mPendingConfig, mPowerVoteId>>
  PROVE  VoteInv'
  <1>1. CASE mEnabled
    BY <1>1 DEF VoteInv, Vote, locAPIEnable
  <1>2. CASE ~mEnabled
    <2>1. PICK id \in 1..(IdWrap - 1) : id = generateSessionId(1)
      BY SessionIdInRange DEF VoteInv
    <2>2. /\ controlQ' = Append(controlQ, [type |-> "enable", id |-> id])
          /\ modemVote' = TRUE /\ mEnabled' = TRUE /\ ctrlSession' = id /\ mSessionIdCounter' = id
      BY <1>2, <2>1 DEF locAPIEnable, enableCommand
    <2>3. IsSeq(controlQ') /\ Replays(controlQ', mPowerVoteId, id)
      BY <1>2, <2>2, EnablePosted DEF VoteInv, Vote
    <2>4. Vote' = id /\ id \in Votes /\ id > 0
      BY <2>2, ControlAssumption DEF Vote, Votes
    <2> QED BY <2>2, <2>3, <2>4 DEF VoteInv
  <1> QED BY <1>1, <1>2

LEMMA DisableStep ==
  ASSUME VoteInv, locAPIDisable, UNCHANGED <<mApi, mPendingConfig, mPowerVoteId>>
  PROVE  VoteInv'
  <1>1. CASE ~(mEnabled /\ ctrlSession > 0)
    BY <1>1 DEF VoteInv, Vote, locAPIDisable
  <1>2. CASE mEnabled /\ ctrlSession > 0
    <2>1. /\ controlQ' = Append(controlQ, [type |-> "disable", id |-> ctrlSession])
          /\ modemVote' = FALSE /\ mEnabled' = FALSE /\ UNCHANGED <<ctrlSession, mSessionIdCounter>>
      BY <1>2 DEF locAPIDisable, disableCommand
    <2>2. IsSeq(controlQ') /\ Replays(controlQ', mPowerVoteId, 0)
      BY <1>2, <2>1, DisablePosted DEF VoteInv, Vote
    <2>3. Vote' = 0
      BY <2>1 DEF Vote
    <2> QED BY <2>1, <2>2, <2>3 DEF VoteInv
  <1> QED BY <1>1, <1>2

(* Creating the API: the queue grows by up to five messages, of which only *)
(* the last may be a vote.                                                 *)
LEMMA ApiCreated ==
  ASSUME VoteInv, ~mApi, NEW enable \in BOOLEAN, getApi(enable), UNCHANGED mPowerVoteId
  PROVE  VoteInv'
  <1>1. PICK n \in Nat : n = Cardinality(DOMAIN mPendingConfig)
    BY FS_CardinalityType DEF VoteInv
  <1>2. PICK last \in 1..(IdWrap - 1) : last = generateSessionId(IF enable THEN n + 1 ELSE n)
    <2>1. (IF enable THEN n + 1 ELSE n) \in Nat
      OBVIOUS
    <2> QED BY <2>1, SessionIdInRange DEF VoteInv
  <1>3. PICK m1, m2, m3, m4, m5 :
          /\ m1 = [type |-> "readConfig"] /\ m2 = [type |-> "setConfig"]
          /\ m3 = [type |-> "capabilities"] /\ m4 = [type |-> "update", config |-> mPendingConfig]
          /\ m5 = [type |-> "enable", id |-> last]
    OBVIOUS
  <1>4. /\ controlQ' = controlQ \o <<m1, m2, m3>> \o (IF n > 0 THEN <<m4>> ELSE <<>>)
                         \o (IF enable THEN <<m5>> ELSE <<>>)
        /\ mApi' = TRUE /\ mPendingConfig' = << >> /\ mSessionIdCounter' = last
        /\ IF enable THEN ctrlSession' = last /\ mEnabled' = TRUE /\ modemVote' = TRUE
                     ELSE UNCHANGED <<ctrlSession, mEnabled, modemVote>>
    BY <1>1, <1>2, <1>3 DEF getApi
  <1>5. ~mEnabled /\ IsSeq(controlQ) /\ Replays(controlQ, mPowerVoteId, 0)
    BY DEF VoteInv, Vote
  <1>6. \A m \in {m1, m2, m3, m4} : m.type \notin {"enable", "disable"}
    BY <1>3
  <1>7. PICK q : /\ q = controlQ \o <<m1, m2, m3>>
                 /\ IsSeq(q) /\ Replays(q, mPowerVoteId, 0)
    <2>1. PICK p1 : p1 = Append(controlQ, m1) /\ IsSeq(p1) /\ Replays(p1, mPowerVoteId, 0)
      BY <1>5, <1>6, NoVotePosted
    <2>2. PICK p2 : p2 = Append(p1, m2) /\ IsSeq(p2) /\ Replays(p2, mPowerVoteId, 0)
      BY <1>6, <2>1, NoVotePosted
    <2>3. PICK p3 : p3 = Append(p2, m3) /\ IsSeq(p3) /\ Replays(p3, mPowerVoteId, 0)
      BY <1>6, <2>2, NoVotePosted
    <2>4. controlQ \o <<m1, m2, m3>> = Append(Append(Append(controlQ, m1), m2), m3)
      BY <1>5, PostedTogether
    <2> QED BY <2>1, <2>2, <2>3, <2>4
  <1>8. PICK r : /\ r = q \o (IF n > 0 THEN <<m4>> ELSE <<>>)
                 /\ IsSeq(r) /\ Replays(r, mPowerVoteId, 0)
    <2> DEFINE more == IF n > 0 THEN <<m4>> ELSE <<>>
    <2>1. CASE n > 0
      <3>1. q \o more = Append(q, m4)
        BY <1>7, <2>1, PostedTogether
      <3>2. IsSeq(Append(q, m4)) /\ Replays(Append(q, m4), mPowerVoteId, 0)
        BY <1>6, <1>7, NoVotePosted
      <3> QED BY <3>1, <3>2
    <2>2. CASE ~(n > 0)
      <3>1. q \o more = q
        BY <1>7, <2>2, PostedTogether
      <3> QED BY <1>7, <3>1
    <2> QED BY <2>1, <2>2
  <1>9. DOMAIN mPendingConfig' = {} /\ IsFiniteSet(DOMAIN mPendingConfig')
    <2>1. DOMAIN mPendingConfig' = {}
      BY <1>4
    <2> QED BY <2>1, FS_EmptySet
  <1>10. controlQ' = r \o (IF enable THEN <<m5>> ELSE <<>>)
    BY <1>4, <1>7, <1>8
  <1>11. CASE enable
    <2>1. controlQ' = Append(r, m5)
      BY <1>8, <1>10, <1>11, PostedTogether
    <2>2. IsSeq(controlQ') /\ Replays(controlQ', mPowerVoteId, last)
      BY <1>3, <1>8, <2>1, EnablePosted
    <2>3. ctrlSession' = last /\ mEnabled' = TRUE /\ modemVote' = TRUE
      BY <1>4, <1>11
    <2>4. Vote' = last /\ last \in Votes /\ last > 0
      BY <2>3, ControlAssumption DEF Vote, Votes
    <2> QED BY <1>4, <1>9, <2>2, <2>3, <2>4 DEF VoteInv
  <1>12. CASE ~enable
    <2>1. controlQ' = r
      BY <1>8, <1>10, <1>12, PostedTogether
    <2>2. UNCHANGED <<ctrlSession, mEnabled, modemVote>>
      BY <1>4, <1>12
    <2>3. Vote' = 0
      BY <1>5, <2>2 DEF Vote
    <2> QED BY <1>4, <1>8, <1>9, <2>1, <2>2, <2>3 DEF VoteInv
  <1> QED BY <1>11, <1>12

(* The adapter's thread handles a message.                                 *)
LEMMA VoteHandled ==
  ASSUME VoteInv, controlQ # <<>>, controlQ' = Tail(controlQ),
         UNCHANGED <<clientVars, mSessionIdCounter, modemVote>>,
         mPowerVoteId' = Effect(mPowerVoteId, Head(controlQ))
  PROVE  VoteInv'
  <1>1. UNCHANGED <<mApi, mPendingConfig, mEnabled, ctrlSession, mSessionIdCounter, modemVote>>
    BY DEF clientVars
  <1>2. IsSeq(controlQ') /\ Replays(controlQ', mPowerVoteId', Vote)
    BY ReplayTheRest DEF VoteInv
  <1>3. Vote' = Vote
    BY <1>1 DEF Vote
  <1> QED BY <1>1, <1>2, <1>3 DEF VoteInv

LEMMA HandlerSteps ==
  ASSUME VoteInv,
         \/ MsgEnableGnss \/ MsgDisableGnss \/ MsgReadConfig \/ MsgRequestCapabilities
         \/ ControlSetConfig \/ MsgGnssUpdateConfig
  PROVE  VoteInv'
  <1> DEFINE Takes(t) == /\ controlQ # <<>> /\ Head(controlQ).type = t /\ controlQ' = Tail(controlQ)
                         /\ UNCHANGED <<clientVars, mSessionIdCounter, modemVote>>
  <1>1. CASE MsgEnableGnss
    <2>1. Takes("enable")
      BY <1>1 DEF MsgEnableGnss, ControlHandles
    <2>2. IF mPowerVoteId > 0 THEN UNCHANGED mPowerVoteId ELSE mPowerVoteId' = Head(controlQ).id
      BY <1>1 DEF MsgEnableGnss
    <2>3. mPowerVoteId \in Votes
      BY ReplayEnds DEF VoteInv
    <2>4. mPowerVoteId' = Effect(mPowerVoteId, Head(controlQ))
      BY <2>1, <2>2, <2>3, ControlAssumption DEF Effect, Votes
    <2> QED BY <2>1, <2>4, VoteHandled
  <1>2. CASE MsgDisableGnss
    <2>1. Takes("disable")
      BY <1>2 DEF MsgDisableGnss, ControlHandles
    <2>2. IF mPowerVoteId # Head(controlQ).id THEN UNCHANGED mPowerVoteId ELSE mPowerVoteId' = 0
      BY <1>2 DEF MsgDisableGnss
    <2>3. mPowerVoteId' = Effect(mPowerVoteId, Head(controlQ))
      BY <2>1, <2>2 DEF Effect
    <2> QED BY <2>1, <2>3, VoteHandled
  <1>3. ASSUME NEW t, Takes(t), t \notin {"enable", "disable"}, UNCHANGED mPowerVoteId
        PROVE  VoteInv'
    <2>1. mPowerVoteId' = Effect(mPowerVoteId, Head(controlQ))
      BY <1>3 DEF Effect
    <2> QED BY <1>3, <2>1, VoteHandled
  <1>4. CASE MsgReadConfig
    <2>1. Takes("readConfig") /\ UNCHANGED mPowerVoteId
      BY <1>4 DEF MsgReadConfig, ControlHandles
    <2> QED BY <1>3, <2>1
  <1>5. CASE MsgRequestCapabilities
    <2>1. Takes("capabilities") /\ UNCHANGED mPowerVoteId
      BY <1>5 DEF MsgRequestCapabilities, ControlHandles
    <2> QED BY <1>3, <2>1
  <1>6. CASE ControlSetConfig
    <2>1. Takes("setConfig") /\ UNCHANGED mPowerVoteId
      BY <1>6 DEF ControlSetConfig, ControlHandles
    <2> QED BY <1>3, <2>1
  <1>7. CASE MsgGnssUpdateConfig
    <2>1. Takes("update") /\ UNCHANGED mPowerVoteId
      BY <1>7 DEF MsgGnssUpdateConfig, ControlHandles
    <2> QED BY <1>3, <2>1
  <1> QED BY <1>1, <1>2, <1>4, <1>5, <1>6, <1>7

(* A setter of the framework: an update is posted, or merged into the      *)
(* pending one.                                                            *)
LEMMA UpdateStep ==
  ASSUME VoteInv, NEW item, NEW number, updateConfiguration(item, number)
  PROVE  VoteInv'
  <1>1. PICK config : config = [i \in {item} |-> Setter(i)[number]]
    OBVIOUS
  <1>2. DOMAIN config = {item} /\ IsFiniteSet(DOMAIN config) /\ Cardinality(DOMAIN config) = 1
    <2>1. DOMAIN config = {item}
      BY <1>1
    <2> QED BY <2>1, FS_Singleton
  <1>3. UNCHANGED <<mApi, mEnabled, ctrlSession, mPowerVoteId>> /\ Vote' = Vote
    BY DEF updateConfiguration, Vote
  <1>4. CASE mApi
    <2>1. locAPIGnssUpdateConfig(config) /\ UNCHANGED mPendingConfig
      BY <1>1, <1>4 DEF updateConfiguration
    <2>2. CASE config = mConfig \/ DOMAIN config = {}
      BY <1>3, <2>1, <2>2 DEF locAPIGnssUpdateConfig, VoteInv
    <2>3. CASE ~(config = mConfig \/ DOMAIN config = {})
      <3>1. PICK m : m = [type |-> "update", config |-> config]
        OBVIOUS
      <3>2. controlQ' = Append(controlQ, m) /\ UNCHANGED modemVote
        BY <2>1, <2>3, <3>1 DEF locAPIGnssUpdateConfig, gnssUpdateConfigCommand
      <3>3. mSessionIdCounter' = generateSessionId(1)
        BY <1>2, <2>1, <2>3 DEF locAPIGnssUpdateConfig, gnssUpdateConfigCommand
      <3>4. mSessionIdCounter' \in 1..(IdWrap - 1)
        BY <3>3, SessionIdInRange DEF VoteInv
      <3>5. m.type \notin {"enable", "disable"}
        BY <3>1
      <3>6. IsSeq(controlQ') /\ Replays(controlQ', mPowerVoteId, Vote)
        BY <3>2, <3>5, NoVotePosted DEF VoteInv
      <3> QED BY <1>3, <2>1, <3>2, <3>4, <3>6 DEF VoteInv
    <2> QED BY <2>2, <2>3
  <1>5. CASE ~mApi
    <2>1. /\ mPendingConfig' = pendingConfig(config)
          /\ UNCHANGED <<mSessionIdCounter, modemVote, controlQ>>
      BY <1>1, <1>5 DEF updateConfiguration
    <2>2. PICK D : D = {item} \cup DOMAIN mPendingConfig
      OBVIOUS
    <2>3. DOMAIN mPendingConfig' = D
      BY <1>2, <2>1, <2>2 DEF pendingConfig
    <2>4. IsFiniteSet(D)
      <3>1. IsFiniteSet({item}) /\ IsFiniteSet(DOMAIN mPendingConfig)
        BY FS_Singleton DEF VoteInv
      <3> QED BY <2>2, <3>1, FS_Union
    <2> QED BY <1>3, <2>1, <2>3, <2>4 DEF VoteInv
  <1> QED BY <1>4, <1>5

LEMMA FrameworkSteps ==
  ASSUME VoteInv, setCallback \/ setGnssNiCb \/ cleanup
  PROVE  VoteInv'
  <1>1. CASE setCallback
    <2>1. UNCHANGED mPowerVoteId
      BY <1>1 DEF setCallback
    <2>2. CASE mApi
      <3>1. locAPIEnable /\ UNCHANGED <<mApi, mPendingConfig>>
        BY <1>1, <2>2 DEF setCallback
      <3> QED BY <2>1, <2>2, <3>1, EnableStep
    <2>3. CASE ~mApi
      <3>1. getApi(TRUE)
        BY <1>1, <2>3 DEF setCallback
      <3> QED BY <2>1, <2>3, <3>1, ApiCreated
    <2> QED BY <2>2, <2>3
  <1>2. CASE setGnssNiCb
    <2>1. ~mApi /\ getApi(FALSE) /\ UNCHANGED mPowerVoteId
      BY <1>2 DEF setGnssNiCb
    <2> QED BY <2>1, ApiCreated
  <1>3. CASE cleanup
    <2>1. locAPIDisable /\ UNCHANGED <<mApi, mPendingConfig, mPowerVoteId>>
      BY <1>3 DEF cleanup
    <2> QED BY <2>1, DisableStep
  <1> QED BY <1>1, <1>2, <1>3

LEMMA VoteStep ==
  ASSUME VoteInv, [ControlNext]_controlVars
  PROVE  VoteInv'
  <1>1. CASE UNCHANGED controlVars
    BY <1>1 DEF controlVars, clientVars, VoteInv, Vote
  <1>2. CASE EngineDies
    <2>1. UNCHANGED <<clientVars, mSessionIdCounter, mPowerVoteId, modemVote, controlQ>>
      BY <1>2 DEF EngineDies
    <2> QED BY <2>1 DEF clientVars, VoteInv, Vote
  <1>3. CASE EngineComesUp
    <2>1. UNCHANGED <<clientVars, mSessionIdCounter, mPowerVoteId, modemVote>>
      BY <1>3 DEF EngineComesUp
    <2>2. PICK m : m = [type |-> "setConfig"] /\ controlQ' = Append(controlQ, m)
      BY <1>3 DEF EngineComesUp
    <2>3. m.type \notin {"enable", "disable"}
      BY <2>2
    <2>4. IsSeq(controlQ') /\ Replays(controlQ', mPowerVoteId, Vote)
      BY <2>2, <2>3, NoVotePosted DEF VoteInv
    <2> QED BY <2>1, <2>4 DEF clientVars, VoteInv, Vote
  <1>4. CASE \E u \in Updates : updateConfiguration(u[1], u[2])
    BY <1>4, UpdateStep
  <1> QED BY <1>1, <1>2, <1>3, <1>4, HandlerSteps, FrameworkSteps DEF ControlNext

LEMMA VoteInvariant == ControlSpec => []VoteInv
  BY VoteStart, VoteStep, PTL DEF ControlSpec

(* The modem's power vote is always the one LocationAPIControlClient asked *)
(* for, and once the calls are handled the adapter holds exactly the vote  *)
(* of the client's session, or none: for any sequence of enables, disables *)
(* and deaths of the framework, and however session ids wrap around.       *)
THEOREM VotesAreReleased == ControlSpec => []VoteFollowsClient
  <1>1. VoteInv => VoteFollowsClient
    <2>1. VoteInv /\ controlQ = <<>> => mPowerVoteId = Vote
      BY ReplayNothing DEF VoteInv
    <2> QED BY <2>1 DEF VoteInv, Vote, VoteFollowsClient
  <1> QED BY <1>1, VoteInvariant, PTL

-----------------------------------------------------------------------------
(* What the framework sets.  The numbers of an item that the theorem is    *)
(* about are those its setter accepts; of the 256 masks of GLONASS         *)
(* protocols, those made of the four bits the engine has.                  *)
Glonass == "A_GLONASS_POS_PROTOCOL_SELECT"
Numbers(i) == {n \in DOMAIN Setter(i) : i = Glonass => n < 16}

LEMMA ModeMasks ==
  ASSUME NEW n \in 0..3
  PROVE  convertSuplMode(setSuplMode[n]) = n
  <1>1. /\ DOMAIN SuplModeBits = {1, 2} /\ SuplModeBits[1] = "MSB" /\ SuplModeBits[2] = "MSA"
        /\ Weight[1] = 1 /\ Weight[2] = 2
    BY DEF SuplModeBits, Weight
  <1>2. CASE n = 0
    <2>1. setSuplMode[n] = {}
      BY <1>2 DEF setSuplMode
    <2> QED BY <1>1, <1>2, <2>1 DEF convertSuplMode, ToMask
  <1>3. CASE n = 1
    <2>1. setSuplMode[n] = {"MSB"}
      BY <1>3 DEF setSuplMode
    <2> QED BY <1>1, <1>3, <2>1 DEF convertSuplMode, ToMask
  <1>4. CASE n = 2
    <2>1. setSuplMode[n] = {"MSA"}
      BY <1>4 DEF setSuplMode
    <2> QED BY <1>1, <1>4, <2>1 DEF convertSuplMode, ToMask
  <1>5. CASE n = 3
    <2>1. setSuplMode[n] = {"MSB", "MSA"}
      BY <1>5 DEF setSuplMode
    <2> QED BY <1>1, <1>5, <2>1 DEF convertSuplMode, ToMask
  <1> QED BY <1>2, <1>3, <1>4, <1>5

LEMMA ProtocolMasks ==
  ASSUME NEW p \in 0..255
  PROVE  /\ convertAGloProt(FromMask(AGloBits, p)) = p % 16
         /\ FromMask(AGloBits, convertAGloProt(FromMask(AGloBits, p))) = FromMask(AGloBits, p)
  <1>1. /\ DOMAIN AGloBits = {1, 2, 3, 4} /\ AGloBits[1] = "RRC_CP" /\ AGloBits[2] = "RRLP_UP"
        /\ AGloBits[3] = "LLP_UP" /\ AGloBits[4] = "LLP_CP"
        /\ Weight[1] = 1 /\ Weight[2] = 2 /\ Weight[3] = 4 /\ Weight[4] = 8
    BY DEF AGloBits, Weight
  <1>2. PICK S : S = FromMask(AGloBits, p)
    OBVIOUS
  <1>3. /\ "RRC_CP" \in S <=> (p \div 1) % 2 = 1
        /\ "RRLP_UP" \in S <=> (p \div 2) % 2 = 1
        /\ "LLP_UP" \in S <=> (p \div 4) % 2 = 1
        /\ "LLP_CP" \in S <=> (p \div 8) % 2 = 1
    BY <1>1, <1>2 DEF FromMask, HasBit
  <1>4. PICK r : r = convertAGloProt(S)
    OBVIOUS
  <1>5. r = (IF "RRC_CP" \in S THEN 1 ELSE 0) + (IF "RRLP_UP" \in S THEN 2 ELSE 0)
              + (IF "LLP_UP" \in S THEN 4 ELSE 0) + (IF "LLP_CP" \in S THEN 8 ELSE 0)
    BY <1>1, <1>4 DEF convertAGloProt, ToMask
  <1>6. r = p % 16
    BY <1>3, <1>5
  <1>7. ASSUME NEW k \in {1, 2, 3, 4}
        PROVE  HasBit(r, k) <=> HasBit(p, k)
    <2>1. PICK d \in Nat : p = 16 * d + r /\ r \in 0..15
      BY <1>6
    <2>2. /\ (r \div 1) % 2 = (p \div 1) % 2 /\ (r \div 2) % 2 = (p \div 2) % 2
          /\ (r \div 4) % 2 = (p \div 4) % 2 /\ (r \div 8) % 2 = (p \div 8) % 2
      BY <2>1
    <2>3. (r \div Weight[k]) % 2 = (p \div Weight[k]) % 2
      BY <1>1, <2>2
    <2> QED BY <2>3 DEF HasBit
  <1>8. FromMask(AGloBits, r) = FromMask(AGloBits, p)
    BY <1>1, <1>7 DEF FromMask
  <1> QED BY <1>2, <1>4, <1>6, <1>8

(* The enumerations, there and back.                                       *)
LEMMA Enumerations ==
  /\ \A n \in 0..3 : /\ convertGpsLock(setGpsLock[n]) = n /\ GpsLockOf(n) = setGpsLock[n]
                      /\ convertLppProfile(setLppProfile[n]) = n /\ LppProfileOf(n) = setLppProfile[n]
  /\ \A n \in {131074, 131072, 65536} :
       convertSuplVersion(setSuplVersion[n]) = n /\ SuplVersionOf(n) = setSuplVersion[n]
  /\ \A n \in 0..1 : convertYes(setSuplEs[n]) = n /\ convertYes(setEmergencySuplPdn[n]) = n
  <1>1. /\ setGpsLock[0] = "NONE" /\ setGpsLock[1] = "MO" /\ setGpsLock[2] = "NI"
        /\ setGpsLock[3] = "MO_AND_NI"
    BY DEF setGpsLock
  <1>2. /\ setLppProfile[0] = "RRLP_ON_LTE" /\ setLppProfile[1] = "UP" /\ setLppProfile[2] = "CP"
        /\ setLppProfile[3] = "UP_AND_CP"
    BY DEF setLppProfile
  <1>3. /\ setSuplVersion[131074] = "2_0_2" /\ setSuplVersion[131072] = "2_0_0"
        /\ setSuplVersion[65536] = "1_0_0"
    BY DEF setSuplVersion
  <1>4. \A n \in 0..3 : n = 0 \/ n = 1 \/ n = 2 \/ n = 3
    OBVIOUS
  <1>5. \A n \in 0..3 : convertGpsLock(setGpsLock[n]) = n /\ GpsLockOf(n) = setGpsLock[n]
    BY <1>1, <1>4 DEF convertGpsLock, GpsLockOf
  <1>6. \A n \in 0..3 : convertLppProfile(setLppProfile[n]) = n /\ LppProfileOf(n) = setLppProfile[n]
    BY <1>2, <1>4 DEF convertLppProfile, LppProfileOf
  <1>7. \A n \in {131074, 131072, 65536} :
          convertSuplVersion(setSuplVersion[n]) = n /\ SuplVersionOf(n) = setSuplVersion[n]
    BY <1>3 DEF convertSuplVersion, SuplVersionOf
  <1>8. \A n \in 0..1 : convertYes(setSuplEs[n]) = n /\ convertYes(setEmergencySuplPdn[n]) = n
    BY DEF convertYes, setSuplEs, setEmergencySuplPdn
  <1> QED BY <1>5, <1>6, <1>7, <1>8

(* mGps_conf has the number the framework gave the setter.                 *)
LEMMA StoredNumber ==
  ASSUME NEW i \in Settable \ {Server}, NEW n \in Numbers(i)
  PROVE  Stored(i, Setter(i)[n]) = n
  <1>1. n \in DOMAIN Setter(i) /\ (i = Glonass => n < 16)
    BY DEF Numbers
  <1>2. CASE i = "GPS_LOCK"
    <2>1. Setter(i) = setGpsLock
      BY <1>2 DEF Setter
    <2>2. n \in 0..3
      BY <1>1, <2>1 DEF setGpsLock
    <2>3. Stored(i, setGpsLock[n]) = convertGpsLock(setGpsLock[n])
      BY <1>2 DEF Stored, Plain
    <2> QED BY <2>1, <2>2, <2>3, Enumerations
  <1>3. CASE i = "SUPL_VER"
    <2>1. Setter(i) = setSuplVersion
      BY <1>3 DEF Setter
    <2>2. n \in {131074, 131072, 65536}
      BY <1>1, <2>1 DEF setSuplVersion
    <2>3. Stored(i, setSuplVersion[n]) = convertSuplVersion(setSuplVersion[n])
      BY <1>3 DEF Stored, Plain
    <2> QED BY <2>1, <2>2, <2>3, Enumerations
  <1>4. CASE i = "LPP_PROFILE"
    <2>1. Setter(i) = setLppProfile
      BY <1>4 DEF Setter
    <2>2. n \in 0..3
      BY <1>1, <2>1 DEF setLppProfile
    <2>3. Stored(i, setLppProfile[n]) = convertLppProfile(setLppProfile[n])
      BY <1>4 DEF Stored, Plain
    <2> QED BY <2>1, <2>2, <2>3, Enumerations
  <1>5. CASE i = "SUPL_MODE"
    <2>1. Setter(i) = setSuplMode
      BY <1>5 DEF Setter
    <2>2. n \in 0..3
      BY <1>1, <2>1 DEF setSuplMode
    <2>3. Stored(i, setSuplMode[n]) = convertSuplMode(setSuplMode[n])
      BY <1>5 DEF Stored, Plain
    <2> QED BY <2>1, <2>2, <2>3, ModeMasks
  <1>6. CASE i = "SUPL_ES"
    <2>1. Setter(i) = setSuplEs
      BY <1>6 DEF Setter
    <2>2. n \in 0..1
      BY <1>1, <2>1 DEF setSuplEs
    <2>3. Stored(i, setSuplEs[n]) = convertYes(setSuplEs[n])
      BY <1>6 DEF Stored, Plain
    <2> QED BY <2>1, <2>2, <2>3, Enumerations
  <1>7. CASE i = "USE_EMERGENCY_PDN_FOR_EMERGENCY_SUPL"
    <2>1. Setter(i) = setEmergencySuplPdn
      BY <1>7 DEF Setter
    <2>2. n \in 0..1
      BY <1>1, <2>1 DEF setEmergencySuplPdn
    <2>3. Stored(i, setEmergencySuplPdn[n]) = convertYes(setEmergencySuplPdn[n])
      BY <1>7 DEF Stored, Plain
    <2> QED BY <2>1, <2>2, <2>3, Enumerations
  <1>8. CASE i = "A_GLONASS_POS_PROTOCOL_SELECT"
    <2>1. Setter(i) = setGlonassPositioningProtocol
      BY <1>8 DEF Setter
    <2>2. n \in 0..255
      BY <1>1, <2>1 DEF setGlonassPositioningProtocol
    <2>3. Stored(i, setGlonassPositioningProtocol[n]) = convertAGloProt(setGlonassPositioningProtocol[n])
      BY <1>8 DEF Stored, Plain
    <2>4. setGlonassPositioningProtocol[n] = FromMask(AGloBits, n) /\ n % 16 = n
      BY <1>1, <1>8, <2>2 DEF setGlonassPositioningProtocol, Glonass
    <2> QED BY <2>1, <2>2, <2>3, <2>4, ProtocolMasks
  <1> QED BY <1>2, <1>3, <1>4, <1>5, <1>6, <1>7, <1>8 DEF Settable, Injected, Local, Lock, Server

(* What the engine is told again after a restart, or when the vote is      *)
(* released, is what the setter had put into the update.                   *)
LEMMA ToldAgain ==
  ASSUME NEW i \in Injected \cup {Lock}, NEW n \in DOMAIN Setter(i)
  PROVE  ToEngine(i, Stored(i, Setter(i)[n])) = Setter(i)[n]
  <1>1. CASE i = "GPS_LOCK"
    <2>1. Setter(i) = setGpsLock
      BY <1>1 DEF Setter
    <2>2. n \in 0..3
      BY <2>1 DEF setGpsLock
    <2>3. Stored(i, setGpsLock[n]) = convertGpsLock(setGpsLock[n])
      BY <1>1 DEF Stored, Plain
    <2>4. ToEngine(i, convertGpsLock(setGpsLock[n])) = GpsLockOf(convertGpsLock(setGpsLock[n]))
      BY <1>1 DEF ToEngine, Plain
    <2> QED BY <2>1, <2>2, <2>3, <2>4, Enumerations
  <1>2. CASE i = "SUPL_VER"
    <2>1. Setter(i) = setSuplVersion
      BY <1>2 DEF Setter
    <2>2. n \in {131074, 131072, 65536}
      BY <2>1 DEF setSuplVersion
    <2>3. Stored(i, setSuplVersion[n]) = convertSuplVersion(setSuplVersion[n])
      BY <1>2 DEF Stored, Plain
    <2>4. ToEngine(i, convertSuplVersion(setSuplVersion[n])) = SuplVersionOf(convertSuplVersion(setSuplVersion[n]))
      BY <1>2 DEF ToEngine, Plain
    <2> QED BY <2>1, <2>2, <2>3, <2>4, Enumerations
  <1>3. CASE i = "LPP_PROFILE"
    <2>1. Setter(i) = setLppProfile
      BY <1>3 DEF Setter
    <2>2. n \in 0..3
      BY <2>1 DEF setLppProfile
    <2>3. Stored(i, setLppProfile[n]) = convertLppProfile(setLppProfile[n])
      BY <1>3 DEF Stored, Plain
    <2>4. ToEngine(i, convertLppProfile(setLppProfile[n])) = LppProfileOf(convertLppProfile(setLppProfile[n]))
      BY <1>3 DEF ToEngine, Plain
    <2> QED BY <2>1, <2>2, <2>3, <2>4, Enumerations
  <1>4. CASE i = "A_GLONASS_POS_PROTOCOL_SELECT"
    <2>1. Setter(i) = setGlonassPositioningProtocol
      BY <1>4 DEF Setter
    <2>2. n \in 0..255
      BY <2>1 DEF setGlonassPositioningProtocol
    <2>3. Stored(i, setGlonassPositioningProtocol[n]) = convertAGloProt(setGlonassPositioningProtocol[n])
      BY <1>4 DEF Stored, Plain
    <2>4. ToEngine(i, convertAGloProt(setGlonassPositioningProtocol[n])) = FromMask(AGloBits, convertAGloProt(setGlonassPositioningProtocol[n]))
      BY <1>4 DEF ToEngine, Plain
    <2>5. setGlonassPositioningProtocol[n] = FromMask(AGloBits, n)
      BY <2>2 DEF setGlonassPositioningProtocol
    <2> QED BY <2>1, <2>2, <2>3, <2>4, <2>5, ProtocolMasks
  <1> QED BY <1>1, <1>2, <1>3, <1>4 DEF Injected, Lock

-----------------------------------------------------------------------------
(* What waits in the adapter's queue.  An update touches its items; of the *)
(* several that may touch one item the last one settles it, and where none *)
(* waits mGps_conf already has the number.                                 *)
IsSetting(c) == DOMAIN c \subseteq Settable /\ IsConfig(c)
Touches(m, i) == m.type = "update" /\ i \in DOMAIN m.config
NoneWaits(q, t) == \A k \in DOMAIN q : q[k].type # t
Settled(q, i, have, n) ==
  \/ have = n /\ NoneWaits(q, "readConfig") /\ \A k \in DOMAIN q : ~Touches(q[k], i)
  \/ \E k \in DOMAIN q : /\ Touches(q[k], i) /\ q[k].config[i] = Setter(i)[n]
                         /\ \A j \in DOMAIN q : j > k => ~Touches(q[j], i)

(* A message is of the form its handler expects; MsgReadConfig, which is   *)
(* posted first, is followed by MsgSetConfig and the request for           *)
(* capabilities.                                                           *)
MsgOK(m) ==
  /\ IsControlMsg(m)
  /\ m.type = "update" => IsSetting(m.config)
Follows(q) ==
  \A k \in DOMAIN q : q[k].type = "readConfig" =>
    /\ k = 1 /\ {2, 3} \subseteq DOMAIN q
    /\ q[2].type = "setConfig" /\ q[3].type = "capabilities"
QueueOK(q) == IsSeq(q) /\ Follows(q) /\ \A k \in DOMAIN q : MsgOK(q[k])

LEMMA Appended ==
  ASSUME NEW q, IsSeq(q), NEW m
  PROVE  \E n \in Nat : /\ IsSeq(Append(q, m)) /\ DOMAIN q = 1..n /\ DOMAIN Append(q, m) = 1..(n + 1)
                        /\ \A k \in 1..n : k \in 1..(n + 1) /\ Append(q, m)[k] = q[k]
                        /\ n + 1 \in 1..(n + 1) /\ Append(q, m)[n + 1] = m
  <1>1. PICK n \in Nat : n = Len(q)
    BY MixedAppend
  <1>2. n + 1 \in 1..(n + 1) /\ \A k \in 1..n : k \in 1..(n + 1)
    OBVIOUS
  <1> QED BY <1>1, <1>2, MixedAppend

LEMMA QueuePosted ==
  ASSUME NEW q, QueueOK(q), NEW m, MsgOK(m), m.type # "readConfig"
  PROVE  QueueOK(Append(q, m))
  <1>1. PICK r : r = Append(q, m)
    OBVIOUS
  <1>2. PICK n \in Nat : /\ IsSeq(r) /\ DOMAIN q = 1..n /\ DOMAIN r = 1..(n + 1)
                         /\ \A k \in 1..n : k \in 1..(n + 1) /\ r[k] = q[k]
                         /\ n + 1 \in 1..(n + 1) /\ r[n + 1] = m
    BY <1>1, Appended DEF QueueOK
  <1>3. \A k \in DOMAIN r : MsgOK(r[k])
    <2>1. ASSUME NEW k \in DOMAIN r
          PROVE  k = n + 1 \/ k \in 1..n
      BY <1>2
    <2> QED BY <1>2, <2>1 DEF QueueOK
  <1>4. ASSUME NEW k \in DOMAIN r, r[k].type = "readConfig"
        PROVE  /\ k = 1 /\ {2, 3} \subseteq DOMAIN r
               /\ r[2].type = "setConfig" /\ r[3].type = "capabilities"
    <2>1. k # n + 1
      BY <1>2, <1>4
    <2>2. k \in DOMAIN q /\ q[k].type = "readConfig"
      BY <1>2, <1>4, <2>1
    <2>3. /\ k = 1 /\ 2 \in DOMAIN q /\ 3 \in DOMAIN q
          /\ q[2].type = "setConfig" /\ q[3].type = "capabilities"
      BY <2>2 DEF QueueOK, Follows
    <2> QED BY <1>2, <2>3
  <1>5. Follows(r)
    BY <1>4 DEF Follows
  <1> QED BY <1>1, <1>2, <1>3, <1>5 DEF QueueOK

LEMMA QueueTaken ==
  ASSUME NEW q, QueueOK(q), q # <<>>
  PROVE  /\ QueueOK(Tail(q)) /\ MsgOK(Head(q)) /\ NoneWaits(Tail(q), "readConfig")
         /\ Head(q).type = "readConfig" =>
              ~NoneWaits(Tail(q), "setConfig") /\ ~NoneWaits(Tail(q), "capabilities")
  <1>1. PICK r, h : r = Tail(q) /\ h = Head(q)
    OBVIOUS
  <1>2. PICK n \in Nat : /\ IsSeq(r) /\ DOMAIN q = 1..(n + 1) /\ DOMAIN r = 1..n
                         /\ h = q[1] /\ 1 \in 1..(n + 1)
                         /\ \A k \in 1..n : k + 1 \in 1..(n + 1) /\ r[k] = q[k + 1]
    BY <1>1, TailOf DEF QueueOK
  <1>3. MsgOK(h) /\ \A k \in DOMAIN r : MsgOK(r[k])
    BY <1>2 DEF QueueOK
  <1>4. NoneWaits(r, "readConfig")
    <2>1. ASSUME NEW k \in DOMAIN r
          PROVE  r[k].type # "readConfig"
      <3>1. k + 1 \in DOMAIN q /\ r[k] = q[k + 1] /\ k + 1 # 1
        BY <1>2
      <3> QED BY <3>1 DEF QueueOK, Follows
    <2> QED BY <2>1 DEF NoneWaits
  <1>5. Follows(r)
    BY <1>4 DEF NoneWaits, Follows
  <1>6. ASSUME h.type = "readConfig"
        PROVE  ~NoneWaits(r, "setConfig") /\ ~NoneWaits(r, "capabilities")
    <2>1. /\ 2 \in DOMAIN q /\ 3 \in DOMAIN q
          /\ q[2].type = "setConfig" /\ q[3].type = "capabilities"
      BY <1>2, <1>6 DEF QueueOK, Follows
    <2>2. 1 \in 1..n /\ 2 \in 1..n /\ 1 + 1 = 2 /\ 2 + 1 = 3
      BY <1>2, <2>1
    <2>3. r[1] = q[2] /\ r[2] = q[3]
      BY <1>2, <2>2
    <2> QED BY <1>2, <2>1, <2>2, <2>3 DEF NoneWaits
  <1> QED BY <1>1, <1>2, <1>3, <1>4, <1>5, <1>6 DEF QueueOK

LEMMA WaitsPosted ==
  ASSUME NEW q, IsSeq(q), NEW m, NEW t
  PROVE  NoneWaits(Append(q, m), t) <=> NoneWaits(q, t) /\ m.type # t
  <1>1. PICK r : r = Append(q, m)
    OBVIOUS
  <1>2. PICK n \in Nat : /\ DOMAIN q = 1..n /\ DOMAIN r = 1..(n + 1)
                         /\ \A k \in 1..n : k \in 1..(n + 1) /\ r[k] = q[k]
                         /\ n + 1 \in 1..(n + 1) /\ r[n + 1] = m
    BY <1>1, Appended
  <1>3. \A k \in 1..(n + 1) : k = n + 1 \/ k \in 1..n
    OBVIOUS
  <1>4. NoneWaits(r, t) <=> NoneWaits(q, t) /\ m.type # t
    BY <1>2, <1>3 DEF NoneWaits
  <1> QED BY <1>1, <1>4

LEMMA WaitsTaken ==
  ASSUME NEW q, IsSeq(q), q # <<>>, NEW t
  PROVE  NoneWaits(q, t) <=> NoneWaits(Tail(q), t) /\ Head(q).type # t
  <1>1. PICK r, h : r = Tail(q) /\ h = Head(q)
    OBVIOUS
  <1>2. PICK n \in Nat : /\ DOMAIN q = 1..(n + 1) /\ DOMAIN r = 1..n
                         /\ h = q[1] /\ 1 \in 1..(n + 1)
                         /\ \A k \in 1..n : k + 1 \in 1..(n + 1) /\ r[k] = q[k + 1]
    BY <1>1, TailOf
  <1>3. \A k \in 1..(n + 1) : k = 1 \/ (k - 1 \in 1..n /\ (k - 1) + 1 = k)
    OBVIOUS
  <1>4. NoneWaits(q, t) <=> NoneWaits(r, t) /\ h.type # t
    <2>1. ASSUME NoneWaits(q, t)
          PROVE  NoneWaits(r, t) /\ h.type # t
      BY <1>2, <2>1 DEF NoneWaits
    <2>2. ASSUME NoneWaits(r, t), h.type # t, NEW k \in DOMAIN q
          PROVE  q[k].type # t
      <3>1. CASE k = 1
        BY <1>2, <2>2, <3>1
      <3>2. CASE k # 1
        <4>1. k - 1 \in 1..n /\ (k - 1) + 1 = k
          BY <1>2, <1>3, <3>2
        <4>2. r[k - 1] = q[(k - 1) + 1]
          BY <1>2, <4>1
        <4> QED BY <1>2, <2>2, <4>1, <4>2 DEF NoneWaits
      <3> QED BY <3>1, <3>2
    <2> QED BY <2>1, <2>2 DEF NoneWaits
  <1> QED BY <1>1, <1>4

LEMMA SettledPosted ==
  ASSUME NEW q, IsSeq(q), NEW i, NEW have, NEW n, NEW m, m.type # "readConfig",
         IF Touches(m, i) THEN m.config[i] = Setter(i)[n] ELSE Settled(q, i, have, n)
  PROVE  Settled(Append(q, m), i, have, n)
  <1>1. PICK r : r = Append(q, m)
    OBVIOUS
  <1>2. PICK l \in Nat : /\ DOMAIN q = 1..l /\ DOMAIN r = 1..(l + 1)
                         /\ \A k \in 1..l : k \in 1..(l + 1) /\ r[k] = q[k]
                         /\ l + 1 \in 1..(l + 1) /\ r[l + 1] = m
    BY <1>1, Appended
  <1>3. \A k \in 1..(l + 1) : k = l + 1 \/ k \in 1..l
    OBVIOUS
  <1>4. CASE Touches(m, i)
    <2>1. \A j \in 1..(l + 1) : ~(j > l + 1)
      OBVIOUS
    <2> QED BY <1>1, <1>2, <1>4, <2>1 DEF Settled
  <1>5. CASE ~Touches(m, i)
    <2>1. CASE have = n /\ NoneWaits(q, "readConfig") /\ \A k \in DOMAIN q : ~Touches(q[k], i)
      <3>1. NoneWaits(r, "readConfig")
        BY <1>1, <2>1, WaitsPosted
      <3>2. \A k \in DOMAIN r : ~Touches(r[k], i)
        BY <1>2, <1>3, <1>5, <2>1
      <3> QED BY <1>1, <2>1, <3>1, <3>2 DEF Settled
    <2>2. CASE \E k \in DOMAIN q : /\ Touches(q[k], i) /\ q[k].config[i] = Setter(i)[n]
                                   /\ \A j \in DOMAIN q : j > k => ~Touches(q[j], i)
      <3>1. PICK k \in 1..l : /\ Touches(q[k], i) /\ q[k].config[i] = Setter(i)[n]
                              /\ \A j \in 1..l : j > k => ~Touches(q[j], i)
        BY <1>2, <2>2
      <3>2. k \in DOMAIN r /\ Touches(r[k], i) /\ r[k].config[i] = Setter(i)[n]
        BY <1>2, <3>1
      <3>3. \A j \in DOMAIN r : j > k => ~Touches(r[j], i)
        BY <1>2, <1>3, <1>5, <3>1
      <3> QED BY <1>1, <3>2, <3>3 DEF Settled
    <2> QED BY <1>5, <2>1, <2>2 DEF Settled
  <1> QED BY <1>4, <1>5

LEMMA SettledTaken ==
  ASSUME NEW q, IsSeq(q), q # <<>>, NoneWaits(Tail(q), "readConfig"),
         NEW i, NEW have, NEW n, Settled(q, i, have, n), NEW new,
         \/ Head(q).type = "readConfig"
         \/ Touches(Head(q), i) /\ (Head(q).config[i] = Setter(i)[n] => new = n)
         \/ ~Touches(Head(q), i) /\ new = have
  PROVE  Settled(Tail(q), i, new, n)
  <1>1. PICK r, h : r = Tail(q) /\ h = Head(q)
    OBVIOUS
  <1>2. PICK l \in Nat : /\ DOMAIN q = 1..(l + 1) /\ DOMAIN r = 1..l
                         /\ h = q[1] /\ 1 \in 1..(l + 1)
                         /\ \A k \in 1..l : k + 1 \in 1..(l + 1) /\ r[k] = q[k + 1]
    BY <1>1, TailOf
  <1>3. CASE have = n /\ NoneWaits(q, "readConfig") /\ \A k \in DOMAIN q : ~Touches(q[k], i)
    <2>1. new = n
      BY <1>1, <1>2, <1>3 DEF NoneWaits
    <2>2. \A k \in DOMAIN r : ~Touches(r[k], i)
      BY <1>2, <1>3
    <2> QED BY <1>1, <2>1, <2>2 DEF Settled
  <1>4. CASE \E k \in DOMAIN q : /\ Touches(q[k], i) /\ q[k].config[i] = Setter(i)[n]
                                 /\ \A j \in DOMAIN q : j > k => ~Touches(q[j], i)
    <2>1. PICK k \in 1..(l + 1) : /\ Touches(q[k], i) /\ q[k].config[i] = Setter(i)[n]
                                  /\ \A j \in 1..(l + 1) : j > k => ~Touches(q[j], i)
      BY <1>2, <1>4
    <2>2. CASE k = 1
      <3>1. h.type = "update" /\ Touches(h, i) /\ h.config[i] = Setter(i)[n]
        BY <1>2, <2>1, <2>2 DEF Touches
      <3>2. new = n
        BY <1>1, <3>1
      <3>3. ASSUME NEW j \in DOMAIN r
            PROVE  ~Touches(r[j], i)
        <4>1. j + 1 \in 1..(l + 1) /\ j + 1 > k /\ r[j] = q[j + 1]
          BY <1>2, <2>2
        <4> QED BY <2>1, <4>1
      <3> QED BY <1>1, <3>2, <3>3 DEF Settled
    <2>3. CASE k # 1
      <3>1. PICK p \in 1..l : p = k - 1 /\ p + 1 = k
        BY <2>1, <2>3
      <3>2. p \in DOMAIN r /\ Touches(r[p], i) /\ r[p].config[i] = Setter(i)[n]
        BY <1>2, <2>1, <3>1
      <3>3. ASSUME NEW j \in DOMAIN r, j > p
            PROVE  ~Touches(r[j], i)
        <4>1. j + 1 \in 1..(l + 1) /\ j + 1 > k /\ r[j] = q[j + 1]
          BY <1>2, <3>1, <3>3
        <4> QED BY <2>1, <4>1
      <3> QED BY <1>1, <3>2, <3>3 DEF Settled
    <2> QED BY <2>2, <2>3
  <1> QED BY <1>3, <1>4 DEF Settled

-----------------------------------------------------------------------------
(* The queue is well formed, and nothing waits before the API exists.      *)
QueueInv ==
  /\ QueueOK(controlQ)
  /\ ~mApi => controlQ = <<>> /\ engineRuns
  /\ IsSetting(mPendingConfig)

LEMMA QueueStart ==
  ASSUME ControlInit
  PROVE  QueueInv
  <1>1. controlQ = <<>> /\ engineRuns /\ mPendingConfig = << >>
    BY DEF ControlInit
  <1>2. IsSeq(<<>>) /\ DOMAIN <<>> = {}
    BY DEF IsSeq
  <1> QED BY <1>1, <1>2 DEF QueueInv, QueueOK, Follows, IsSetting, IsConfig

(* Creating the API posts MsgReadConfig, what follows it, and the pending  *)
(* configuration, which settles every item it has.                         *)
LEMMA ApiPosts ==
  ASSUME VoteInv, QueueInv, ~mApi, NEW enable \in BOOLEAN, getApi(enable)
  PROVE  /\ QueueOK(controlQ')
         /\ ~NoneWaits(controlQ', "readConfig") /\ ~NoneWaits(controlQ', "setConfig")
         /\ ~NoneWaits(controlQ', "capabilities")
         /\ \A i, have, n : i \in DOMAIN mPendingConfig /\ mPendingConfig[i] = Setter(i)[n] =>
              Settled(controlQ', i, have, n)
  <1>1. PICK n \in Nat : n = Cardinality(DOMAIN mPendingConfig)
    BY FS_CardinalityType DEF VoteInv
  <1>2. PICK last \in 1..(IdWrap - 1) : last = generateSessionId(IF enable THEN n + 1 ELSE n)
    <2>1. (IF enable THEN n + 1 ELSE n) \in Nat
      OBVIOUS
    <2> QED BY <2>1, SessionIdInRange DEF VoteInv
  <1>3. PICK m1, m2, m3, m4, m5 :
          /\ m1 = [type |-> "readConfig"] /\ m2 = [type |-> "setConfig"]
          /\ m3 = [type |-> "capabilities"] /\ m4 = [type |-> "update", config |-> mPendingConfig]
          /\ m5 = [type |-> "enable", id |-> last]
    OBVIOUS
  <1>4. /\ m1.type = "readConfig" /\ m2.type = "setConfig" /\ m3.type = "capabilities"
        /\ m4.type = "update" /\ m4.config = mPendingConfig
        /\ m5.type = "enable" /\ m5.id = last
    BY <1>3
  <1>5. MsgOK(m1) /\ MsgOK(m2) /\ MsgOK(m3) /\ MsgOK(m4) /\ MsgOK(m5)
    BY <1>4 DEF MsgOK, IsControlMsg, IsSetting, QueueInv
  <1>6. PICK p : p = <<m1, m2, m3>>
    OBVIOUS
  <1>7. controlQ' = p \o (IF n > 0 THEN <<m4>> ELSE <<>>) \o (IF enable THEN <<m5>> ELSE <<>>)
    <2>1. controlQ' = controlQ \o <<m1, m2, m3>> \o (IF n > 0 THEN <<m4>> ELSE <<>>)
                        \o (IF enable THEN <<m5>> ELSE <<>>)
      BY <1>1, <1>2, <1>3 DEF getApi
    <2>2. controlQ = <<>>
      BY DEF QueueInv
    <2>3. p \in Seq({m1, m2, m3})
      BY <1>6
    <2>4. <<>> \o p = p
      BY <2>3, ConcatEmptySeq
    <2> QED BY <1>6, <2>1, <2>2, <2>4
  <1>8. /\ QueueOK(p) /\ ~NoneWaits(p, "readConfig") /\ ~NoneWaits(p, "setConfig")
        /\ ~NoneWaits(p, "capabilities")
    <2>1. IsSeq(p)
      <3>1. p \in Seq({m1, m2, m3})
        BY <1>6
      <3> QED BY <3>1 DEF IsSeq
    <2>2. DOMAIN p = {1, 2, 3} /\ p[1] = m1 /\ p[2] = m2 /\ p[3] = m3
      BY <1>6
    <2>3. Follows(p)
      BY <1>4, <2>2 DEF Follows
    <2> QED BY <1>4, <1>5, <2>1, <2>2, <2>3 DEF QueueOK, NoneWaits
  <1> DEFINE Good(q) == /\ QueueOK(q) /\ ~NoneWaits(q, "readConfig") /\ ~NoneWaits(q, "setConfig")
                        /\ ~NoneWaits(q, "capabilities")
             Settles(q) == \A i, have, k : i \in DOMAIN mPendingConfig /\ mPendingConfig[i] = Setter(i)[k] =>
                             Settled(q, i, have, k)
  <1>9. PICK r : r = p \o (IF n > 0 THEN <<m4>> ELSE <<>>) /\ Good(r) /\ Settles(r)
    <2> DEFINE more == IF n > 0 THEN <<m4>> ELSE <<>>
    <2>1. IsSeq(p)
      BY <1>8 DEF QueueOK
    <2>2. CASE n > 0
      <3>1. p \o more = Append(p, m4)
        BY <2>1, <2>2, PostedTogether
      <3>2. Good(Append(p, m4))
        BY <1>4, <1>5, <1>8, <2>1, QueuePosted, WaitsPosted
      <3>3. ASSUME NEW i, NEW have, NEW k, i \in DOMAIN mPendingConfig, mPendingConfig[i] = Setter(i)[k]
            PROVE  Settled(Append(p, m4), i, have, k)
        <4>1. Touches(m4, i) /\ m4.config[i] = Setter(i)[k] /\ m4.type # "readConfig"
          BY <1>4, <3>3 DEF Touches
        <4> QED BY <2>1, <4>1, SettledPosted
      <3> QED BY <3>1, <3>2, <3>3
    <2>3. CASE ~(n > 0)
      <3>1. p \o more = p
        BY <2>1, <2>3, PostedTogether
      <3>2. DOMAIN mPendingConfig = {}
        <4>1. n = 0
          BY <2>3
        <4> QED BY <1>1, <4>1, FS_EmptySet DEF VoteInv
      <3> QED BY <1>8, <3>1, <3>2
    <2> QED BY <2>2, <2>3
  <1>10. Good(controlQ') /\ Settles(controlQ')
    <2>1. IsSeq(r)
      BY <1>9 DEF QueueOK
    <2>2. CASE enable
      <3>1. controlQ' = Append(r, m5)
        BY <1>7, <1>9, <2>1, <2>2, PostedTogether
      <3>2. Good(Append(r, m5))
        BY <1>4, <1>5, <1>9, <2>1, QueuePosted, WaitsPosted
      <3>3. ASSUME NEW i, NEW have, NEW k, Settled(r, i, have, k)
            PROVE  Settled(Append(r, m5), i, have, k)
        <4>1. ~Touches(m5, i) /\ m5.type # "readConfig"
          BY <1>4 DEF Touches
        <4> QED BY <2>1, <3>3, <4>1, SettledPosted
      <3> QED BY <1>9, <3>1, <3>2, <3>3
    <2>3. CASE ~enable
      <3>1. controlQ' = r
        BY <1>7, <1>9, <2>1, <2>3, PostedTogether
      <3> QED BY <1>9, <3>1
    <2> QED BY <2>2, <2>3
  <1> QED BY <1>10

(* What a setter's update is, and when it is posted.                       *)
LEMMA SetterPosts ==
  ASSUME VoteInv, QueueInv, NEW u \in Updates, updateConfiguration(u[1], u[2])
  PROVE  /\ u[1] \in Settable /\ u[2] \in DOMAIN Setter(u[1]) /\ UNCHANGED mApi
         /\ wanted' = [i \in {u[1]} \cup DOMAIN wanted |-> IF i = u[1] THEN u[2] ELSE wanted[i]]
         /\ UNCHANGED <<engineVars, capVars, mGnssCbIface, mPowerVoteId, mGps_conf>>
         /\ IsSetting(mPendingConfig')
         /\ ~mApi =>
              /\ UNCHANGED controlQ
              /\ DOMAIN mPendingConfig' = {u[1]} \cup DOMAIN mPendingConfig
              /\ \A i \in DOMAIN mPendingConfig' \ {Server} :
                   mPendingConfig'[i] = IF i = u[1] THEN Setter(i)[u[2]] ELSE mPendingConfig[i]
         /\ mApi =>
              \E config, m :
                /\ DOMAIN config = {u[1]} /\ config[u[1]] = Setter(u[1])[u[2]]
                /\ m.type = "update" /\ m.config = config /\ MsgOK(m)
                /\ \/ config = mConfig /\ UNCHANGED <<mConfig, controlQ>>
                   \/ mConfig' = config /\ controlQ' = Append(controlQ, m)
  <1>1. PICK item, number : item = u[1] /\ number = u[2]
    OBVIOUS
  <1>2. item \in Settable
    BY <1>1, ControlAssumption DEF UpdatedItems
  <1>3. PICK config, m : /\ config = [i \in {item} |-> Setter(i)[number]]
                         /\ m = [type |-> "update", config |-> config]
    OBVIOUS
  <1>4. DOMAIN config = {item} /\ config[item] = Setter(item)[number]
    BY <1>3
  <1>5. updateConfiguration(item, number)
    BY <1>1
  <1>6. number \in DOMAIN Setter(item)
    BY <1>5 DEF updateConfiguration
  <1>7. IsSetting(config)
    BY <1>2, <1>4, <1>6 DEF IsSetting, IsConfig
  <1>8. m.type = "update" /\ m.config = config /\ MsgOK(m)
    BY <1>3, <1>7 DEF MsgOK, IsControlMsg, IsSetting
  <1>9. /\ wanted' = [i \in {item} \cup DOMAIN wanted |-> IF i = item THEN number ELSE wanted[i]]
        /\ UNCHANGED <<mApi, engineVars, capVars, mGnssCbIface, mPowerVoteId, mGps_conf>>
    BY <1>5 DEF updateConfiguration
  <1>10. CASE mApi
    <2>1. locAPIGnssUpdateConfig(config) /\ UNCHANGED mPendingConfig
      BY <1>3, <1>5, <1>10 DEF updateConfiguration
    <2>2. IsSetting(mPendingConfig')
      BY <2>1 DEF QueueInv
    <2>3. \/ config = mConfig /\ UNCHANGED <<mConfig, controlQ>>
          \/ mConfig' = config /\ controlQ' = Append(controlQ, m)
      BY <1>3, <1>4, <2>1 DEF locAPIGnssUpdateConfig, gnssUpdateConfigCommand
    <2> QED BY <1>1, <1>2, <1>4, <1>6, <1>8, <1>9, <1>10, <2>2, <2>3
  <1>11. CASE ~mApi
    <2>1. mPendingConfig' = pendingConfig(config) /\ UNCHANGED controlQ
      BY <1>3, <1>5, <1>11 DEF updateConfiguration
    <2>2. PICK pending : pending = pendingConfig(config)
      OBVIOUS
    <2>3. DOMAIN pending = {item} \cup DOMAIN mPendingConfig
      BY <1>4, <2>2 DEF pendingConfig
    <2>4. DOMAIN pending \subseteq Settable
      BY <1>2, <2>3 DEF QueueInv, IsSetting
    <2>5. ASSUME NEW i \in DOMAIN pending
          PROVE  \E n \in DOMAIN Setter(i) : pending[i] = Setter(i)[n]
      <3>1. CASE i # item
        <4>1. i \in DOMAIN mPendingConfig /\ pending[i] = mPendingConfig[i]
          BY <1>4, <2>2, <2>3, <2>5, <3>1 DEF pendingConfig
        <4> QED BY <4>1 DEF QueueInv, IsSetting, IsConfig
      <3>2. CASE i = item /\ i = Server
        <4>1. pending[i] = setServer[0]
          BY <1>4, <2>2, <2>3, <2>5, <3>2 DEF pendingConfig
        <4>2. Setter(i) = setServer
          BY <3>2 DEF Setter, Server
        <4>3. 0 \in DOMAIN setServer
          BY DEF setServer
        <4> QED BY <4>1, <4>2, <4>3
      <3>3. CASE i = item /\ i # Server
        <4>1. pending[i] = Setter(i)[number]
          BY <1>4, <2>2, <2>3, <2>5, <3>3 DEF pendingConfig
        <4> QED BY <1>6, <3>3, <4>1
      <3> QED BY <3>1, <3>2, <3>3
    <2>6. IsSetting(mPendingConfig')
      BY <2>1, <2>2, <2>4, <2>5 DEF IsSetting, IsConfig
    <2>7. \A i \in DOMAIN pending \ {Server} :
            pending[i] = IF i = item THEN Setter(i)[number] ELSE mPendingConfig[i]
      BY <1>4, <2>2, <2>3 DEF pendingConfig
    <2> QED BY <1>1, <1>2, <1>6, <1>9, <1>11, <2>1, <2>2, <2>3, <2>6, <2>7
  <1> QED BY <1>10, <1>11

(* The framework's other calls: the API is created, or at most an enable   *)
(* or a disable is posted.                                                 *)
LEMMA CallsPost ==
  ASSUME VoteInv, QueueInv, setCallback \/ setGnssNiCb \/ cleanup
  PROVE  /\ UNCHANGED <<engineVars, mPowerVoteId, mGps_conf, wanted, mCached>>
         /\ UNCHANGED <<told, mGnssCbIface>> \/ told' = mCached
         /\ mApi'
         /\ ~mApi => \E enable \in BOOLEAN : getApi(enable)
         /\ mApi => /\ UNCHANGED <<mPendingConfig, mConfig>>
                    /\ \/ UNCHANGED controlQ
                       \/ \E m : /\ controlQ' = Append(controlQ, m) /\ MsgOK(m)
                                 /\ m.type \in {"enable", "disable"}
  <1>1. ASSUME locAPIEnable
        PROVE  \/ UNCHANGED controlQ
               \/ \E m : /\ controlQ' = Append(controlQ, m) /\ MsgOK(m)
                         /\ m.type \in {"enable", "disable"}
    <2>1. CASE mEnabled
      BY <1>1, <2>1 DEF locAPIEnable
    <2>2. CASE ~mEnabled
      <3>1. PICK id \in 1..(IdWrap - 1) : id = generateSessionId(1)
        BY SessionIdInRange DEF VoteInv
      <3>2. PICK m : m = [type |-> "enable", id |-> id] /\ controlQ' = Append(controlQ, m)
        BY <1>1, <2>2, <3>1 DEF locAPIEnable, enableCommand
      <3>3. m.type = "enable" /\ m.id = id /\ id > 0
        BY <3>2, ControlAssumption
      <3> QED BY <3>2, <3>3 DEF MsgOK, IsControlMsg
    <2> QED BY <2>1, <2>2
  <1>2. ASSUME locAPIDisable
        PROVE  \/ UNCHANGED controlQ
               \/ \E m : /\ controlQ' = Append(controlQ, m) /\ MsgOK(m)
                         /\ m.type \in {"enable", "disable"}
    <2>1. CASE ~(mEnabled /\ ctrlSession > 0)
      BY <1>2, <2>1 DEF locAPIDisable
    <2>2. CASE mEnabled /\ ctrlSession > 0
      <3>1. PICK m : m = [type |-> "disable", id |-> ctrlSession] /\ controlQ' = Append(controlQ, m)
        BY <1>2, <2>2 DEF locAPIDisable, disableCommand
      <3>2. m.type = "disable" /\ m.id = ctrlSession
        BY <3>1
      <3>3. ctrlSession \in 1..(IdWrap - 1)
        BY <2>2, ControlAssumption DEF VoteInv, Votes
      <3> QED BY <3>1, <3>2, <3>3 DEF MsgOK, IsControlMsg
    <2> QED BY <2>1, <2>2
  <1>3. CASE setCallback
    <2>1. /\ UNCHANGED <<engineVars, mPowerVoteId, mGps_conf, wanted, mCached>> /\ told' = mCached
          /\ IF mApi THEN locAPIEnable /\ UNCHANGED <<mApi, mConfig, mPendingConfig>> ELSE getApi(TRUE)
      BY <1>3 DEF setCallback
    <2>2. mApi'
      BY <2>1 DEF getApi
    <2> QED BY <1>1, <2>1, <2>2
  <1>4. CASE setGnssNiCb
    <2>1. /\ UNCHANGED <<engineVars, capVars, mGnssCbIface, mPowerVoteId, mGps_conf, wanted>>
          /\ ~mApi /\ getApi(FALSE)
      BY <1>4 DEF setGnssNiCb
    <2>2. mApi'
      BY <2>1 DEF getApi
    <2> QED BY <2>1, <2>2 DEF capVars
  <1>5. CASE cleanup
    <2>1. /\ UNCHANGED <<engineVars, capVars, mGnssCbIface, mPowerVoteId, mGps_conf, wanted>>
          /\ UNCHANGED <<mApi, mPendingConfig, mConfig>> /\ mApi /\ locAPIDisable
      BY <1>5 DEF cleanup
    <2> QED BY <1>2, <2>1 DEF capVars
  <1> QED BY <1>3, <1>4, <1>5

(* A handler takes the head of the queue.                                  *)
Handlers ==
  \/ MsgEnableGnss \/ MsgDisableGnss \/ MsgReadConfig \/ MsgRequestCapabilities
  \/ ControlSetConfig \/ MsgGnssUpdateConfig

LEMMA HandlersTake ==
  ASSUME Handlers
  PROVE  /\ controlQ # <<>> /\ controlQ' = Tail(controlQ)
         /\ UNCHANGED <<mApi, mGnssCbIface, mPendingConfig, mConfig, wanted, engineRuns>>
  <1>1. \E t : ControlHandles(t)
    BY DEF Handlers, MsgEnableGnss, MsgDisableGnss, MsgReadConfig, MsgRequestCapabilities,
           ControlSetConfig, MsgGnssUpdateConfig
  <1>2. UNCHANGED engineRuns
    BY DEF Handlers, MsgEnableGnss, MsgDisableGnss, MsgReadConfig, MsgRequestCapabilities,
           ControlSetConfig, MsgGnssUpdateConfig, CallEngine, engineVars
  <1> QED BY <1>1, <1>2 DEF ControlHandles, clientVars

LEMMA QueueStep ==
  ASSUME VoteInv, QueueInv, [ControlNext]_controlVars
  PROVE  QueueInv'
  <1>1. CASE UNCHANGED controlVars
    BY <1>1 DEF controlVars, clientVars, engineVars, QueueInv
  <1>2. CASE EngineDies
    BY <1>2 DEF EngineDies, clientVars, QueueInv
  <1>3. CASE EngineComesUp
    <2>1. PICK m : m = [type |-> "setConfig"] /\ controlQ' = Append(controlQ, m)
      BY <1>3 DEF EngineComesUp
    <2>2. m.type = "setConfig" /\ MsgOK(m)
      BY <2>1 DEF MsgOK, IsControlMsg
    <2>3. QueueOK(controlQ')
      BY <2>1, <2>2, QueuePosted DEF QueueInv
    <2>4. ~engineRuns /\ UNCHANGED <<mApi, mPendingConfig>>
      BY <1>3 DEF EngineComesUp, clientVars
    <2> QED BY <2>3, <2>4 DEF QueueInv
  <1>4. CASE Handlers
    <2>1. QueueOK(controlQ') /\ UNCHANGED <<mApi, mPendingConfig>> /\ mApi
      BY <1>4, HandlersTake, QueueTaken DEF QueueInv
    <2> QED BY <2>1 DEF QueueInv
  <1>5. CASE \E u \in Updates : updateConfiguration(u[1], u[2])
    <2>1. PICK u \in Updates : updateConfiguration(u[1], u[2])
      BY <1>5
    <2>2. /\ UNCHANGED <<mApi, engineVars>> /\ IsSetting(mPendingConfig')
          /\ ~mApi => UNCHANGED controlQ
          /\ mApi => \E m : /\ m.type = "update" /\ MsgOK(m)
                            /\ UNCHANGED controlQ \/ controlQ' = Append(controlQ, m)
      BY <2>1, SetterPosts
    <2>3. QueueOK(controlQ')
      <3>1. CASE UNCHANGED controlQ
        BY <3>1 DEF QueueInv
      <3>2. CASE controlQ' # controlQ
        <4>1. PICK m : m.type = "update" /\ MsgOK(m) /\ controlQ' = Append(controlQ, m)
          BY <2>2, <3>2
        <4> QED BY <4>1, QueuePosted DEF QueueInv
      <3> QED BY <3>1, <3>2
    <2> QED BY <2>2, <2>3 DEF QueueInv, engineVars
  <1>6. CASE setCallback \/ setGnssNiCb \/ cleanup
    <2>1. CASE mApi
      <3>1. /\ mApi' /\ UNCHANGED mPendingConfig
            /\ \/ UNCHANGED controlQ
               \/ \E m : /\ controlQ' = Append(controlQ, m) /\ MsgOK(m)
                         /\ m.type \in {"enable", "disable"}
        BY <1>6, <2>1, CallsPost
      <3>2. QueueOK(controlQ')
        BY <3>1, QueuePosted DEF QueueInv
      <3> QED BY <3>1, <3>2 DEF QueueInv
    <2>2. CASE ~mApi
      <3>1. PICK enable \in BOOLEAN : getApi(enable)
        BY <1>6, <2>2, CallsPost
      <3>2. QueueOK(controlQ')
        BY <2>2, <3>1, ApiPosts
      <3>3. mApi' /\ mPendingConfig' = << >>
        BY <3>1 DEF getApi
      <3>4. IsSetting(mPendingConfig')
        BY <3>3 DEF IsSetting, IsConfig
      <3> QED BY <3>2, <3>3, <3>4 DEF QueueInv
    <2> QED BY <2>1, <2>2
  <1> QED BY <1>1, <1>2, <1>3, <1>4, <1>5, <1>6 DEF ControlNext, Handlers

-----------------------------------------------------------------------------
(* Calls of the engine: what they leave alone.                             *)
Spared(items, conf, bad, newConf, newBad) ==
  \A i \in ConfItems \ items : newConf[i] = conf[i] /\ (i \in newBad <=> i \in bad)

LEMMA EnableCalls ==
  ASSUME MsgEnableGnss
  PROVE  /\ mPowerVoteId > 0 => UNCHANGED <<mPowerVoteId, engineConf, failed>>
         /\ ~(mPowerVoteId > 0) => /\ mPowerVoteId' = Head(controlQ).id
                                   /\ Lock \in failed' \/ engineConf'[Lock] = "NONE"
         /\ Spared({Lock}, engineConf, failed, engineConf', failed')
  <1>1. CASE mPowerVoteId > 0
    BY <1>1 DEF MsgEnableGnss, engineVars, Spared
  <1>2. CASE ~(mPowerVoteId > 0)
    <2>1. PICK bad \in SUBSET {Lock} :
            /\ engineConf' = [i \in ConfItems |-> IF i \in {Lock} \ bad THEN "NONE" ELSE engineConf[i]]
            /\ failed' = (failed \ {Lock}) \cup bad
      BY <1>2 DEF MsgEnableGnss, CallEngine
    <2>2. Lock \in ConfItems
      BY DEF ConfItems
    <2>3. mPowerVoteId' = Head(controlQ).id
      BY <1>2 DEF MsgEnableGnss
    <2> QED BY <1>2, <2>1, <2>2, <2>3 DEF Spared
  <1> QED BY <1>1, <1>2

LEMMA DisableCalls ==
  ASSUME MsgDisableGnss
  PROVE  /\ mPowerVoteId # Head(controlQ).id => UNCHANGED <<mPowerVoteId, engineConf, failed>>
         /\ mPowerVoteId = Head(controlQ).id =>
              /\ mPowerVoteId' = 0
              /\ Lock \in failed' \/ engineConf'[Lock] = ToEngine(Lock, mGps_conf[Lock])
         /\ Spared({Lock}, engineConf, failed, engineConf', failed')
  <1>1. CASE mPowerVoteId # Head(controlQ).id
    BY <1>1 DEF MsgDisableGnss, engineVars, Spared
  <1>2. CASE mPowerVoteId = Head(controlQ).id
    <2>1. PICK bad \in SUBSET {Lock} :
            /\ engineConf' = [i \in ConfItems |->
                 IF i \in {Lock} \ bad THEN ToEngine(i, mGps_conf[i]) ELSE engineConf[i]]
            /\ failed' = (failed \ {Lock}) \cup bad
      BY <1>2 DEF MsgDisableGnss, CallEngine
    <2>2. Lock \in ConfItems
      BY DEF ConfItems
    <2>3. mPowerVoteId' = 0
      BY <1>2 DEF MsgDisableGnss
    <2> QED BY <1>2, <2>1, <2>2, <2>3 DEF Spared
  <1> QED BY <1>1, <1>2

LEMMA SetConfigCalls ==
  ASSUME ControlSetConfig
  PROVE  /\ \A i \in Resent : i \in failed' \/ engineConf'[i] = ToEngine(i, mGps_conf[i])
         /\ Spared(Resent \cup {Server}, engineConf, failed, engineConf', failed')
  <1>1. PICK items : items = Resent \cup ServerChanges(ToEngine(Server, mGps_conf[Server]))
    OBVIOUS
  <1>2. PICK bad \in SUBSET items :
          /\ engineConf' = [i \in ConfItems |->
               IF i \in items \ bad THEN ToEngine(i, mGps_conf[i]) ELSE engineConf[i]]
          /\ failed' = (failed \ items) \cup bad
    BY <1>1 DEF ControlSetConfig, CallEngine
  <1>3. Resent \subseteq items /\ items \subseteq Resent \cup {Server}
    BY <1>1 DEF ServerChanges
  <1>4. Resent \subseteq ConfItems
    BY DEF Resent, ConfItems
  <1> QED BY <1>2, <1>3, <1>4 DEF Spared

LEMMA UpdateCalls ==
  ASSUME MsgGnssUpdateConfig
  PROVE  /\ \A i \in ConfItems :
              mGps_conf'[i] = IF i \in Stores(Head(controlQ).config)
                                THEN Stored(i, Head(controlQ).config[i]) ELSE mGps_conf[i]
         /\ \A i \in Calls(Head(controlQ).config) \cap ConfItems :
              i \in failed' \/ engineConf'[i] = Head(controlQ).config[i]
         /\ Spared(Calls(Head(controlQ).config), engineConf, failed, engineConf', failed')
  <1>1. PICK config, items : config = Head(controlQ).config /\ items = Calls(config)
    OBVIOUS
  <1>2. mGps_conf' = [i \in ConfItems |-> IF i \in Stores(config) THEN Stored(i, config[i]) ELSE mGps_conf[i]]
    BY <1>1 DEF MsgGnssUpdateConfig
  <1>3. PICK bad \in SUBSET items :
          /\ engineConf' = [i \in ConfItems |-> IF i \in items \ bad THEN config[i] ELSE engineConf[i]]
          /\ failed' = (failed \ items) \cup bad
    BY <1>1 DEF MsgGnssUpdateConfig, CallEngine
  <1>4. \A i \in items \cap ConfItems : i \in failed' \/ engineConf'[i] = config[i]
    BY <1>3
  <1>5. Spared(items, engineConf, failed, engineConf', failed')
    BY <1>3 DEF Spared
  <1> QED BY <1>1, <1>2, <1>4, <1>5

(* Which actions leave the engine and mGps_conf alone.                     *)
LEMMA CallersSpare ==
  ASSUME VoteInv, QueueInv, setCallback \/ setGnssNiCb \/ cleanup
         \/ (\E u \in Updates : updateConfiguration(u[1], u[2])),
         NEW t, t \notin {"enable", "disable", "update"}
  PROVE  /\ UNCHANGED <<engineVars, mPowerVoteId, mGps_conf>>
         /\ mApi => mApi' /\ (NoneWaits(controlQ', t) <=> NoneWaits(controlQ, t))
  <1>1. /\ UNCHANGED <<engineVars, mPowerVoteId, mGps_conf>>
        /\ mApi => /\ mApi'
                   /\ \/ UNCHANGED controlQ
                      \/ \E m : /\ controlQ' = Append(controlQ, m)
                                /\ m.type \in {"enable", "disable", "update"}
    <2>1. CASE setCallback \/ setGnssNiCb \/ cleanup
      BY <2>1, CallsPost
    <2>2. CASE \E u \in Updates : updateConfiguration(u[1], u[2])
      <3>1. PICK u \in Updates : updateConfiguration(u[1], u[2])
        BY <2>2
      <3> QED BY <3>1, SetterPosts
    <2> QED BY <2>1, <2>2
  <1>2. ASSUME mApi
        PROVE  NoneWaits(controlQ', t) <=> NoneWaits(controlQ, t)
    <2>1. CASE UNCHANGED controlQ
      BY <2>1
    <2>2. CASE \E m : controlQ' = Append(controlQ, m) /\ m.type \in {"enable", "disable", "update"}
      <3>1. PICK m : controlQ' = Append(controlQ, m) /\ m.type # t
        BY <2>2
      <3>2. IsSeq(controlQ)
        BY DEF QueueInv, QueueOK
      <3>3. NoneWaits(Append(controlQ, m), t) <=> NoneWaits(controlQ, t)
        BY <3>1, <3>2, WaitsPosted
      <3> QED BY <3>1, <3>3
    <2> QED BY <1>1, <1>2, <2>1, <2>2
  <1> QED BY <1>1, <1>2

-----------------------------------------------------------------------------
(* The lock.  Until MsgReadConfig is handled the stored lock is 0, and     *)
(* gps.conf gives it no other value; so the lock the engine has is always  *)
(* the stored one, or none while there is a vote.                          *)
NoLockInGpsConf == Lock \in DOMAIN GpsConf => GpsConf[Lock] = 0

LockInv ==
  /\ ~mApi \/ ~NoneWaits(controlQ, "readConfig") => mGps_conf[Lock] = 0
  /\ Lock \notin failed =>
       engineConf[Lock] = IF mPowerVoteId > 0 THEN "NONE" ELSE GpsLockOf(mGps_conf[Lock])

LEMMA LockStart ==
  ASSUME ControlInit
  PROVE  LockInv
  <1>1. Lock \in ConfItems
    BY DEF ConfItems
  <1>2. mGps_conf[Lock] = 0 /\ engineConf[Lock] = ToEngine(Lock, 0) /\ mPowerVoteId = 0
    BY <1>1 DEF ControlInit
  <1>3. ToEngine(Lock, 0) = GpsLockOf(0)
    BY DEF ToEngine, Lock, Plain
  <1> QED BY <1>2, <1>3 DEF LockInv

LEMMA LockHandled ==
  ASSUME NoLockInGpsConf, VoteInv, QueueInv, LockInv, Handlers
  PROVE  LockInv'
  <1> USE DEF Handlers
  <1>1. /\ mApi /\ mApi' /\ NoneWaits(controlQ', "readConfig") /\ MsgOK(Head(controlQ))
        /\ controlQ # <<>> /\ QueueOK(controlQ)
    <2>1. controlQ # <<>> /\ controlQ' = Tail(controlQ) /\ UNCHANGED mApi
      BY HandlersTake
    <2> QED BY <2>1, QueueTaken DEF QueueInv
  <1>2. Lock \in ConfItems /\ Lock \notin Resent /\ Lock # Server /\ Lock \in Injected \cup {Lock}
    BY DEF ConfItems, Resent, Injected, Plain, Lock, Server
  <1>3. \A n : ToEngine(Lock, n) = GpsLockOf(n)
    BY DEF ToEngine, Lock, Plain
  <1>4. CASE MsgEnableGnss
    <2>1. UNCHANGED mGps_conf /\ Head(controlQ).type = "enable"
      BY <1>4 DEF MsgEnableGnss, ControlHandles
    <2>2. Head(controlQ).id > 0
      BY <1>1, <2>1, ControlAssumption DEF MsgOK, IsControlMsg
    <2>3. CASE mPowerVoteId > 0
      BY <1>1, <1>4, <2>1, <2>3, EnableCalls DEF LockInv
    <2>4. CASE ~(mPowerVoteId > 0)
      BY <1>1, <1>4, <2>1, <2>2, <2>4, EnableCalls DEF LockInv
    <2> QED BY <2>3, <2>4
  <1>5. CASE MsgDisableGnss
    <2>1. UNCHANGED mGps_conf
      BY <1>5 DEF MsgDisableGnss
    <2>2. CASE mPowerVoteId # Head(controlQ).id
      BY <1>1, <1>5, <2>1, <2>2, DisableCalls DEF LockInv
    <2>3. CASE mPowerVoteId = Head(controlQ).id
      BY <1>1, <1>3, <1>5, <2>1, <2>3, DisableCalls DEF LockInv
    <2> QED BY <2>2, <2>3
  <1>6. CASE MsgReadConfig
    <2>1. /\ mGps_conf' = gpsConfRead /\ UNCHANGED <<engineConf, failed, mPowerVoteId>>
          /\ Head(controlQ).type = "readConfig"
      BY <1>6 DEF MsgReadConfig, ControlHandles, engineVars
    <2>2. mGps_conf[Lock] = 0
      <3>1. ~NoneWaits(controlQ, "readConfig")
        BY <1>1, <2>1, WaitsTaken DEF QueueOK
      <3> QED BY <3>1 DEF LockInv
    <2>3. Defaults[Lock] = 0
      BY <1>2 DEF Defaults, Lock
    <2>4. gpsConfRead[Lock] = 0
      BY <1>2, <2>3 DEF gpsConfRead, NoLockInGpsConf
    <2> QED BY <1>1, <2>1, <2>2, <2>4 DEF LockInv
  <1>7. CASE MsgRequestCapabilities
    BY <1>1, <1>7 DEF MsgRequestCapabilities, engineVars, LockInv
  <1>8. CASE ControlSetConfig
    <2>1. UNCHANGED <<mPowerVoteId, mGps_conf>>
      BY <1>8 DEF ControlSetConfig
    <2>2. engineConf'[Lock] = engineConf[Lock] /\ (Lock \in failed' <=> Lock \in failed)
      BY <1>2, <1>8, SetConfigCalls DEF Spared
    <2> QED BY <1>1, <2>1, <2>2 DEF LockInv
  <1>9. CASE MsgGnssUpdateConfig
    <2>1. UNCHANGED mPowerVoteId /\ Head(controlQ).type = "update"
      BY <1>9 DEF MsgGnssUpdateConfig, ControlHandles
    <2>2. PICK config : config = Head(controlQ).config
      OBVIOUS
    <2>3. IsSetting(config)
      BY <1>1, <2>1, <2>2 DEF MsgOK
    <2>4. Lock \in Stores(config) <=> Lock \in DOMAIN config
      BY DEF Stores
    <2>5. Lock \in Calls(config) <=> Lock \in DOMAIN config /\ mPowerVoteId = 0
      BY <1>2 DEF Calls, ServerChanges
    <2>6. mGps_conf'[Lock] = IF Lock \in DOMAIN config THEN Stored(Lock, config[Lock]) ELSE mGps_conf[Lock]
      BY <1>2, <1>9, <2>2, <2>4, UpdateCalls
    <2>7. mPowerVoteId \in Votes
      BY ReplayEnds DEF VoteInv
    <2>8. CASE Lock \in Calls(config)
      <3>1. Lock \in failed' \/ engineConf'[Lock] = config[Lock]
        BY <1>2, <1>9, <2>2, <2>8, UpdateCalls
      <3>2. PICK n \in DOMAIN Setter(Lock) : config[Lock] = Setter(Lock)[n]
        BY <2>3, <2>5, <2>8 DEF IsSetting, IsConfig
      <3>3. ToEngine(Lock, Stored(Lock, Setter(Lock)[n])) = Setter(Lock)[n]
        BY <1>2, ToldAgain
      <3>4. GpsLockOf(mGps_conf'[Lock]) = config[Lock]
        BY <1>3, <2>5, <2>6, <2>8, <3>2, <3>3
      <3> QED BY <1>1, <2>1, <2>5, <2>8, <3>1, <3>4 DEF LockInv
    <2>9. CASE Lock \notin Calls(config)
      <3>1. engineConf'[Lock] = engineConf[Lock] /\ (Lock \in failed' <=> Lock \in failed)
        BY <1>2, <1>9, <2>2, <2>9, UpdateCalls DEF Spared
      <3>2. mPowerVoteId > 0 \/ mGps_conf'[Lock] = mGps_conf[Lock]
        BY <2>5, <2>6, <2>7, <2>9, ControlAssumption DEF Votes
      <3> QED BY <1>1, <2>1, <3>1, <3>2 DEF LockInv
    <2> QED BY <2>8, <2>9
  <1> QED BY <1>4, <1>5, <1>6, <1>7, <1>8, <1>9

LEMMA LockStep ==
  ASSUME NoLockInGpsConf, VoteInv, QueueInv, LockInv, [ControlNext]_controlVars
  PROVE  LockInv'
  <1>1. CASE UNCHANGED controlVars
    BY <1>1 DEF controlVars, clientVars, engineVars, LockInv
  <1>2. CASE EngineDies
    <2>1. UNCHANGED <<mApi, controlQ, mGps_conf, mPowerVoteId, failed>>
      BY <1>2 DEF EngineDies, clientVars
    <2>2. Lock \in ConfItems /\ Lock \notin Resent
      BY DEF ConfItems, Resent, Injected, Plain, Lock
    <2>3. engineConf'[Lock] = engineConf[Lock]
      BY <1>2, <2>2 DEF EngineDies
    <2> QED BY <2>1, <2>3 DEF LockInv
  <1>3. CASE EngineComesUp
    <2>1. UNCHANGED <<mApi, mGps_conf, mPowerVoteId, failed, engineConf>>
      BY <1>3 DEF EngineComesUp, clientVars
    <2>2. PICK m : m = [type |-> "setConfig"] /\ controlQ' = Append(controlQ, m)
      BY <1>3 DEF EngineComesUp
    <2>3. m.type # "readConfig" /\ IsSeq(controlQ)
      BY <2>2 DEF QueueInv, QueueOK
    <2>4. NoneWaits(controlQ', "readConfig") <=> NoneWaits(controlQ, "readConfig")
      BY <2>2, <2>3, WaitsPosted
    <2> QED BY <2>1, <2>4 DEF LockInv
  <1>4. CASE Handlers
    BY <1>4, LockHandled
  <1>5. CASE setCallback \/ setGnssNiCb \/ cleanup \/ (\E u \in Updates : updateConfiguration(u[1], u[2]))
    <2>1. UNCHANGED <<engineConf, failed, mPowerVoteId, mGps_conf>>
      BY <1>5, CallersSpare DEF engineVars
    <2>2. CASE ~mApi
      BY <2>1, <2>2 DEF LockInv
    <2>3. CASE mApi
      <3>1. mApi'
        BY <1>5, <2>3, CallersSpare
      <3>2. NoneWaits(controlQ', "readConfig") <=> NoneWaits(controlQ, "readConfig")
        BY <1>5, <2>3, CallersSpare
      <3> QED BY <2>1, <2>3, <3>1, <3>2 DEF LockInv
    <2> QED BY <2>2, <2>3
  <1> QED BY <1>1, <1>2, <1>3, <1>4, <1>5 DEF ControlNext, Handlers

-----------------------------------------------------------------------------
(* The engine and mGps_conf.  Unless MsgSetConfig waits, the running       *)
(* engine has what mGps_conf says of the items that are re-sent; and       *)
(* unless the request for capabilities waits, the cached ones are those    *)
(* of mGps_conf, which the framework's callback was told.                  *)
ResentInv ==
  mApi /\ engineRuns /\ NoneWaits(controlQ, "setConfig") =>
    \A i \in Resent \ failed : engineConf[i] = ToEngine(i, mGps_conf[i])

CapInv ==
  /\ mGnssCbIface => told = mCached
  /\ mApi /\ NoneWaits(controlQ, "capabilities") => mCached = <<getCapabilities(mGps_conf)>>

LEMMA ResentHandled ==
  ASSUME QueueInv, ResentInv, Handlers
  PROVE  ResentInv'
  <1> USE DEF Handlers
  <1>1. /\ mApi /\ UNCHANGED <<mApi, engineRuns>> /\ MsgOK(Head(controlQ))
        /\ controlQ # <<>> /\ controlQ' = Tail(controlQ)
        /\ Head(controlQ).type = "readConfig" => ~NoneWaits(controlQ', "setConfig")
        /\ NoneWaits(controlQ, "setConfig") <=>
             NoneWaits(controlQ', "setConfig") /\ Head(controlQ).type # "setConfig"
    <2>1. controlQ # <<>> /\ controlQ' = Tail(controlQ) /\ UNCHANGED <<mApi, engineRuns>>
      BY HandlersTake
    <2> QED BY <2>1, QueueTaken, WaitsTaken DEF QueueInv, QueueOK
  <1>2. Lock \notin Resent /\ Resent \subseteq ConfItems /\ Resent \cap Settable \subseteq Injected
    BY DEF Resent, ConfItems, Settable, Injected, Plain, Local, Lock, Server
  <1>3. ASSUME Head(controlQ).type # "setConfig", UNCHANGED mGps_conf,
               Spared({Lock}, engineConf, failed, engineConf', failed')
        PROVE  ResentInv'
    <2>1. \A i \in Resent : engineConf'[i] = engineConf[i] /\ (i \in failed' <=> i \in failed)
      BY <1>2, <1>3 DEF Spared
    <2> QED BY <1>1, <1>3, <2>1 DEF ResentInv
  <1>4. CASE MsgEnableGnss
    <2>1. Head(controlQ).type = "enable" /\ UNCHANGED mGps_conf
      BY <1>4 DEF MsgEnableGnss, ControlHandles
    <2> QED BY <1>3, <1>4, <2>1, EnableCalls
  <1>5. CASE MsgDisableGnss
    <2>1. Head(controlQ).type = "disable" /\ UNCHANGED mGps_conf
      BY <1>5 DEF MsgDisableGnss, ControlHandles
    <2> QED BY <1>3, <1>5, <2>1, DisableCalls
  <1>6. CASE MsgReadConfig
    <2>1. Head(controlQ).type = "readConfig"
      BY <1>6 DEF MsgReadConfig, ControlHandles
    <2> QED BY <1>1, <2>1 DEF ResentInv
  <1>7. CASE MsgRequestCapabilities
    <2>1. Head(controlQ).type = "capabilities" /\ UNCHANGED <<mGps_conf, engineConf, failed>>
      BY <1>7 DEF MsgRequestCapabilities, ControlHandles, engineVars
    <2> QED BY <1>3, <2>1 DEF Spared
  <1>8. CASE ControlSetConfig
    <2>1. UNCHANGED mGps_conf
      BY <1>8 DEF ControlSetConfig
    <2> QED BY <1>8, <2>1, SetConfigCalls DEF ResentInv
  <1>9. CASE MsgGnssUpdateConfig
    <2>1. Head(controlQ).type = "update"
      BY <1>9 DEF MsgGnssUpdateConfig, ControlHandles
    <2>2. PICK config : config = Head(controlQ).config
      OBVIOUS
    <2>3. IsSetting(config)
      BY <1>1, <2>1, <2>2 DEF MsgOK
    <2>4. ASSUME NEW i \in Resent \ failed', NoneWaits(controlQ', "setConfig"), engineRuns'
          PROVE  engineConf'[i] = ToEngine(i, mGps_conf'[i])
      <3>1. mGps_conf'[i] = IF i \in DOMAIN config THEN Stored(i, config[i]) ELSE mGps_conf[i]
        BY <1>2, <1>9, <2>2, UpdateCalls DEF Stores
      <3>2. CASE i \in Calls(config)
        <4>1. engineConf'[i] = config[i] /\ i \in DOMAIN config
          BY <1>2, <1>9, <2>2, <2>4, <3>2, UpdateCalls DEF Calls, ServerChanges
        <4>2. i \in Injected
          BY <1>2, <2>3, <4>1 DEF IsSetting
        <4>3. PICK n \in DOMAIN Setter(i) : config[i] = Setter(i)[n]
          BY <2>3, <4>1 DEF IsSetting, IsConfig
        <4>4. ToEngine(i, Stored(i, Setter(i)[n])) = Setter(i)[n]
          BY <4>2, ToldAgain
        <4> QED BY <3>1, <4>1, <4>3, <4>4
      <3>3. CASE i \notin Calls(config)
        <4>1. mGps_conf'[i] = mGps_conf[i]
          BY <3>1, <3>3 DEF Calls
        <4>2. engineConf'[i] = engineConf[i] /\ i \notin failed
          BY <1>2, <1>9, <2>2, <2>4, <3>3, UpdateCalls DEF Spared
        <4>3. engineConf[i] = ToEngine(i, mGps_conf[i])
          BY <1>1, <2>1, <2>4, <4>2 DEF ResentInv
        <4> QED BY <4>1, <4>2, <4>3
      <3> QED BY <3>2, <3>3
    <2> QED BY <2>4 DEF ResentInv
  <1> QED BY <1>4, <1>5, <1>6, <1>7, <1>8, <1>9

LEMMA ResentStep ==
  ASSUME VoteInv, QueueInv, ResentInv, [ControlNext]_controlVars
  PROVE  ResentInv'
  <1>1. CASE UNCHANGED controlVars
    BY <1>1 DEF controlVars, clientVars, engineVars, ResentInv
  <1>2. CASE EngineDies
    BY <1>2 DEF EngineDies, ResentInv
  <1>3. CASE EngineComesUp
    <2>1. PICK m : m = [type |-> "setConfig"] /\ controlQ' = Append(controlQ, m)
      BY <1>3 DEF EngineComesUp
    <2>2. m.type = "setConfig" /\ IsSeq(controlQ)
      BY <2>1 DEF QueueInv, QueueOK
    <2>3. ~NoneWaits(controlQ', "setConfig")
      BY <2>1, <2>2, WaitsPosted
    <2> QED BY <2>3 DEF ResentInv
  <1>4. CASE Handlers
    BY <1>4, ResentHandled
  <1>5. CASE setCallback \/ setGnssNiCb \/ cleanup \/ (\E u \in Updates : updateConfiguration(u[1], u[2]))
    <2>1. UNCHANGED <<engineConf, engineRuns, failed, mGps_conf>>
      BY <1>5, CallersSpare DEF engineVars
    <2>2. CASE mApi
      <3>1. mApi'
        BY <1>5, <2>2, CallersSpare
      <3>2. NoneWaits(controlQ', "setConfig") <=> NoneWaits(controlQ, "setConfig")
        BY <1>5, <2>2, CallersSpare
      <3> QED BY <2>1, <2>2, <3>1, <3>2 DEF ResentInv
    <2>3. CASE ~mApi
      <3>1. CASE setCallback \/ setGnssNiCb \/ cleanup
        <4>1. PICK enable \in BOOLEAN : getApi(enable)
          BY <2>3, <3>1, CallsPost
        <4>2. ~NoneWaits(controlQ', "setConfig")
          BY <2>3, <4>1, ApiPosts
        <4> QED BY <4>2 DEF ResentInv
      <3>2. CASE \E u \in Updates : updateConfiguration(u[1], u[2])
        <4>1. UNCHANGED mApi
          BY <3>2, SetterPosts
        <4> QED BY <2>3, <4>1 DEF ResentInv
      <3> QED BY <1>5, <3>1, <3>2
    <2> QED BY <2>2, <2>3
  <1> QED BY <1>1, <1>2, <1>3, <1>4, <1>5 DEF ControlNext, Handlers

LEMMA CapHandled ==
  ASSUME QueueInv, CapInv, Handlers
  PROVE  CapInv'
  <1> USE DEF Handlers
  <1>1. /\ mApi /\ UNCHANGED <<mApi, mGnssCbIface>>
        /\ controlQ # <<>> /\ controlQ' = Tail(controlQ)
        /\ Head(controlQ).type = "readConfig" => ~NoneWaits(controlQ', "capabilities")
        /\ NoneWaits(controlQ, "capabilities") <=>
             NoneWaits(controlQ', "capabilities") /\ Head(controlQ).type # "capabilities"
    <2>1. controlQ # <<>> /\ controlQ' = Tail(controlQ) /\ UNCHANGED <<mApi, mGnssCbIface>>
      BY HandlersTake
    <2> QED BY <2>1, QueueTaken, WaitsTaken DEF QueueInv, QueueOK
  <1>2. ASSUME UNCHANGED capVars, Head(controlQ).type # "capabilities",
               getCapabilities(mGps_conf') = getCapabilities(mGps_conf)
        PROVE  CapInv'
    BY <1>1, <1>2 DEF capVars, CapInv
  <1>3. CASE MsgEnableGnss
    <2>1. UNCHANGED <<capVars, mGps_conf>> /\ Head(controlQ).type = "enable"
      BY <1>3 DEF MsgEnableGnss, ControlHandles
    <2> QED BY <1>2, <2>1
  <1>4. CASE MsgDisableGnss
    <2>1. UNCHANGED <<capVars, mGps_conf>> /\ Head(controlQ).type = "disable"
      BY <1>4 DEF MsgDisableGnss, ControlHandles
    <2> QED BY <1>2, <2>1
  <1>5. CASE MsgReadConfig
    <2>1. UNCHANGED capVars /\ Head(controlQ).type = "readConfig"
      BY <1>5 DEF MsgReadConfig, ControlHandles
    <2> QED BY <1>1, <2>1 DEF capVars, CapInv
  <1>6. CASE MsgRequestCapabilities
    <2>1. /\ mCached' = <<getCapabilities(mGps_conf)>> /\ UNCHANGED mGps_conf
          /\ told' = IF mGnssCbIface THEN <<getCapabilities(mGps_conf)>> ELSE told
      BY <1>6 DEF MsgRequestCapabilities, onCapabilitiesCb
    <2> QED BY <1>1, <2>1 DEF CapInv
  <1>7. CASE ControlSetConfig
    <2>1. UNCHANGED <<capVars, mGps_conf>> /\ Head(controlQ).type = "setConfig"
      BY <1>7 DEF ControlSetConfig, ControlHandles
    <2> QED BY <1>2, <2>1
  <1>8. CASE MsgGnssUpdateConfig
    <2>1. Head(controlQ).type = "update"
      BY <1>8 DEF MsgGnssUpdateConfig, ControlHandles
    <2>2. PICK conf : conf = mGps_conf'
      OBVIOUS
    <2>3. IF conf["SUPL_MODE"] # mGps_conf["SUPL_MODE"]
            THEN onCapabilitiesCb(getCapabilities(conf)) ELSE UNCHANGED capVars
      BY <1>8, <2>2 DEF MsgGnssUpdateConfig
    <2>4. CASE conf["SUPL_MODE"] # mGps_conf["SUPL_MODE"]
      <3>1. /\ mCached' = <<getCapabilities(conf)>>
            /\ told' = IF mGnssCbIface THEN <<getCapabilities(conf)>> ELSE told
        BY <2>3, <2>4 DEF onCapabilitiesCb
      <3> QED BY <1>1, <2>2, <3>1 DEF CapInv
    <2>5. CASE conf["SUPL_MODE"] = mGps_conf["SUPL_MODE"]
      <3>1. UNCHANGED capVars /\ getCapabilities(conf) = getCapabilities(mGps_conf)
        BY <2>3, <2>5 DEF getCapabilities
      <3> QED BY <1>2, <2>1, <2>2, <3>1
    <2> QED BY <2>4, <2>5
  <1> QED BY <1>3, <1>4, <1>5, <1>6, <1>7, <1>8

LEMMA CapStep ==
  ASSUME VoteInv, QueueInv, CapInv, [ControlNext]_controlVars
  PROVE  CapInv'
  <1>1. CASE UNCHANGED controlVars
    BY <1>1 DEF controlVars, clientVars, capVars, CapInv
  <1>2. CASE EngineDies
    BY <1>2 DEF EngineDies, clientVars, capVars, CapInv
  <1>3. CASE EngineComesUp
    <2>1. PICK m : m = [type |-> "setConfig"] /\ controlQ' = Append(controlQ, m)
      BY <1>3 DEF EngineComesUp
    <2>2. m.type # "capabilities" /\ IsSeq(controlQ)
      BY <2>1 DEF QueueInv, QueueOK
    <2>3. NoneWaits(controlQ', "capabilities") <=> NoneWaits(controlQ, "capabilities")
      BY <2>1, <2>2, WaitsPosted
    <2>4. UNCHANGED <<mApi, mGnssCbIface, mGps_conf, mCached, told>>
      BY <1>3 DEF EngineComesUp, clientVars, capVars
    <2> QED BY <2>3, <2>4 DEF CapInv
  <1>4. CASE Handlers
    BY <1>4, CapHandled
  <1>5. CASE setCallback \/ setGnssNiCb \/ cleanup \/ (\E u \in Updates : updateConfiguration(u[1], u[2]))
    <2>1. /\ UNCHANGED <<mGps_conf, mCached>>
          /\ UNCHANGED <<told, mGnssCbIface>> \/ told' = mCached
      <3>1. CASE setCallback \/ setGnssNiCb \/ cleanup
        BY <3>1, CallsPost
      <3>2. CASE \E u \in Updates : updateConfiguration(u[1], u[2])
        BY <3>2, SetterPosts DEF capVars
      <3> QED BY <1>5, <3>1, <3>2
    <2>2. mGnssCbIface' => told' = mCached'
      BY <2>1 DEF CapInv
    <2>3. CASE mApi
      <3>1. mApi'
        BY <1>5, <2>3, CallersSpare
      <3>2. NoneWaits(controlQ', "capabilities") <=> NoneWaits(controlQ, "capabilities")
        BY <1>5, <2>3, CallersSpare
      <3> QED BY <2>1, <2>2, <2>3, <3>1, <3>2 DEF CapInv
    <2>4. CASE ~mApi
      <3>1. CASE setCallback \/ setGnssNiCb \/ cleanup
        <4>1. PICK enable \in BOOLEAN : getApi(enable)
          BY <2>4, <3>1, CallsPost
        <4>2. ~NoneWaits(controlQ', "capabilities")
          BY <2>4, <4>1, ApiPosts
        <4> QED BY <2>2, <4>2 DEF CapInv
      <3>2. CASE \E u \in Updates : updateConfiguration(u[1], u[2])
        <4>1. UNCHANGED mApi
          BY <3>2, SetterPosts
        <4> QED BY <2>2, <2>4, <4>1 DEF CapInv
      <3> QED BY <1>5, <3>1, <3>2
    <2> QED BY <2>3, <2>4
  <1> QED BY <1>1, <1>2, <1>3, <1>4, <1>5 DEF ControlNext, Handlers

-----------------------------------------------------------------------------
(* What the framework wanted.  Of the items the adapter keeps in mGps_conf *)
(* it has the number last wanted, or an update that waits will store it;   *)
(* the last update passed on and the pending one say the same.             *)
KnownProtocols == \A u \in Updates : u[1] = Glonass => u[2] \in 0..15

Kept == Settable \ ({Server} \cup (Injected \ Resent))

WantedInv ==
  /\ DOMAIN wanted \subseteq Settable
  /\ \A i \in DOMAIN wanted : wanted[i] \in Numbers(i)
  /\ ~mApi => /\ DOMAIN mPendingConfig = DOMAIN wanted
              /\ \A i \in DOMAIN wanted \ {Server} : mPendingConfig[i] = Setter(i)[wanted[i]]
  /\ mApi => /\ \A i \in DOMAIN mConfig \ {Server} :
                  i \in DOMAIN wanted /\ mConfig[i] = Setter(i)[wanted[i]]
             /\ \A i \in DOMAIN wanted \cap Kept : Settled(controlQ, i, mGps_conf[i], wanted[i])

LEMMA WantedStart ==
  ASSUME ControlInit
  PROVE  WantedInv
  BY DEF ControlInit, WantedInv

LEMMA WantedHandled ==
  ASSUME QueueInv, WantedInv, Handlers
  PROVE  WantedInv'
  <1> USE DEF Handlers
  <1>1. /\ mApi /\ UNCHANGED <<mApi, wanted, mConfig>>
        /\ controlQ # <<>> /\ controlQ' = Tail(controlQ) /\ IsSeq(controlQ)
        /\ NoneWaits(Tail(controlQ), "readConfig")
    <2>1. controlQ # <<>> /\ controlQ' = Tail(controlQ) /\ UNCHANGED <<mApi, wanted, mConfig>>
      BY HandlersTake
    <2> QED BY <2>1, QueueTaken DEF QueueInv, QueueOK
  <1>2. ASSUME NEW i \in DOMAIN wanted \cap Kept
        PROVE  Settled(controlQ', i, mGps_conf'[i], wanted[i])
    <2>1. PICK n, have, new : n = wanted[i] /\ have = mGps_conf[i] /\ new = mGps_conf'[i]
      OBVIOUS
    <2>2. Settled(controlQ, i, have, n) /\ n \in Numbers(i)
      BY <1>1, <1>2, <2>1 DEF WantedInv
    <2>3. i \in Settable \ {Server} /\ i \in ConfItems /\ i \in Resent \cup Local \cup {Lock}
      BY <1>2 DEF Kept, ConfItems, Settable
    <2>4. \/ Head(controlQ).type = "readConfig"
          \/ /\ Touches(Head(controlQ), i)
             /\ Head(controlQ).config[i] = Setter(i)[n] => new = n
          \/ ~Touches(Head(controlQ), i) /\ new = have
      <3>1. CASE MsgGnssUpdateConfig
        <4>1. Head(controlQ).type = "update"
          BY <3>1 DEF MsgGnssUpdateConfig, ControlHandles
        <4>2. PICK config : config = Head(controlQ).config
          OBVIOUS
        <4>3. Touches(Head(controlQ), i) <=> i \in DOMAIN config
          BY <4>1, <4>2 DEF Touches
        <4>4. new = IF i \in DOMAIN config THEN Stored(i, config[i]) ELSE have
          BY <2>1, <2>3, <3>1, <4>2, UpdateCalls DEF Stores
        <4>5. Stored(i, Setter(i)[n]) = n
          BY <2>2, <2>3, StoredNumber
        <4> QED BY <4>2, <4>3, <4>4, <4>5
      <3>2. CASE MsgReadConfig
        BY <3>2 DEF MsgReadConfig, ControlHandles
      <3>3. CASE ~MsgGnssUpdateConfig /\ ~MsgReadConfig
        <4>1. UNCHANGED mGps_conf /\ Head(controlQ).type # "update"
          BY <3>3 DEF MsgEnableGnss, MsgDisableGnss, MsgRequestCapabilities, ControlSetConfig,
                      ControlHandles
        <4> QED BY <2>1, <4>1 DEF Touches
      <3> QED BY <3>1, <3>2, <3>3
    <2>5. Settled(Tail(controlQ), i, new, n)
      BY <1>1, <2>2, <2>4, SettledTaken
    <2> QED BY <1>1, <2>1, <2>5
  <1> QED BY <1>1, <1>2 DEF WantedInv

LEMMA WantedSet ==
  ASSUME KnownProtocols, VoteInv, QueueInv, WantedInv,
         NEW u \in Updates, updateConfiguration(u[1], u[2])
  PROVE  WantedInv'
  <1>1. PICK item, number : item = u[1] /\ number = u[2]
    OBVIOUS
  <1>2. /\ item \in Settable /\ number \in DOMAIN Setter(item) /\ UNCHANGED <<mApi, mGps_conf>>
        /\ wanted' = [i \in {item} \cup DOMAIN wanted |-> IF i = item THEN number ELSE wanted[i]]
    BY <1>1, SetterPosts
  <1>3. number \in Numbers(item)
    <2>1. item = Glonass => number \in 0..15
      BY <1>1 DEF KnownProtocols
    <2>2. \A k \in 0..15 : k < 16
      OBVIOUS
    <2> QED BY <1>2, <2>1, <2>2 DEF Numbers
  <1>4. /\ DOMAIN wanted' = {item} \cup DOMAIN wanted /\ wanted'[item] = number
        /\ \A i \in DOMAIN wanted \ {item} : wanted'[i] = wanted[i]
    BY <1>2
  <1>5. DOMAIN wanted' \subseteq Settable /\ \A i \in DOMAIN wanted' : wanted'[i] \in Numbers(i)
    BY <1>2, <1>3, <1>4 DEF WantedInv
  <1>6. CASE ~mApi
    <2>1. /\ DOMAIN mPendingConfig' = {item} \cup DOMAIN mPendingConfig
          /\ \A i \in DOMAIN mPendingConfig' \ {Server} :
               mPendingConfig'[i] = IF i = item THEN Setter(i)[number] ELSE mPendingConfig[i]
      BY <1>1, <1>6, SetterPosts
    <2>2. DOMAIN mPendingConfig' = DOMAIN wanted'
      BY <1>4, <1>6, <2>1 DEF WantedInv
    <2>3. \A i \in DOMAIN wanted' \ {Server} : mPendingConfig'[i] = Setter(i)[wanted'[i]]
      BY <1>4, <1>6, <2>1, <2>2 DEF WantedInv
    <2> QED BY <1>2, <1>5, <1>6, <2>2, <2>3 DEF WantedInv
  <1>7. CASE mApi
    <2>1. PICK config, m :
            /\ DOMAIN config = {item} /\ config[item] = Setter(item)[number]
            /\ m.type = "update" /\ m.config = config
            /\ \/ config = mConfig /\ UNCHANGED <<mConfig, controlQ>>
               \/ mConfig' = config /\ controlQ' = Append(controlQ, m)
      BY <1>1, <1>7, SetterPosts
    <2>2. \A i \in DOMAIN mConfig' \ {Server} :
            i \in DOMAIN wanted' /\ mConfig'[i] = Setter(i)[wanted'[i]]
      BY <1>4, <2>1
    <2>3. ASSUME NEW i \in DOMAIN wanted' \cap Kept
          PROVE  Settled(controlQ', i, mGps_conf[i], wanted'[i])
      <3>1. PICK n, have : n = wanted'[i] /\ have = mGps_conf[i]
        OBVIOUS
      <3>2. i \in Settable \ {Server}
        BY <2>3 DEF Kept
      <3>3. ASSUME i \in DOMAIN wanted, n = wanted[i]
            PROVE  Settled(controlQ, i, have, n)
        BY <1>7, <2>3, <3>1, <3>3 DEF WantedInv
      <3>4. CASE config = mConfig /\ UNCHANGED controlQ
        <4>1. i \in DOMAIN wanted /\ n = wanted[i]
          <5>1. CASE i = item
            <6>1. i \in DOMAIN wanted /\ config[i] = Setter(i)[wanted[i]]
              BY <1>7, <2>1, <3>2, <3>4, <5>1 DEF WantedInv
            <6>2. PICK old \in Numbers(i) : old = wanted[i]
              BY <6>1 DEF WantedInv
            <6>3. Stored(i, Setter(i)[old]) = old /\ Stored(i, Setter(i)[number]) = number
              BY <1>3, <3>2, <5>1, <6>2, StoredNumber
            <6>4. Setter(i)[old] = Setter(i)[number]
              BY <2>1, <5>1, <6>1, <6>2
            <6> QED BY <1>4, <3>1, <5>1, <6>1, <6>2, <6>3, <6>4
          <5>2. CASE i # item
            BY <1>4, <2>3, <3>1, <5>2
          <5> QED BY <5>1, <5>2
        <4> QED BY <3>1, <3>3, <3>4, <4>1
      <3>5. CASE controlQ' = Append(controlQ, m)
        <4>1. IF Touches(m, i) THEN m.config[i] = Setter(i)[n] ELSE Settled(controlQ, i, have, n)
          <5>1. CASE i = item
            BY <1>4, <2>1, <3>1, <5>1 DEF Touches
          <5>2. CASE i # item
            <6>1. ~Touches(m, i)
              BY <2>1, <5>2 DEF Touches
            <6>2. i \in DOMAIN wanted /\ n = wanted[i]
              BY <1>4, <2>3, <3>1, <5>2
            <6> QED BY <3>3, <6>1, <6>2
          <5> QED BY <5>1, <5>2
        <4>2. IsSeq(controlQ) /\ m.type # "readConfig"
          BY <2>1 DEF QueueInv, QueueOK
        <4>3. Settled(Append(controlQ, m), i, have, n)
          BY <4>1, <4>2, SettledPosted
        <4> QED BY <3>1, <3>5, <4>3
      <3> QED BY <2>1, <3>4, <3>5
    <2> QED BY <1>2, <1>5, <1>7, <2>2, <2>3 DEF WantedInv
  <1> QED BY <1>6, <1>7

LEMMA WantedPosted ==
  ASSUME QueueInv, WantedInv, mApi, UNCHANGED <<mApi, mConfig, wanted, mGps_conf>>,
         NEW m, controlQ' = Append(controlQ, m), m.type \notin {"update", "readConfig"}
  PROVE  WantedInv'
  <1>1. ASSUME NEW i \in DOMAIN wanted \cap Kept
        PROVE  Settled(controlQ', i, mGps_conf[i], wanted[i])
    <2>1. PICK n, have : n = wanted[i] /\ have = mGps_conf[i]
      OBVIOUS
    <2>2. Settled(controlQ, i, have, n)
      BY <1>1, <2>1 DEF WantedInv
    <2>3. ~Touches(m, i) /\ m.type # "readConfig" /\ IsSeq(controlQ)
      BY DEF Touches, QueueInv, QueueOK
    <2>4. Settled(Append(controlQ, m), i, have, n)
      BY <2>2, <2>3, SettledPosted
    <2> QED BY <2>1, <2>4
  <1> QED BY <1>1 DEF WantedInv

LEMMA WantedCalled ==
  ASSUME VoteInv, QueueInv, WantedInv, setCallback \/ setGnssNiCb \/ cleanup
  PROVE  WantedInv'
  <1>1. mApi' /\ UNCHANGED <<wanted, mGps_conf>>
    BY CallsPost
  <1>2. CASE mApi
    <2>1. /\ UNCHANGED mConfig
          /\ \/ UNCHANGED controlQ
             \/ \E m : controlQ' = Append(controlQ, m) /\ m.type \in {"enable", "disable"}
      BY <1>2, CallsPost
    <2>2. CASE UNCHANGED controlQ
      BY <1>1, <1>2, <2>1, <2>2 DEF WantedInv
    <2>3. CASE \E m : controlQ' = Append(controlQ, m) /\ m.type \in {"enable", "disable"}
      <3>1. PICK m : controlQ' = Append(controlQ, m) /\ m.type \in {"enable", "disable"}
        BY <2>3
      <3>2. mApi' = mApi
        <4>1. CASE setCallback
          BY <1>2, <4>1 DEF setCallback
        <4>2. CASE setGnssNiCb
          BY <1>2, <4>2 DEF setGnssNiCb
        <4>3. CASE cleanup
          BY <4>3 DEF cleanup
        <4> QED BY <4>1, <4>2, <4>3
      <3> QED BY <1>1, <1>2, <2>1, <3>1, <3>2, WantedPosted
    <2> QED BY <2>1, <2>2, <2>3
  <1>3. CASE ~mApi
    <2>1. PICK enable \in BOOLEAN : getApi(enable)
      BY <1>3, CallsPost
    <2>2. mConfig' = mPendingConfig
      BY <2>1 DEF getApi
    <2>3. \A i \in DOMAIN mConfig' \ {Server} : i \in DOMAIN wanted /\ mConfig'[i] = Setter(i)[wanted[i]]
      BY <1>3, <2>2 DEF WantedInv
    <2>4. ASSUME NEW i \in DOMAIN wanted \cap Kept
          PROVE  Settled(controlQ', i, mGps_conf[i], wanted[i])
      <3>1. i \in DOMAIN mPendingConfig /\ mPendingConfig[i] = Setter(i)[wanted[i]]
        BY <1>3, <2>4 DEF WantedInv, Kept
      <3> QED BY <1>3, <2>1, <3>1, ApiPosts
    <2> QED BY <1>1, <2>3, <2>4 DEF WantedInv
  <1> QED BY <1>2, <1>3

LEMMA WantedStep ==
  ASSUME KnownProtocols, VoteInv, QueueInv, WantedInv, [ControlNext]_controlVars
  PROVE  WantedInv'
  <1>1. CASE UNCHANGED controlVars
    BY <1>1 DEF controlVars, clientVars, WantedInv
  <1>2. CASE EngineDies
    BY <1>2 DEF EngineDies, clientVars, WantedInv
  <1>3. CASE EngineComesUp
    <2>1. PICK m : m = [type |-> "setConfig"] /\ controlQ' = Append(controlQ, m)
      BY <1>3 DEF EngineComesUp
    <2>2. m.type \notin {"update", "readConfig"}
      BY <2>1
    <2>3. mApi /\ UNCHANGED <<mApi, mConfig, wanted, mGps_conf>>
      BY <1>3 DEF EngineComesUp, clientVars, QueueInv
    <2> QED BY <2>1, <2>2, <2>3, WantedPosted
  <1>4. CASE Handlers
    BY <1>4, WantedHandled
  <1>5. CASE setCallback \/ setGnssNiCb \/ cleanup
    BY <1>5, WantedCalled
  <1>6. CASE \E u \in Updates : updateConfiguration(u[1], u[2])
    BY <1>6, WantedSet
  <1> QED BY <1>1, <1>2, <1>3, <1>4, <1>5, <1>6 DEF ControlNext, Handlers

(* When nothing waits, the four invariants say what the property says.     *)
LEMMA ControlSettled ==
  ASSUME LockInv, ResentInv, CapInv, WantedInv
  PROVE  EngineFollowsFramework
  <1> SUFFICES ASSUME controlQ = <<>>, mApi
               PROVE  /\ \A i \in DOMAIN wanted \ ({Server} \cup (Injected \ Resent)) :
                           mGps_conf[i] = wanted[i]
                      /\ mGnssCbIface => told = <<getCapabilities(mGps_conf)>>
                      /\ engineRuns => \A i \in (Resent \cap DOMAIN wanted) \ failed :
                                         engineConf[i] = Setter(i)[wanted[i]]
                      /\ Lock \notin failed =>
                           engineConf[Lock] = IF mPowerVoteId > 0 THEN "NONE" ELSE GpsLockOf(mGps_conf[Lock])
    BY DEF EngineFollowsFramework
  <1>1. DOMAIN controlQ = {} /\ \A t : NoneWaits(controlQ, t)
    BY DEF NoneWaits
  <1>2. \A i \in DOMAIN wanted \cap Kept : mGps_conf[i] = wanted[i]
    BY <1>1 DEF WantedInv, Settled
  <1>3. \A i \in DOMAIN wanted \ ({Server} \cup (Injected \ Resent)) : i \in DOMAIN wanted \cap Kept
    BY DEF WantedInv, Kept
  <1>4. mGnssCbIface => told = <<getCapabilities(mGps_conf)>>
    BY <1>1 DEF CapInv
  <1>5. ASSUME engineRuns, NEW i \in (Resent \cap DOMAIN wanted) \ failed
        PROVE  engineConf[i] = Setter(i)[wanted[i]]
    <2>1. i \in Injected /\ i \in Kept /\ i \in Settable \ {Server}
      BY <1>5 DEF WantedInv, Kept, Resent, Settable, Injected, Plain, Local, Lock, Server
    <2>2. PICK n \in Numbers(i) : n = wanted[i]
      BY <1>5 DEF WantedInv
    <2>3. mGps_conf[i] = n
      BY <1>2, <1>5, <2>1, <2>2
    <2>4. engineConf[i] = ToEngine(i, n)
      BY <1>1, <1>5, <2>3 DEF ResentInv
    <2>5. Stored(i, Setter(i)[n]) = n
      BY <2>1, <2>2, StoredNumber
    <2>6. ToEngine(i, Stored(i, Setter(i)[n])) = Setter(i)[n]
      BY <2>1, <2>2, ToldAgain DEF Numbers
    <2> QED BY <2>2, <2>4, <2>5, <2>6
  <1> QED BY <1>2, <1>3, <1>4, <1>5 DEF LockInv

(* Whatever the framework sets, before or after the API exists, and        *)
(* however often the engine restarts, its calls fail and clients come and  *)
(* go: once the messages are handled, mGps_conf has the numbers last set,  *)
(* the running engine was told what they mean, its lock is the stored one  *)
(* unless there is a vote, and the framework knows the capabilities.  This *)
(* is about a gps.conf that does not set the lock, as the repository's     *)
(* does not, and masks of the GLONASS protocols the engine knows.          *)
THEOREM EngineFollows ==
  NoLockInGpsConf /\ KnownProtocols => (ControlSpec => []EngineFollowsFramework)
  <1> SUFFICES ASSUME NoLockInGpsConf, KnownProtocols
               PROVE  ControlSpec => []EngineFollowsFramework
    OBVIOUS
  <1> DEFINE Inv == VoteInv /\ QueueInv /\ LockInv /\ ResentInv /\ CapInv /\ WantedInv
  <1>1. ControlInit => Inv
    <2>1. ControlInit => ResentInv /\ CapInv
      BY DEF ControlInit, ResentInv, CapInv
    <2> QED BY <2>1, VoteStart, QueueStart, LockStart, WantedStart
  <1>2. Inv /\ [ControlNext]_controlVars => Inv'
    BY VoteStep, QueueStep, LockStep, ResentStep, CapStep, WantedStep
  <1>3. Inv => EngineFollowsFramework
    BY ControlSettled
  <1> QED BY <1>1, <1>2, <1>3, PTL DEF ControlSpec

-----------------------------------------------------------------------------
(* Types.  Of the messages, the votes and the pending configuration the    *)
(* invariants above say it; the numbers of mGps_conf are those of gps.conf *)
(* and those the conversions make, and an update never stores the server.  *)
CapTyped(c) == c = <<>> \/ \E mask \in SUBSET CAPABILITIES : c = <<mask>>

ConfInv ==
  /\ mGnssCbIface \in BOOLEAN /\ mApi \in BOOLEAN /\ engineRuns \in BOOLEAN
  /\ IsConfig(mConfig) /\ DOMAIN wanted \subseteq UpdatedItems
  /\ mGps_conf \in [ConfItems -> Nat] /\ mGps_conf[Server] \in 0..1
  /\ mServerUrl \in {":", "", "host:port"}
  /\ DOMAIN engineConf = ConfItems /\ failed \subseteq ConfItems
  /\ CapTyped(mCached) /\ CapTyped(told)

(* GnssAdapter's conversions make unsigned numbers.                        *)
LEMMA StoredIsNat ==
  ASSUME NEW i, NEW v
  PROVE  Stored(i, v) \in Nat
  <1>1. ASSUME NEW bits, NEW names
        PROVE  ToMask(bits, names) \in Nat
    <2>1. Weight[1] \in Nat /\ Weight[2] \in Nat /\ Weight[3] \in Nat /\ Weight[4] \in Nat
      BY DEF Weight
    <2> QED BY <2>1 DEF ToMask
  <1>2. /\ convertLppe(v) \in Nat /\ convertAGloProt(v) \in Nat /\ convertSuplMode(v) \in Nat
    BY <1>1 DEF convertLppe, convertAGloProt, convertSuplMode
  <1>3. /\ convertGpsLock(v) \in Nat /\ convertSuplVersion(v) \in Nat /\ convertLppProfile(v) \in Nat
        /\ convertYes(v) \in Nat
    BY DEF convertGpsLock, convertSuplVersion, convertLppProfile, convertYes
  <1> QED BY <1>2, <1>3 DEF Stored

(* gps.conf is read into unsigned numbers.                                 *)
LEMMA ConfRead ==
  gpsConfRead \in [ConfItems -> Nat] /\ gpsConfRead[Server] \in 0..1
  <1>1. ASSUME NEW i \in ConfItems
        PROVE  Defaults[i] \in Nat /\ (i = Server => Defaults[i] = 0)
    <2>1. Defaults[i] = CASE i = "SUPL_VER" -> 65536
                          [] i \in {"SUPL_MODE", "USE_EMERGENCY_PDN_FOR_EMERGENCY_SUPL"} -> 1
                          [] OTHER -> 0
      BY DEF Defaults
    <2> QED BY <2>1 DEF Server
  <1>2. ASSUME NEW i \in ConfItems
        PROVE  gpsConfRead[i] \in Nat /\ (i = Server => gpsConfRead[i] \in 0..1)
    <2>1. gpsConfRead[i] = IF i \in DOMAIN GpsConf THEN GpsConf[i] ELSE Defaults[i]
      BY DEF gpsConfRead
    <2> QED BY <1>1, <2>1, GpsConfAssumption
  <1>3. Server \in ConfItems
    BY DEF ConfItems
  <1>4. gpsConfRead = [i \in ConfItems |-> IF i \in DOMAIN GpsConf THEN GpsConf[i] ELSE Defaults[i]]
    BY DEF gpsConfRead
  <1>5. gpsConfRead \in [ConfItems -> Nat]
    BY <1>2, <1>4
  <1> QED BY <1>2, <1>3, <1>5

LEMMA ServerNames ==
  /\ \A n \in 0..1 : ToEngine(Server, n) \in {"", "host:port"}
  /\ \A n \in DOMAIN Setter(Server) : Setter(Server)[n] \in {"", "host:port"}
  <1>1. \A n \in 0..1 : ToEngine(Server, n) = setServer[n]
    BY DEF ToEngine, Server, Plain
  <1>2. Setter(Server) = setServer
    BY DEF Setter, Server
  <1>3. DOMAIN setServer = 0..1 /\ \A n \in 0..1 : setServer[n] \in {"", "host:port"}
    BY DEF setServer
  <1> QED BY <1>1, <1>2, <1>3

LEMMA ConfStart ==
  ASSUME ControlInit
  PROVE  ConfInv
  <1>1. /\ mGnssCbIface = FALSE /\ mApi = FALSE /\ engineRuns = TRUE /\ mConfig = << >> /\ wanted = << >>
        /\ mGps_conf = [i \in ConfItems |-> 0] /\ mServerUrl = ":" /\ failed = {}
        /\ engineConf = [i \in ConfItems |-> ToEngine(i, 0)] /\ mCached = <<>> /\ told = <<>>
    BY DEF ControlInit
  <1>2. DOMAIN mConfig = {} /\ DOMAIN wanted = {}
    BY <1>1
  <1>3. IsConfig(mConfig)
    BY <1>2 DEF IsConfig
  <1>4. Server \in ConfItems
    BY DEF ConfItems
  <1>5. mGps_conf \in [ConfItems -> Nat] /\ mGps_conf[Server] \in 0..1
    BY <1>1, <1>4
  <1>6. DOMAIN engineConf = ConfItems
    BY <1>1
  <1> QED BY <1>1, <1>2, <1>3, <1>5, <1>6 DEF ConfInv, CapTyped

(* A call of the engine keeps the items it is about.                       *)
LEMMA CalledTyped ==
  ASSUME NEW items \in SUBSET ConfItems, NEW value(_), failed \subseteq ConfItems,
         CallEngine(items, value)
  PROVE  DOMAIN engineConf' = ConfItems /\ failed' \subseteq ConfItems /\ UNCHANGED engineRuns
  <1>1. PICK bad : /\ bad \subseteq items
                   /\ engineConf' = [i \in ConfItems |-> IF i \in items \ bad THEN value(i) ELSE engineConf[i]]
                   /\ failed' = (failed \ items) \cup bad
                   /\ UNCHANGED engineRuns
    BY DEF CallEngine
  <1> QED BY <1>1

LEMMA ToldTyped ==
  ASSUME NEW conf, CapTyped(told), onCapabilitiesCb(getCapabilities(conf))
  PROVE  CapTyped(mCached') /\ CapTyped(told')
  <1>1. getCapabilities(conf) \in SUBSET CAPABILITIES
    BY DEF getCapabilities
  <1> QED BY <1>1 DEF onCapabilitiesCb, CapTyped

LEMMA ConfHandled ==
  ASSUME QueueInv, ConfInv, Handlers
  PROVE  ConfInv'
  <1>1. /\ UNCHANGED <<mApi, mGnssCbIface, mConfig, wanted, engineRuns>> /\ MsgOK(Head(controlQ))
        /\ controlQ # <<>>
    <2>1. QueueOK(controlQ)
      BY DEF QueueInv
    <2> QED BY <2>1, HandlersTake, QueueTaken
  <1>2. SUFFICES /\ mGps_conf' \in [ConfItems -> Nat] /\ mGps_conf'[Server] \in 0..1
                 /\ mServerUrl' \in {":", "", "host:port"}
                 /\ DOMAIN engineConf' = ConfItems /\ failed' \subseteq ConfItems
                 /\ CapTyped(mCached') /\ CapTyped(told')
    BY <1>1 DEF ConfInv
  <1>3. {Lock} \in SUBSET ConfItems /\ Server \in ConfItems
    BY DEF ConfItems
  <1> DEFINE Same == UNCHANGED <<mGps_conf, mServerUrl, mCached, told>>
             SameEngine == UNCHANGED <<engineConf, failed>>
  <1>4. CASE MsgEnableGnss
    <2>1. Same
      BY <1>4 DEF MsgEnableGnss, capVars
    <2>2. SameEngine \/ CallEngine({Lock}, LAMBDA i : "NONE")
      BY <1>4 DEF MsgEnableGnss, engineVars
    <2>3. DOMAIN engineConf' = ConfItems /\ failed' \subseteq ConfItems
      BY <1>3, <2>2, CalledTyped DEF ConfInv
    <2> QED BY <2>1, <2>3 DEF ConfInv
  <1>5. CASE MsgDisableGnss
    <2>1. Same
      BY <1>5 DEF MsgDisableGnss, capVars
    <2>2. SameEngine \/ CallEngine({Lock}, LAMBDA i : ToEngine(i, mGps_conf[i]))
      BY <1>5 DEF MsgDisableGnss, engineVars
    <2>3. DOMAIN engineConf' = ConfItems /\ failed' \subseteq ConfItems
      BY <1>3, <2>2, CalledTyped DEF ConfInv
    <2> QED BY <2>1, <2>3 DEF ConfInv
  <1>6. CASE MsgReadConfig
    <2>1. mGps_conf' = gpsConfRead /\ SameEngine /\ UNCHANGED <<mServerUrl, mCached, told>>
      BY <1>6 DEF MsgReadConfig, engineVars, capVars
    <2> QED BY <2>1, ConfRead DEF ConfInv
  <1>7. CASE MsgRequestCapabilities
    <2>1. onCapabilitiesCb(getCapabilities(mGps_conf)) /\ SameEngine /\ UNCHANGED <<mGps_conf, mServerUrl>>
      BY <1>7 DEF MsgRequestCapabilities, engineVars
    <2> QED BY <2>1, ToldTyped DEF ConfInv
  <1>8. CASE ControlSetConfig
    <2>1. PICK url : url = ToEngine(Server, mGps_conf[Server])
      OBVIOUS
    <2>2. /\ CallEngine(Resent \cup ServerChanges(url), LAMBDA i : ToEngine(i, mGps_conf[i]))
          /\ mServerUrl' = IF AGPS_CONFIG_INJECT THEN url ELSE mServerUrl
          /\ UNCHANGED <<mGps_conf, mCached, told>>
      BY <1>8, <2>1 DEF ControlSetConfig, capVars
    <2>3. Resent \cup ServerChanges(url) \in SUBSET ConfItems
      BY <1>3 DEF Resent, ServerChanges, ConfItems
    <2>4. DOMAIN engineConf' = ConfItems /\ failed' \subseteq ConfItems
      BY <2>2, <2>3, CalledTyped DEF ConfInv
    <2>5. url \in {"", "host:port"}
      BY <2>1, ServerNames DEF ConfInv
    <2> QED BY <2>2, <2>4, <2>5 DEF ConfInv
  <1>9. CASE MsgGnssUpdateConfig
    <2>1. PICK config : config = Head(controlQ).config
      OBVIOUS
    <2>2. /\ mGps_conf' = [i \in ConfItems |-> IF i \in Stores(config) THEN Stored(i, config[i]) ELSE mGps_conf[i]]
          /\ CallEngine(Calls(config), LAMBDA i : config[i])
          /\ mServerUrl' = IF Server \in Calls(config) THEN config[Server] ELSE mServerUrl
          /\ UNCHANGED capVars \/ onCapabilitiesCb(getCapabilities(mGps_conf'))
      BY <1>9, <2>1 DEF MsgGnssUpdateConfig
    <2>3. IsSetting(config)
      <3>1. Head(controlQ).type = "update"
        BY <1>9 DEF MsgGnssUpdateConfig, ControlHandles
      <3> QED BY <1>1, <2>1, <3>1 DEF MsgOK
    <2>4. Resent \subseteq ConfItems /\ Server \notin Resent \cup Local \cup {Lock}
      BY DEF Resent, ConfItems, Injected, Plain, Local, Lock, Server
    <2>5. Calls(config) \in SUBSET ConfItems /\ (Server \in Calls(config) => Server \in DOMAIN config)
      BY <1>3, <2>4 DEF Calls, ServerChanges
    <2>6. DOMAIN engineConf' = ConfItems /\ failed' \subseteq ConfItems
      BY <2>2, <2>5, CalledTyped DEF ConfInv
    <2>7. mGps_conf' \in [ConfItems -> Nat]
      <3>1. ASSUME NEW i \in ConfItems
            PROVE  Stored(i, config[i]) \in Nat /\ mGps_conf[i] \in Nat
        BY StoredIsNat DEF ConfInv
      <3> QED BY <2>2, <3>1
    <2>8. mGps_conf'[Server] = mGps_conf[Server]
      <3>1. Server \notin Stores(config)
        BY <2>4 DEF Stores
      <3> QED BY <1>3, <2>2, <3>1
    <2>9. mServerUrl' \in {":", "", "host:port"}
      <3>1. CASE Server \in Calls(config)
        <4>1. \E n \in DOMAIN Setter(Server) : config[Server] = Setter(Server)[n]
          BY <2>3, <2>5, <3>1 DEF IsSetting, IsConfig
        <4> QED BY <2>2, <3>1, <4>1, ServerNames
      <3>2. CASE Server \notin Calls(config)
        BY <2>2, <3>2 DEF ConfInv
      <3> QED BY <3>1, <3>2
    <2>10. CapTyped(mCached') /\ CapTyped(told')
      BY <2>2, ToldTyped DEF ConfInv, capVars
    <2> QED BY <2>6, <2>7, <2>8, <2>9, <2>10 DEF ConfInv
  <1> QED BY <1>4, <1>5, <1>6, <1>7, <1>8, <1>9 DEF Handlers

LEMMA ConfStep ==
  ASSUME VoteInv, QueueInv, ConfInv, [ControlNext]_controlVars
  PROVE  ConfInv'
  <1>1. CASE UNCHANGED controlVars
    BY <1>1 DEF controlVars, clientVars, engineVars, capVars, ConfInv
  <1>2. CASE EngineDies
    <2>1. /\ engineConf' = [i \in ConfItems |-> IF i \in Resent THEN ToEngine(i, 0) ELSE engineConf[i]]
          /\ engineRuns' = FALSE
          /\ UNCHANGED <<clientVars, failed, capVars, mGps_conf, mServerUrl>>
      BY <1>2 DEF EngineDies
    <2>2. DOMAIN engineConf' = ConfItems
      BY <2>1
    <2> QED BY <2>1, <2>2 DEF clientVars, capVars, ConfInv
  <1>3. CASE EngineComesUp
    <2>1. /\ engineRuns' = TRUE
          /\ UNCHANGED <<clientVars, engineConf, failed, capVars, mGps_conf, mServerUrl>>
      BY <1>3 DEF EngineComesUp
    <2> QED BY <2>1 DEF clientVars, capVars, ConfInv
  <1>4. CASE \E u \in Updates : updateConfiguration(u[1], u[2])
    <2>1. PICK u \in Updates : updateConfiguration(u[1], u[2])
      BY <1>4
    <2>2. /\ u[1] \in Settable /\ u[2] \in DOMAIN Setter(u[1]) /\ UNCHANGED mApi
          /\ wanted' = [i \in {u[1]} \cup DOMAIN wanted |-> IF i = u[1] THEN u[2] ELSE wanted[i]]
          /\ UNCHANGED <<engineVars, capVars, mGnssCbIface, mGps_conf>>
          /\ mApi => \E config : /\ DOMAIN config = {u[1]} /\ config[u[1]] = Setter(u[1])[u[2]]
                                 /\ mConfig' = mConfig \/ mConfig' = config
      BY <2>1, SetterPosts
    <2>3. UNCHANGED mServerUrl /\ (~mApi => UNCHANGED mConfig)
      BY <2>1 DEF updateConfiguration
    <2>4. IsConfig(mConfig')
      BY <2>2, <2>3 DEF ConfInv, IsConfig
    <2>5. DOMAIN wanted' \subseteq UpdatedItems
      <3>1. u[1] \in UpdatedItems
        BY DEF UpdatedItems
      <3>2. DOMAIN wanted' = {u[1]} \cup DOMAIN wanted
        BY <2>2
      <3> QED BY <3>1, <3>2 DEF ConfInv
    <2> QED BY <2>2, <2>3, <2>4, <2>5 DEF engineVars, capVars, ConfInv
  <1>5. CASE setCallback \/ setGnssNiCb \/ cleanup
    <2>1. /\ UNCHANGED <<engineVars, mGps_conf, wanted, mCached>>
          /\ UNCHANGED told \/ told' = mCached
          /\ mApi => UNCHANGED mConfig
          /\ ~mApi => \E enable \in BOOLEAN : getApi(enable)
      BY <1>5, CallsPost
    <2>2. UNCHANGED mServerUrl /\ mGnssCbIface' \in BOOLEAN /\ mApi' \in BOOLEAN
      <3>1. CASE setCallback
        BY <3>1 DEF setCallback, getApi, ConfInv
      <3>2. CASE setGnssNiCb
        BY <3>2 DEF setGnssNiCb, getApi, ConfInv
      <3>3. CASE cleanup
        BY <3>3 DEF cleanup, ConfInv
      <3> QED BY <1>5, <3>1, <3>2, <3>3
    <2>3. IsConfig(mConfig')
      <3>1. CASE mApi
        BY <2>1, <3>1 DEF ConfInv, IsConfig
      <3>2. CASE ~mApi
        <4>1. mConfig' = mPendingConfig
          BY <2>1, <3>2 DEF getApi
        <4> QED BY <4>1 DEF QueueInv, IsSetting, IsConfig
      <3> QED BY <3>1, <3>2
    <2> QED BY <2>1, <2>2, <2>3 DEF engineVars, ConfInv
  <1> QED BY <1>1, <1>2, <1>3, <1>4, <1>5, ConfHandled DEF ControlNext, Handlers

(* Every variable of the control path keeps its type: configurations hold  *)
(* only values their setters make, the ids of waiting votes are session    *)
(* ids, and the server's name in GnssAdapter is one it was given.          *)
THEOREM ControlTypeCorrect == ControlSpec => []ControlTypeOK
  <1> DEFINE Inv == VoteInv /\ QueueInv /\ ConfInv
  <1>1. ControlInit => Inv
    BY VoteStart, QueueStart, ConfStart
  <1>2. Inv /\ [ControlNext]_controlVars => Inv'
    BY VoteStep, QueueStep, ConfStep
  <1>3. Inv => ControlTypeOK
    <2> SUFFICES ASSUME VoteInv, QueueInv, ConfInv
                 PROVE  ControlTypeOK
      OBVIOUS
    <2>1. {ctrlSession, mPowerVoteId} \subseteq 0..(IdWrap - 1) /\ mSessionIdCounter \in 1..(IdWrap - 1)
      <3>1. ctrlSession \in Votes /\ mPowerVoteId \in Votes
        BY ReplayEnds DEF VoteInv
      <3> QED BY <3>1 DEF Votes, VoteInv
    <2>2. {mGnssCbIface, mApi, mEnabled, modemVote, engineRuns} \subseteq BOOLEAN
      BY DEF VoteInv, ConfInv
    <2>3. \A k \in DOMAIN controlQ : IsControlMsg(controlQ[k])
      BY DEF QueueInv, QueueOK, MsgOK
    <2>4. \A c : CapTyped(c) => Len(c) <= 1 /\ \A k \in DOMAIN c : c[k] \subseteq CAPABILITIES
      <3> SUFFICES ASSUME NEW c, CapTyped(c)
                   PROVE  Len(c) <= 1 /\ \A k \in DOMAIN c : c[k] \subseteq CAPABILITIES
        OBVIOUS
      <3>1. CASE c = <<>>
        <4>1. Len(c) = 0 /\ DOMAIN c = {}
          BY <3>1
        <4> QED BY <4>1
      <3>2. CASE \E mask \in SUBSET CAPABILITIES : c = <<mask>>
        <4>1. PICK mask \in SUBSET CAPABILITIES : c = <<mask>>
          BY <3>2
        <4>2. Len(c) = 1 /\ DOMAIN c = {1} /\ c[1] = mask
          BY <4>1
        <4> QED BY <4>2
      <3> QED BY <3>1, <3>2 DEF CapTyped
    <2>5. \A c \in {mCached, told} : Len(c) <= 1 /\ \A k \in DOMAIN c : c[k] \subseteq CAPABILITIES
      BY <2>4 DEF ConfInv
    <2>6. IsConfig(mPendingConfig)
      BY DEF QueueInv, IsSetting
    <2> QED BY <2>1, <2>2, <2>3, <2>5, <2>6 DEF ControlTypeOK, ConfInv
  <1> QED BY <1>1, <1>2, <1>3, PTL DEF ControlSpec
=============================================================================
