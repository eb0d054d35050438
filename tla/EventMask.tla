----------------------------- MODULE EventMask -----------------------------
(***************************************************************************)
(* Who hears the engine: the adapters registered with LocApiBase, the      *)
(* event mask each one keeps, the union of them the engine is opened with, *)
(* and the client callbacks GnssAdapter derives its mask from.             *)
(*                                                                         *)
(* Adapters are added and removed by whatever thread constructs or deletes *)
(* them; clients, AGPS and ODCPI register by messages of the adapter's     *)
(* thread, which also handles LocOpenMsg and LocSsrMsg.  The engine        *)
(* forgets the mask when it goes down and ignores an open until it is up.  *)
(***************************************************************************)
EXTENDS Naturals, Sequences, FiniteSets

CONSTANTS
  Adapters, Gnss,        \* the adapters; Gnss is GnssAdapter
  MAX_ADAPTERS,          \* size of mLocAdapters
  MaskClients,           \* LocationAPI clients
  CallbackSets,          \* the sets of callbacks clients register
  mExcludedMask,         \* events LocApiBase never asks for
  EXTERNAL_DR_ENABLED,   \* of gps.conf
  NmeaFromModem,         \* does MsgSetConfig find any NMEA type to enable
  AgpsCapable,           \* CAPABILITIES of gps.conf has MSB or MSA
  MaxPriority,           \* callback priorities of AGPS clients are 1..MaxPriority
  MaxMaskMsgs,           \* bound: messages waiting for the adapter's thread
  NoAdapter              \* NULL in mLocAdapters

Callbacks == {"trackingCb", "gnssNiCb", "gnssSvCb", "gnssNmeaCb", "gnssMeasurementsCb"}
Events == {"position", "ni", "sv", "nmea", "measurement", "polynomial", "server", "wifi"}

(* The reports of LocApiBase that go to every adapter, and to the first    *)
(* adapter that handles them.  Only GnssAdapter overrides any handler of   *)
(* the second kind.                                                        *)
ToAll == {"position", "sv", "svMeasurement", "svPolynomial", "status", "nmea", "gnssMeasurement",
          "engineUp", "engineDown"}
To1stHandling == {"zpp", "odcpi", "xtraServer", "xtraData", "time", "location", "requestATL",
                  "releaseATL", "suplES", "dataCallOpened", "dataCallClosed", "niNotify"}
GnssHandles == {"zpp", "odcpi", "requestATL", "releaseATL", "suplES", "dataCallOpened",
                "dataCallClosed", "niNotify"}

ASSUME MaskAssumption ==
  /\ MAX_ADAPTERS \in Nat \ {0} /\ MaxPriority \in Nat
  /\ Gnss \in Adapters /\ NoAdapter \notin Adapters
  /\ CallbackSets \subseteq SUBSET Callbacks /\ NmeaFromModem \in BOOLEAN

VARIABLES
  mLocAdapters,          \* LocApiBase: the array, by index
  registered,            \* adapters constructed and not deleted
  mEvtMask,              \* LocAdapterBase, by adapter
  mClientData,           \* GnssAdapter: callbacks by client; no entry, no client
  mNmeaMask,             \* is any NMEA type enabled
  cbPriority,            \* mAgpsCbInfo.cbPriority; 0 while statusV4Cb is NULL
  odcpiCb,               \* is mOdcpiRequestCb set
  engineUp, engineMask,  \* the engine, and the mask it was last opened with
  maskQ                  \* messages of the adapter's thread

maskVars == <<mLocAdapters, registered, mEvtMask, mClientData, mNmeaMask, cbPriority, odcpiCb,
              engineUp, engineMask, maskQ>>
gnssVars == <<mClientData, mNmeaMask, cbPriority, odcpiCb>>

MaskMsg == [type : {"open", "ssr", "setConfig", "initOdcpi"}]
             \cup [type : {"initAgps"}, priority : 1..MaxPriority]
             \cup [type : {"addClient"}, client : MaskClients, cbs : SUBSET Callbacks]
             \cup [type : {"removeClient"}, client : MaskClients]

(* The array, the masks, the client table and the queue have their types.  *)
MaskTypeOK ==
  /\ mLocAdapters \in [1..MAX_ADAPTERS -> Adapters \cup {NoAdapter}]
  /\ registered \subseteq Adapters
  /\ mEvtMask \in [Adapters -> SUBSET Events]
  /\ DOMAIN mClientData \subseteq MaskClients
  /\ \A c \in DOMAIN mClientData : mClientData[c] \subseteq Callbacks
  /\ {mNmeaMask, odcpiCb, engineUp} \subseteq BOOLEAN /\ cbPriority \in 0..MaxPriority
  /\ engineMask \subseteq Events
  /\ maskQ \in Seq(MaskMsg)

MaskInit ==
  /\ mLocAdapters = [i \in 1..MAX_ADAPTERS |-> IF i = 1 THEN Gnss ELSE NoAdapter]
  /\ registered = {Gnss}
  /\ mEvtMask = [a \in Adapters |-> {}]
  /\ mClientData = << >>
  /\ mNmeaMask = FALSE /\ cbPriority = 0 /\ odcpiCb = FALSE
  /\ engineUp = TRUE /\ engineMask = {}
  /\ maskQ = <<[type |-> "open"], [type |-> "setConfig"]>>

-----------------------------------------------------------------------------
(* TO_ALL_LOCADAPTERS walks the array up to the first NULL.                *)
Reached == {mLocAdapters[i] : i \in {j \in 1..MAX_ADAPTERS : \A k \in 1..j : mLocAdapters[k] # NoAdapter}}

getEvtMask == (UNION {mEvtMask[a] : a \in Reached}) \ mExcludedMask

(* Who is called for a report of the engine.                               *)
Receivers(report) ==
  IF report \in ToAll THEN Reached
                      ELSE Reached \cap (IF report \in GnssHandles THEN {Gnss} ELSE {})

open(mask) == engineMask' = IF engineUp THEN mask ELSE engineMask

(* LocAdapterBase::updateEvtMask of GnssAdapter, then LocApiBase's.        *)
updateEvtMask(mask) ==
  /\ mEvtMask' = [mEvtMask EXCEPT ![Gnss] = mask]
  /\ open((UNION {mEvtMask'[a] : a \in Reached}) \ mExcludedMask)

EventOf(cb) ==
  CASE cb = "trackingCb" -> "position"
    [] cb = "gnssNiCb" -> "ni"
    [] cb = "gnssSvCb" -> "sv"
    [] cb = "gnssNmeaCb" -> "nmea"
    [] cb = "gnssMeasurementsCb" -> "measurement"

ClientEvents(data) ==
  {EventOf(cb) : cb \in UNION {data[c] : c \in DOMAIN data}} \ (IF mNmeaMask THEN {} ELSE {"nmea"})

AutomotiveEvents == IF EXTERNAL_DR_ENABLED THEN {"measurement", "polynomial"} ELSE {}

updateClientsEventMask(data) ==
  updateEvtMask(ClientEvents(data) \cup AutomotiveEvents
                  \cup (IF cbPriority > 0 THEN {"server"} ELSE {})
                  \cup (IF odcpiCb THEN {"wifi"} ELSE {}))

-----------------------------------------------------------------------------
(* Adapters come and go.                                                   *)

addAdapter(a) ==
  /\ a \notin registered
  /\ registered' = registered \cup {a}
  /\ \E i \in 1..MAX_ADAPTERS :
       /\ mLocAdapters[i] = NoAdapter /\ \A j \in 1..(i - 1) : mLocAdapters[j] # NoAdapter
       /\ mLocAdapters' = [mLocAdapters EXCEPT ![i] = a]
  /\ mEvtMask' = [mEvtMask EXCEPT ![a] = {"position"}]
  /\ maskQ' = Append(maskQ, [type |-> "open"])
  /\ UNCHANGED <<gnssVars, engineUp, engineMask>>

\* Mutant: the hole is left where the adapter was.
RemoveLeavesHole(a) ==
  /\ a \in registered \ {Gnss}
  /\ registered' = registered \ {a}
  /\ mLocAdapters' = [i \in 1..MAX_ADAPTERS |-> IF mLocAdapters[i] = a THEN NoAdapter ELSE mLocAdapters[i]]
  /\ maskQ' = Append(maskQ, [type |-> "open"])
  /\ UNCHANGED <<mEvtMask, gnssVars, engineUp, engineMask>>

(* The last adapter moves into the hole.  GnssAdapter is never deleted, so *)
(* the list is never empty and the close() of the code is not reached.     *)
removeAdapter(a) ==
  /\ a \in registered \ {Gnss}
  /\ registered' = registered \ {a}
  /\ \E j \in 1..MAX_ADAPTERS :
       /\ mLocAdapters[j] = a
       /\ LET last == CHOOSE i \in j..MAX_ADAPTERS :
                        /\ \A k \in j..i : mLocAdapters[k] # NoAdapter
                        /\ i = MAX_ADAPTERS \/ mLocAdapters[i + 1] = NoAdapter
          IN mLocAdapters' = [mLocAdapters EXCEPT ![j] = mLocAdapters[last], ![last] = NoAdapter]
  /\ maskQ' = Append(maskQ, [type |-> "open"])
  /\ UNCHANGED <<mEvtMask, gnssVars, engineUp, engineMask>>

(* An adapter of another library changes its own mask.                     *)
OtherAdapterUpdates(a) ==
  /\ a \in registered \ {Gnss}
  /\ mEvtMask' = [mEvtMask EXCEPT ![a] = {"position", "wifi"}]
  /\ open((UNION {mEvtMask'[b] : b \in Reached}) \ mExcludedMask)
  /\ UNCHANGED <<mLocAdapters, registered, gnssVars, engineUp, maskQ>>

-----------------------------------------------------------------------------
(* The engine's thread.                                                    *)

EngineDown ==
  /\ engineUp /\ engineUp' = FALSE /\ engineMask' = {}
  /\ UNCHANGED <<mLocAdapters, registered, mEvtMask, gnssVars, maskQ>>

(* LocSsrMsg first, then every adapter: GnssAdapter posts its own.         *)
handleEngineUpEvent ==
  /\ ~engineUp /\ engineUp' = TRUE
  /\ maskQ' = maskQ \o <<[type |-> "ssr"]>> \o
                (IF Gnss \in Receivers("engineUp") THEN <<[type |-> "setConfig"]>> ELSE <<>>)
  /\ UNCHANGED <<mLocAdapters, registered, mEvtMask, gnssVars, engineMask>>

-----------------------------------------------------------------------------
(* Commands posted to, and handled by, the adapter's thread.               *)

MaskPost(m) ==
  /\ maskQ' = Append(maskQ, m)
  /\ UNCHANGED <<mLocAdapters, registered, mEvtMask, gnssVars, engineUp, engineMask>>

addClientCommand ==
  \E c \in MaskClients, cbs \in CallbackSets :
    MaskPost([type |-> "addClient", client |-> c, cbs |-> cbs])

removeClientCommand == \E c \in MaskClients : MaskPost([type |-> "removeClient", client |-> c])

initCommands ==
  \/ \E p \in 1..MaxPriority : MaskPost([type |-> "initAgps", priority |-> p])
  \/ ~odcpiCb /\ MaskPost([type |-> "initOdcpi"])

MaskHandles(type) ==
  /\ maskQ # <<>> /\ Head(maskQ).type = type /\ maskQ' = Tail(maskQ)
  /\ UNCHANGED <<mLocAdapters, registered, engineUp>>

LocOpenOrSsrMsg ==
  /\ MaskHandles("open") \/ MaskHandles("ssr")
  /\ open(getEvtMask)
  /\ UNCHANGED <<mEvtMask, gnssVars>>

MsgSetConfig ==
  /\ MaskHandles("setConfig")
  /\ mNmeaMask' = NmeaFromModem
  /\ UNCHANGED <<mEvtMask, mClientData, cbPriority, odcpiCb, engineMask>>

saveClient ==
  /\ MaskHandles("addClient")
  /\ LET m == Head(maskQ) IN
     mClientData' = [c \in DOMAIN mClientData \cup {m.client} |->
                       IF c = m.client THEN m.cbs ELSE mClientData[c]]
  /\ updateClientsEventMask(mClientData')
  /\ UNCHANGED <<mNmeaMask, cbPriority, odcpiCb>>

\* Mutant: the mask is recomputed before the client is erased.
EraseAfterMask ==
  /\ MaskHandles("removeClient")
  /\ mClientData' = [c \in DOMAIN mClientData \ {Head(maskQ).client} |-> mClientData[c]]
  /\ updateClientsEventMask(mClientData)
  /\ UNCHANGED <<mNmeaMask, cbPriority, odcpiCb>>

eraseClient ==
  /\ MaskHandles("removeClient")
  /\ mClientData' = [c \in DOMAIN mClientData \ {Head(maskQ).client} |-> mClientData[c]]
  /\ updateClientsEventMask(mClientData')
  /\ UNCHANGED <<mNmeaMask, cbPriority, odcpiCb>>

initAgps ==
  /\ MaskHandles("initAgps")
  /\ IF AgpsCapable /\ cbPriority <= Head(maskQ).priority
       THEN /\ cbPriority' = Head(maskQ).priority
            /\ updateEvtMask(mEvtMask[Gnss] \cup {"server"})
       ELSE UNCHANGED <<cbPriority, mEvtMask, engineMask>>
  /\ UNCHANGED <<mClientData, mNmeaMask, odcpiCb>>

MaskInitOdcpi ==
  /\ MaskHandles("initOdcpi")
  /\ odcpiCb' = TRUE
  /\ updateEvtMask(mEvtMask[Gnss] \cup {"wifi"})
  /\ UNCHANGED <<mClientData, mNmeaMask, cbPriority>>

MaskNext ==
  \/ LocOpenOrSsrMsg \/ MsgSetConfig \/ saveClient \/ eraseClient \/ initAgps \/ MaskInitOdcpi
  \/ /\ Len(maskQ) < MaxMaskMsgs
     /\ \/ \E a \in Adapters : addAdapter(a) \/ removeAdapter(a) \/ OtherAdapterUpdates(a)
        \/ EngineDown \/ handleEngineUpEvent
        \/ addClientCommand \/ removeClientCommand \/ initCommands

MaskSpec == MaskInit /\ [][MaskNext]_maskVars

-----------------------------------------------------------------------------
(* When nothing is left to be handled and the engine is up, it reports     *)
(* exactly the events somebody is registered for: every event a client's   *)
(* callback needs, AGPS and ODCPI requests once they are registered, what  *)
(* the other adapters ask for, and no event for a client that is gone.     *)
EngineMaskExact ==
  engineUp /\ maskQ = <<>> =>
    engineMask = ((UNION {mEvtMask[a] : a \in registered \ {Gnss}})
                    \cup ClientEvents(mClientData)
                    \cup (AutomotiveEvents \cap mEvtMask[Gnss])
                    \cup (IF cbPriority > 0 THEN {"server"} ELSE {})
                    \cup (IF odcpiCb THEN {"wifi"} ELSE {})) \ mExcludedMask

(* Every adapter that is alive is reached by the engine's reports, none    *)
(* that was deleted is, and GnssAdapter gets the reports only it handles,  *)
(* however adapters were added and removed.                                *)
AdaptersReached ==
  /\ \A r \in ToAll : Receivers(r) = registered
  /\ \A r \in GnssHandles : Receivers(r) = {Gnss}
=============================================================================
