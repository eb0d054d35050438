---------------------------- MODULE ReportProofs ----------------------------
(***************************************************************************)
(* Theorems about the engine's reports, the status cache and the generated *)
(* NMEA sentences, for any clients, reports, satellites and bounds.        *)
(*                                                                         *)
(* Reports: what DeliveredOnce needs is that a report's number is in one   *)
(* place only - with the ULP library, on the queue or delivered.  What     *)
(* SvMarksAreFresh needs is where the adapter's marks come from: they are  *)
(* available exactly while the last position delivered with used           *)
(* satellites has no satellite report after it, and are then that          *)
(* position's.                                                             *)
(*                                                                         *)
(* Status cache: the last entry of a history is what was reported last,    *)
(* but for the fields of a location that are not compared, which are those *)
(* of a report since the reset; of an item not reported since the reset it *)
(* is a default entry.                                                     *)
(*                                                                         *)
(* NMEA: the rank of an element numbers a finite set of naturals one to    *)
(* one (RankBijective), so the satellites of a system and the places of    *)
(* its GSV sentences are the same, and the sentences of a system are the   *)
(* full ones and a rest that SentenceCount counts.  No induction over the  *)
(* report is needed.                                                       *)
(***************************************************************************)
EXTENDS Reports, SystemStatus, Nmea, SequenceTheorems, FiniteSetTheorems, TLAPS

-----------------------------------------------------------------------------
(* Sequences whose elements are of several types, as the message queues    *)
(* and the log of deliveries are.                                          *)
IsSeq(s) == \E S : s \in Seq(S)

LEMMA MixedAppend ==
  ASSUME NEW s, IsSeq(s), NEW e
  PROVE  /\ IsSeq(Append(s, e)) /\ Len(s) \in Nat /\ DOMAIN s = 1..Len(s)
         /\ Len(Append(s, e)) = Len(s) + 1
         /\ DOMAIN Append(s, e) = 1..(Len(s) + 1)
         /\ \A i \in 1..Len(s) : Append(s, e)[i] = s[i]
         /\ Append(s, e)[Len(s) + 1] = e
  <1>1. PICK S : s \in Seq(S)
    BY DEF IsSeq
  <1> DEFINE T == S \cup {e}
  <1>2. s \in Seq(T) /\ e \in T
    BY <1>1
  <1> HIDE DEF T
  <1>3. Append(s, e) \in Seq(T)
    BY <1>2
  <1> QED BY <1>2, <1>3 DEF IsSeq

LEMMA MixedTail ==
  ASSUME NEW s, IsSeq(s), s # <<>>
  PROVE  /\ IsSeq(Tail(s)) /\ Len(s) \in Nat \ {0} /\ DOMAIN s = 1..Len(s)
         /\ Len(Tail(s)) = Len(s) - 1
         /\ DOMAIN Tail(s) = 1..(Len(s) - 1)
         /\ \A i \in 1..(Len(s) - 1) : Tail(s)[i] = s[i + 1]
         /\ Head(s) = s[1]
  <1>1. PICK S : s \in Seq(S)
    BY DEF IsSeq
  <1>2. Tail(s) \in Seq(S) /\ Len(s) \in Nat \ {0}
    BY <1>1
  <1> QED BY <1>1, <1>2 DEF IsSeq

(* A sequence that is not empty is its head and its tail.                  *)
LEMMA TailOf ==
  ASSUME NEW q, IsSeq(q), q # <<>>
  PROVE  \E n \in Nat : /\ IsSeq(Tail(q)) /\ DOMAIN q = 1..(n + 1) /\ DOMAIN Tail(q) = 1..n
                        /\ Head(q) = q[1] /\ 1 \in 1..(n + 1)
                        /\ \A k \in 1..n : k + 1 \in 1..(n + 1) /\ Tail(q)[k] = q[k + 1]
  <1>1. PICK n \in Nat : n = Len(q) - 1
    <2>1. Len(q) \in Nat \ {0}
      BY MixedTail
    <2> QED BY <2>1
  <1>2. Len(q) = n + 1 /\ Len(q) - 1 = n
    BY <1>1, MixedTail
  <1>3. /\ IsSeq(Tail(q)) /\ DOMAIN q = 1..(n + 1) /\ DOMAIN Tail(q) = 1..n /\ Head(q) = q[1]
        /\ \A k \in 1..n : Tail(q)[k] = q[k + 1]
    BY <1>2, MixedTail
  <1>4. 1 \in 1..(n + 1) /\ \A k \in 1..n : k + 1 \in 1..(n + 1)
    OBVIOUS
  <1> QED BY <1>3, <1>4

-----------------------------------------------------------------------------
(* The status cache.                                                       *)

LEMMA DefaultStored ==
  ASSUME NEW h, IsSeq(h), Len(h) <= maxItem, NEW e
  PROVE  LET d == setDefaultIteminReport(h, e) IN
         /\ IsSeq(d) /\ d # <<>> /\ Len(d) <= maxItem /\ Latest(d) = e
         /\ \A n \in DOMAIN d : d[n] = e \/ \E k \in DOMAIN h : d[n] = h[k]
  <1> USE StatusAssumption
  <1>1. PICK longer : longer = Append(h, e)
    OBVIOUS
  <1>2. /\ IsSeq(longer) /\ Len(h) \in Nat /\ DOMAIN h = 1..Len(h)
        /\ Len(longer) = Len(h) + 1 /\ DOMAIN longer = 1..(Len(h) + 1)
        /\ \A i \in 1..Len(h) : longer[i] = h[i]
        /\ longer[Len(h) + 1] = e
    BY <1>1, MixedAppend
  <1>3. longer # <<>>
    BY <1>2
  <1>4. CASE Len(longer) > maxItem
    <2>1. PICK d : d = Tail(longer)
      OBVIOUS
    <2>2. /\ IsSeq(d) /\ Len(d) = Len(h) /\ DOMAIN d = 1..Len(h)
          /\ \A i \in 1..Len(h) : d[i] = longer[i + 1]
      BY <1>2, <1>3, <2>1, MixedTail
    <2>3. Len(h) >= 1
      BY <1>2, <1>4
    <2>4. d # <<>> /\ d[Len(d)] = e /\ Len(d) <= maxItem
      BY <1>2, <2>2, <2>3
    <2>5. \A n \in DOMAIN d : d[n] = e \/ \E k \in DOMAIN h : d[n] = h[k]
      <3> TAKE n \in DOMAIN d
      <3>1. CASE n = Len(h)
        BY <1>2, <2>2, <2>3, <3>1
      <3>2. CASE n # Len(h)
        <4>1. n + 1 \in DOMAIN h /\ d[n] = h[n + 1]
          BY <1>2, <2>2, <3>2
        <4> QED BY <4>1
      <3> QED BY <3>1, <3>2
    <2>6. setDefaultIteminReport(h, e) = d
      BY <1>1, <1>4, <2>1 DEF setDefaultIteminReport
    <2> QED BY <2>2, <2>4, <2>5, <2>6 DEF Latest
  <1>5. CASE ~(Len(longer) > maxItem)
    <2>1. setDefaultIteminReport(h, e) = longer
      BY <1>1, <1>5 DEF setDefaultIteminReport
    <2>2. Len(longer) <= maxItem /\ longer[Len(longer)] = e
      BY <1>2, <1>5
    <2>3. \A n \in DOMAIN longer : longer[n] = e \/ \E k \in DOMAIN h : longer[n] = h[k]
      BY <1>2
    <2> QED BY <1>2, <1>3, <2>1, <2>2, <2>3 DEF Latest
  <1> QED BY <1>4, <1>5

LEMMA ItemStored ==
  ASSUME NEW h, IsSeq(h), Len(h) <= maxItem, NEW e
  PROVE  LET d == setIteminReport(h, e) IN
         /\ IsSeq(d) /\ d # <<>> /\ Len(d) <= maxItem /\ Latest(d).key = e.key
         /\ Latest(d) = e \/ (h # <<>> /\ Latest(d) = Latest(h))
         /\ \A n \in DOMAIN d : d[n] = e \/ \E k \in DOMAIN h : d[n] = h[k]
  BY DefaultStored DEF setIteminReport

LEMMA DefaultFacts ==
  ASSUME NEW i, NEW garbage
  PROVE  /\ DefaultEntry(i, garbage).valid = FALSE
         /\ i # "mLocation" => DefaultEntry(i, garbage).rest = 0
         /\ i \in PairItems => DefaultEntry(i, garbage).key = <<0, 0>>
         /\ i \notin PairItems \cup {"mLocation"} => DefaultEntry(i, garbage).key = 0
  <1>1. CASE i = "mLocation"
    BY <1>1 DEF DefaultEntry, PairItems
  <1>2. CASE i \in PairItems
    BY <1>2 DEF DefaultEntry, PairItems
  <1>3. CASE i \notin PairItems \cup {"mLocation"}
    BY <1>3 DEF DefaultEntry
  <1> QED BY <1>1, <1>2, <1>3

(* The items a sentence gives entries to.  Time and clock and the RF and   *)
(* parameters come from the same sentence, and only a location has fields  *)
(* that are not compared.                                                  *)
SentenceEntries(entries) ==
  /\ DOMAIN entries \subseteq EngineItems
  /\ \A i \in DOMAIN entries : entries[i].valid \in BOOLEAN
  /\ \A i \in DOMAIN entries : i # "mLocation" => entries[i].rest = 0
  /\ "mTimeAndClock" \in DOMAIN entries <=> "mRfAndParams" \in DOMAIN entries

LEMMA SentenceGives ==
  ASSUME NEW s \in Sentences, NEW n, NEW v, NEW entries \in EntriesOf(s, n, v)
  PROVE  SentenceEntries(entries)
  <1>1. CASE s = "$PQWM1"
    <2>1. PICK m1 : m1 = PQWM1(n, v)
      OBVIOUS
    <2>2. entries = [i \in {"mTimeAndClock", "mXoState", "mRfAndParams", "mErrRecovery"} |->
                       CASE i = "mTimeAndClock" -> TimeAndClock(m1) [] i = "mXoState" -> XoState(m1)
                         [] i = "mRfAndParams" -> RfAndParams(m1)   [] OTHER -> ErrRecovery(m1)]
      BY <1>1, <2>1 DEF EntriesOf
    <2> QED BY <2>2 DEF SentenceEntries, EngineItems, PairItems, TimeAndClock, XoState, RfAndParams,
                        ErrRecovery
  <1>2. ASSUME NEW item \in EngineItems \ PairItems, NEW e, e.valid = TRUE, e.rest = 0,
               entries = [i \in {item} |-> e]
        PROVE  SentenceEntries(entries)
    BY <1>2 DEF SentenceEntries, PairItems
  <1>3. CASE s = "$PQWP1"
    <2>1. PICK r \in PQWP1(n, v) : entries = [i \in {"mInjectedPosition"} |-> InjectedPosition(r)]
      BY <1>3 DEF EntriesOf, Entries
    <2>2. InjectedPosition(r).valid = TRUE /\ InjectedPosition(r).rest = 0
      BY DEF InjectedPosition
    <2> QED BY <1>2, <2>1, <2>2 DEF EngineItems, PairItems
  <1>4. CASE s = "$PQWP2"
    <2>1. PICK r \in PQWP2(n, v) : entries = [i \in {"mBestPosition"} |-> BestPosition(r)]
      BY <1>4 DEF EntriesOf, Entries
    <2>2. BestPosition(r).valid = TRUE /\ BestPosition(r).rest = 0
      BY DEF BestPosition
    <2> QED BY <1>2, <2>1, <2>2 DEF EngineItems, PairItems
  <1>5. CASE s = "$PQWP3"
    <2>1. PICK r \in PQWP3(n, v) : entries = [i \in {"mXtra"} |-> Xtra(r)]
      BY <1>5 DEF EntriesOf, Entries
    <2>2. Xtra(r).valid = TRUE /\ Xtra(r).rest = 0
      BY DEF Xtra
    <2> QED BY <1>2, <2>1, <2>2 DEF EngineItems, PairItems
  <1>6. CASE s = "$PQWP4"
    <2>1. PICK r \in PQWP4(n, v) : entries = [i \in {"mEphemeris"} |-> Ephemeris(r)]
      BY <1>6 DEF EntriesOf, Entries
    <2>2. Ephemeris(r).valid = TRUE /\ Ephemeris(r).rest = 0
      BY DEF Ephemeris
    <2> QED BY <1>2, <2>1, <2>2 DEF EngineItems, PairItems
  <1>7. CASE s = "$PQWP5"
    <2>1. PICK r \in PQWP5(n, v) : entries = [i \in {"mSvHealth"} |-> SvHealth(r)]
      BY <1>7 DEF EntriesOf, Entries
    <2>2. SvHealth(r).valid = TRUE /\ SvHealth(r).rest = 0
      BY DEF SvHealth
    <2> QED BY <1>2, <2>1, <2>2 DEF EngineItems, PairItems
  <1>8. CASE s = "$PQWP6"
    <2>1. PICK r \in PQWP6(n, v) : entries = [i \in {"mPdr"} |-> Pdr(r)]
      BY <1>8 DEF EntriesOf, Entries
    <2>2. Pdr(r).valid = TRUE /\ Pdr(r).rest = 0
      BY DEF Pdr
    <2> QED BY <1>2, <2>1, <2>2 DEF EngineItems, PairItems
  <1>9. CASE s = "$PQWP7"
    <2>1. PICK r \in PQWP7(n, v) : entries = [i \in {"mNavData"} |-> NavData(r)]
      BY <1>9 DEF EntriesOf, Entries
    <2>2. NavData(r).valid = TRUE /\ NavData(r).rest = 0
      BY DEF NavData
    <2> QED BY <1>2, <2>1, <2>2 DEF EngineItems, PairItems
  <1>10. CASE s = "$PQWS1"
    <2>1. PICK r \in PQWS1(n, v) : entries = [i \in {"mPositionFailure"} |-> PositionFailure(r)]
      BY <1>10 DEF EntriesOf, Entries
    <2>2. PositionFailure(r).valid = TRUE /\ PositionFailure(r).rest = 0
      BY DEF PositionFailure
    <2> QED BY <1>2, <2>1, <2>2 DEF EngineItems, PairItems
  <1> QED BY <1>1, <1>3, <1>4, <1>5, <1>6, <1>7, <1>8, <1>9, <1>10 DEF Sentences

HistoryOK(h) ==
  IsSeq(h) /\ Len(h) <= maxItem /\ \A n \in DOMAIN h : h[n].valid \in BOOLEAN

(* The entry read of an item that was reported since the reset has the key *)
(* of the last report; every entry read is a default one or has the        *)
(* contents of a report since the reset; and but for a location the key    *)
(* is all of the contents.                                                 *)
ItemCurrent(i) ==
  /\ since[i] # {} => /\ mCache[i] # <<>> /\ Latest(mCache[i]).key = reported[i].key
                      /\ Contents(reported[i]) \in since[i]
  /\ mCache[i] # <<>> => \/ Contents(Latest(mCache[i])) \in since[i]
                         \/ \E garbage : Latest(mCache[i]) = DefaultEntry(i, garbage)
  /\ i # "mLocation" => /\ reported[i].rest = 0
                        /\ mCache[i] # <<>> => Latest(mCache[i]).rest = 0

StatusInv ==
  /\ DOMAIN mCache = EngineItems /\ DOMAIN reported = EngineItems /\ DOMAIN since = EngineItems
  /\ statusEvents \in 0..MaxStatusEvents
  /\ \A i \in EngineItems : HistoryOK(mCache[i]) /\ ItemCurrent(i)
  /\ since["mTimeAndClock"] # {} <=> since["mRfAndParams"] # {}

(* Storing entries of a sentence or a position.                            *)
LEMMA EntriesStored ==
  ASSUME StatusInv, NEW entries, SentenceEntries(entries), Report(entries)
  PROVE  StatusInv'
  <1>1. /\ mCache' = [i \in EngineItems |->
                        IF i \in DOMAIN entries THEN setIteminReport(mCache[i], entries[i]) ELSE mCache[i]]
        /\ reported' = [i \in EngineItems |-> IF i \in DOMAIN entries THEN entries[i] ELSE reported[i]]
        /\ since' = [i \in EngineItems |->
                       IF i \in DOMAIN entries THEN since[i] \cup {Contents(entries[i])} ELSE since[i]]
        /\ statusEvents < MaxStatusEvents /\ statusEvents' = statusEvents + 1
    BY DEF Report, Store, StatusInv
  <1>2. ASSUME NEW i \in EngineItems
        PROVE  HistoryOK(mCache[i])' /\ ItemCurrent(i)'
    <2>1. HistoryOK(mCache[i]) /\ ItemCurrent(i)
      BY DEF StatusInv
    <2>2. CASE i \in DOMAIN entries
      <3>1. PICK e : e = entries[i] /\ e.valid \in BOOLEAN /\ (i # "mLocation" => e.rest = 0)
        BY <2>2 DEF SentenceEntries
      <3>2. PICK d : d = setIteminReport(mCache[i], e)
        OBVIOUS
      <3>3. /\ IsSeq(d) /\ d # <<>> /\ Len(d) <= maxItem /\ Latest(d).key = e.key
            /\ Latest(d) = e \/ (mCache[i] # <<>> /\ Latest(d) = Latest(mCache[i]))
            /\ \A n \in DOMAIN d : d[n] = e \/ \E k \in DOMAIN mCache[i] : d[n] = mCache[i][k]
        BY <2>1, <3>2, ItemStored DEF HistoryOK
      <3>4. \A n \in DOMAIN d : d[n].valid \in BOOLEAN
        BY <2>1, <3>1, <3>3 DEF HistoryOK
      <3>5. /\ mCache'[i] = d /\ reported'[i] = e /\ since'[i] = since[i] \cup {Contents(e)}
        BY <1>1, <2>2, <3>1, <3>2
      <3>6. \/ Contents(Latest(d)) \in since[i] \cup {Contents(e)}
            \/ \E garbage : Latest(d) = DefaultEntry(i, garbage)
        BY <2>1, <3>3 DEF ItemCurrent
      <3>7. i # "mLocation" => e.rest = 0 /\ Latest(d).rest = 0
        BY <2>1, <3>1, <3>3 DEF ItemCurrent
      <3> QED BY <3>3, <3>4, <3>5, <3>6, <3>7 DEF HistoryOK, ItemCurrent
    <2>3. CASE i \notin DOMAIN entries
      <3>1. mCache'[i] = mCache[i] /\ reported'[i] = reported[i] /\ since'[i] = since[i]
        BY <1>1, <2>3
      <3> QED BY <2>1, <3>1 DEF HistoryOK, ItemCurrent
    <2> QED BY <2>2, <2>3
  <1>3. statusEvents' \in 0..MaxStatusEvents
    BY <1>1, StatusAssumption DEF StatusInv
  <1>4. since'["mTimeAndClock"] # {} <=> since'["mRfAndParams"] # {}
    <2>1. "mTimeAndClock" \in EngineItems /\ "mRfAndParams" \in EngineItems
      BY DEF EngineItems, PairItems
    <2> QED BY <1>1, <2>1 DEF StatusInv, SentenceEntries
  <1> QED BY <1>1, <1>2, <1>3, <1>4 DEF StatusInv

LEMMA ResetStored ==
  ASSUME StatusInv, setDefaultGnssEngineStates
  PROVE  StatusInv'
  <1>1. PICK garbage : /\ Store([i \in EngineItems |-> DefaultEntry(i, garbage)], setDefaultIteminReport)
                       /\ since' = [i \in DOMAIN since |-> {}]
    BY DEF setDefaultGnssEngineStates
  <1>2. /\ mCache' = [i \in EngineItems |->
                        setDefaultIteminReport(mCache[i], DefaultEntry(i, garbage))]
        /\ reported' = [i \in EngineItems |-> DefaultEntry(i, garbage)]
        /\ since' = [i \in EngineItems |-> {}]
        /\ statusEvents < MaxStatusEvents /\ statusEvents' = statusEvents + 1
    BY <1>1 DEF Store, StatusInv
  <1>3. ASSUME NEW i \in EngineItems
        PROVE  HistoryOK(mCache[i])' /\ ItemCurrent(i)'
    <2>1. HistoryOK(mCache[i])
      BY DEF StatusInv
    <2>2. PICK e : /\ e = DefaultEntry(i, garbage) /\ e.valid = FALSE
                   /\ i # "mLocation" => e.rest = 0
      BY DefaultFacts
    <2>3. PICK d : d = setDefaultIteminReport(mCache[i], e)
      OBVIOUS
    <2>4. /\ IsSeq(d) /\ d # <<>> /\ Len(d) <= maxItem /\ Latest(d) = e
          /\ \A n \in DOMAIN d : d[n] = e \/ \E k \in DOMAIN mCache[i] : d[n] = mCache[i][k]
      BY <2>1, <2>3, DefaultStored DEF HistoryOK
    <2>5. \A n \in DOMAIN d : d[n].valid \in BOOLEAN
      BY <2>1, <2>2, <2>4 DEF HistoryOK
    <2>6. mCache'[i] = d /\ reported'[i] = e /\ since'[i] = {}
      BY <1>2, <2>2, <2>3
    <2> QED BY <2>2, <2>4, <2>5, <2>6 DEF HistoryOK, ItemCurrent
  <1>4. statusEvents' \in 0..MaxStatusEvents
    BY <1>2, StatusAssumption DEF StatusInv
  <1>5. DOMAIN mCache' = EngineItems /\ DOMAIN reported' = EngineItems /\ DOMAIN since' = EngineItems
    BY <1>2
  <1>6. since'["mTimeAndClock"] = {} /\ since'["mRfAndParams"] = {}
    BY <1>2 DEF EngineItems, PairItems
  <1> QED BY <1>3, <1>4, <1>5, <1>6 DEF StatusInv

LEMMA StatusInvariant == StatusSpec => []StatusInv
  <1>1. ASSUME StatusInit
        PROVE  StatusInv
    <2>1. IsSeq(<<>>) /\ Len(<<>>) = 0 /\ DOMAIN <<>> = {}
      <3>1. <<>> \in Seq({})
        OBVIOUS
      <3> QED BY <3>1 DEF IsSeq
    <2>2. /\ DOMAIN mCache = EngineItems /\ DOMAIN reported = EngineItems /\ DOMAIN since = EngineItems
          /\ statusEvents = 0
      BY <1>1 DEF StatusInit
    <2>3. \A i \in EngineItems : mCache[i] = <<>> /\ since[i] = {} /\ reported[i].rest = 0
      BY <1>1 DEF StatusInit, NoEntry
    <2>4. \A i \in EngineItems : HistoryOK(mCache[i]) /\ ItemCurrent(i)
      BY <2>1, <2>3, StatusAssumption DEF HistoryOK, ItemCurrent
    <2>5. since["mTimeAndClock"] = {} /\ since["mRfAndParams"] = {}
      BY <2>3 DEF EngineItems, PairItems
    <2> QED BY <2>2, <2>4, <2>5, StatusAssumption DEF StatusInv
  <1>2. ASSUME StatusInv, [StatusNext]_statusVars
        PROVE  StatusInv'
    <2>1. CASE setNmeaString
      <3>1. PICK s \in Sentences, n \in FieldCounts, v \in Levels :
              \E entries \in EntriesOf(s, n, v) : Report(entries)
        BY <2>1 DEF setNmeaString
      <3>2. PICK entries \in EntriesOf(s, n, v) : Report(entries)
        BY <3>1
      <3>3. SentenceEntries(entries)
        BY <3>2, SentenceGives
      <3> QED BY <1>2, <3>2, <3>3, EntriesStored
    <2>2. CASE eventPosition
      <3>1. PICK pos \in Levels, motion \in Levels :
              Report([i \in {"mLocation"} |-> LastLocation(pos, motion)])
        BY <2>2 DEF eventPosition
      <3>2. PICK entries : entries = [i \in {"mLocation"} |-> LastLocation(pos, motion)]
        OBVIOUS
      <3>3. SentenceEntries(entries)
        BY <3>2 DEF SentenceEntries, EngineItems, LastLocation
      <3> QED BY <1>2, <3>1, <3>2, <3>3, EntriesStored
    <2>3. CASE UNCHANGED statusVars
      BY <1>2, <2>3 DEF statusVars, StatusInv, HistoryOK, ItemCurrent
    <2> QED BY <1>2, <2>1, <2>2, <2>3, ResetStored DEF StatusNext
  <1> QED BY <1>1, <1>2, PTL DEF StatusSpec

(* The histories of the status cache stay within maxItem entries, whatever *)
(* sentences, positions and resets come.                                   *)
THEOREM StatusTypeCorrect == StatusSpec => []StatusTypeOK
  <1>1. StatusInv => StatusTypeOK
    BY DEF StatusInv, HistoryOK, StatusTypeOK
  <1> QED BY <1>1, StatusInvariant, PTL

(* The debug report and the gain of the measurements present only what was *)
(* reported since the aiding data was last deleted, and of it the latest,  *)
(* of a location the latest position with a speed and accuracies that came *)
(* with a report of it: for any size of the histories and any order of     *)
(* sentences, positions and resets (getReport, getDebugReport,             *)
(* getAgcInformation).                                                     *)
THEOREM DebugIsCurrent == StatusSpec => []DebugReportIsCurrent
  <1>1. ASSUME StatusInv
        PROVE  DebugReportIsCurrent
    <2>1. PICK r : r = getReport
      OBVIOUS
    <2>2. \A i \in EngineItems : r[i] = IF mCache[i] = <<>> THEN NoEntry ELSE Latest(mCache[i])
      BY <1>1, <2>1 DEF getReport, StatusInv
    <2> DEFINE Current(i) == /\ Contents(r[i]) \in since[i] /\ r[i].key = reported[i].key
                             /\ i # "mLocation" => Contents(r[i]) = Contents(reported[i])
               Default(i) == r[i] = NoEntry \/ \E garbage : r[i] = DefaultEntry(i, garbage)
    <2>3. ASSUME NEW i \in EngineItems, ~Default(i)
          PROVE  Current(i)
      <3>1. ItemCurrent(i) /\ mCache[i] # <<>> /\ r[i] = Latest(mCache[i])
        BY <1>1, <2>2, <2>3 DEF StatusInv
      <3>2. Contents(r[i]) \in since[i] /\ r[i].key = reported[i].key
        BY <2>3, <3>1 DEF ItemCurrent
      <3>3. i # "mLocation" => r[i].rest = 0 /\ reported[i].rest = 0
        BY <3>1 DEF ItemCurrent
      <3> QED BY <3>2, <3>3 DEF Contents
    <2>4. ASSUME NEW i \in EngineItems, Default(i)
          PROVE  /\ r[i].valid = FALSE
                 /\ i \notin PairItems \cup {"mLocation"} => r[i].key = 0
      <3>1. CASE r[i] = NoEntry
        BY <3>1 DEF NoEntry
      <3>2. ASSUME NEW garbage, r[i] = DefaultEntry(i, garbage)
            PROVE  /\ r[i].valid = FALSE
                   /\ i \notin PairItems \cup {"mLocation"} => r[i].key = 0
        <4>1. /\ DefaultEntry(i, garbage).valid = FALSE
              /\ i \notin PairItems \cup {"mLocation"} => DefaultEntry(i, garbage).key = 0
          BY DefaultFacts
        <4> QED BY <3>2, <4>1
      <3> QED BY <2>4, <3>1, <3>2
    <2>5. \A i \in convertSatelliteInfo : i \in EngineItems /\ (Default(i) => r[i].key = 0)
      <3>1. \A i \in convertSatelliteInfo : i \in EngineItems /\ i \notin PairItems \cup {"mLocation"}
        BY DEF convertSatelliteInfo, EngineItems, PairItems
      <3> QED BY <2>4, <3>1
    <2>6. ASSUME NEW i \in getDebugData(r)
          PROVE  Current(i)
      <3>1. CASE i \in convertSatelliteInfo
        <4>1. r[i].key # 0
          BY <3>1 DEF getDebugData, convertGnssEphemeris
        <4> QED BY <2>3, <2>5, <3>1, <4>1
      <3>2. CASE i \notin convertSatelliteInfo
        <4>1. i \in EngineItems /\ r[i].valid
          BY <3>2 DEF getDebugData, getDebugReport, DebugLocation, EngineItems, PairItems
        <4> QED BY <2>3, <2>4, <4>1
      <3> QED BY <3>1, <3>2
    <2>7. ASSUME NEW i \in AgcItems(r)
          PROVE  Current(i)
      <3>1. /\ i = "mRfAndParams" /\ mCache["mRfAndParams"] # <<>> /\ mCache["mTimeAndClock"] # <<>>
            /\ r["mTimeAndClock"].key # <<0, 0>>
            /\ "mTimeAndClock" \in EngineItems /\ i \in EngineItems /\ i # "mLocation"
        BY DEF AgcItems, EngineItems, PairItems
      <3>2. since["mTimeAndClock"] # {}
        <4>1. r["mTimeAndClock"] = Latest(mCache["mTimeAndClock"])
          BY <2>2, <3>1
        <4>2. since["mTimeAndClock"] = {} =>
                \E garbage : r["mTimeAndClock"] = DefaultEntry("mTimeAndClock", garbage)
          BY <1>1, <3>1, <4>1 DEF StatusInv, ItemCurrent
        <4> QED BY <3>1, <4>2, DefaultFacts DEF PairItems
      <3>3. since[i] # {} /\ ItemCurrent(i) /\ r[i] = Latest(mCache[i]) /\ mCache[i] # <<>>
        BY <1>1, <2>2, <3>1, <3>2 DEF StatusInv
      <3>4. /\ r[i].key = reported[i].key /\ r[i].rest = 0 /\ reported[i].rest = 0
            /\ Contents(reported[i]) \in since[i]
        BY <3>1, <3>3 DEF ItemCurrent
      <3> QED BY <3>4 DEF Contents
    <2> HIDE DEF Default
    <2> QED BY <2>1, <2>6, <2>7 DEF DebugReportIsCurrent
  <1> QED BY <1>1, StatusInvariant, PTL

-----------------------------------------------------------------------------
(* The reports.  A message of the queue is a numbered report or a command. *)
IsReport(m) == "n" \in DOMAIN m

GoodReport(r) ==
  /\ r.kind \in ReportKinds
  /\ r.kind = "sv" => r.svs \in Seq(SvInView)
  /\ r.kind = "position" => r.used \subseteq UsedSv

MessageOK(m, last) ==
  IF IsReport(m) THEN "type" \notin DOMAIN m /\ m.n \in 1..last /\ GoodReport(m.report)
  ELSE /\ m.type = "setUlp" => m.ulp \in BOOLEAN
       /\ m.type \in {"add", "remove"} => m.client \in ReportClients

ReportTypeInv ==
  /\ {ulpInstalled, mGnssSvIdUsedInPosAvail} \subseteq BOOLEAN
  /\ mGnssSvIdUsedInPosition \subseteq UsedSv
  /\ IsSeq(reportQ) /\ IsSeq(delivered)
  /\ \A h \in ulpHeld : IsReport(h) /\ MessageOK(h, nReports)
  /\ \A i \in DOMAIN reportQ : MessageOK(reportQ[i], nReports)
  /\ listening \subseteq ReportClients /\ nReports \in 0..MaxReports
  /\ \A k \in DOMAIN delivered : /\ delivered[k].n \in 1..nReports
                                 /\ delivered[k].to \subseteq ReportClients

(* Where a number is: nowhere twice, and in one of the three places only.  *)
Held(n) == \E h \in ulpHeld : h.n = n
Queued(n) == \E i \in DOMAIN reportQ : IsReport(reportQ[i]) /\ reportQ[i].n = n
Logged(n) == \E k \in DOMAIN delivered : delivered[k].n = n

NumbersInv ==
  /\ \A g, h \in ulpHeld : g.n = h.n => g = h
  /\ \A i, j \in DOMAIN reportQ : /\ IsReport(reportQ[i]) /\ IsReport(reportQ[j])
                                  /\ reportQ[i].n = reportQ[j].n
                                  => i = j
  /\ DeliveredOnce
  /\ \A n \in 1..nReports : /\ Held(n) => ~Queued(n) /\ ~Logged(n)
                            /\ Queued(n) => ~Logged(n)

(* A position delivered with the satellites it used sets the marks.        *)
LastMarks(j) ==
  /\ j \in DOMAIN delivered /\ SetsMarks(delivered[j])
  /\ \A l \in (j + 1)..Len(delivered) : delivered[l].report.kind # "sv" /\ ~SetsMarks(delivered[l])

WasUsed(sv) == \E j \in DOMAIN delivered : LastMarks(j) /\ sv \in delivered[j].report.used

MarksInv ==
  /\ SvMarksAreFresh
  /\ mGnssSvIdUsedInPosAvail => \E j \in DOMAIN delivered : LastMarks(j)
  /\ \A j \in DOMAIN delivered : LastMarks(j) =>
       mGnssSvIdUsedInPosAvail /\ mGnssSvIdUsedInPosition = delivered[j].report.used

(* The i-th satellite of a delivery is flagged as SvMarksAreFresh asks.    *)
MarkOK(d, i) ==
  LET s == d.report.svs[i] IN
  /\ s.sv[2] \in 1..31 => (d.content[i].usedInFix <=> s.inFix \/ WasUsed(s.sv))
  /\ d.content[i].usedInFix => s.inFix \/ \E id \in 1..64 : WasUsed(<<s.sv[1], id>>)

ReportInv == ReportTypeInv /\ NumbersInv /\ MarksInv

-----------------------------------------------------------------------------
LEMMA FreshNext ==
  ASSUME \A k \in DOMAIN delivered' : delivered'[k].report.kind = "sv" =>
           \A i \in DOMAIN delivered'[k].content : MarkIsFresh(delivered', k, i)
  PROVE  SvMarksAreFresh'
  BY DEF SvMarksAreFresh, MarkIsFresh, UsedInLastFix, LastFix, SetsMarks

(* Nothing is delivered: the marks and the log stay.                       *)
LEMMA MarksStay ==
  ASSUME MarksInv, UNCHANGED <<usedVars, delivered>>
  PROVE  MarksInv'
  <1>1. SvMarksAreFresh'
    <2>1. ASSUME NEW k \in DOMAIN delivered', delivered'[k].report.kind = "sv",
                 NEW i \in DOMAIN delivered'[k].content
          PROVE  MarkIsFresh(delivered', k, i)
      BY <2>1 DEF MarksInv, SvMarksAreFresh
    <2> QED BY <2>1, FreshNext
  <1>2. \A j : LastMarks(j)' <=> LastMarks(j)
    BY DEF LastMarks, SetsMarks
  <1> QED BY <1>1, <1>2 DEF MarksInv, usedVars

(* A message joins the queue; if it is a report, its number was not there  *)
(* and is no longer held.                                                  *)
LEMMA Posted ==
  ASSUME ReportTypeInv, NumbersInv, NEW m, reportQ' = Append(reportQ, m), UNCHANGED delivered,
         UNCHANGED <<usedVars, ulpInstalled, listening>>,
         ulpHeld' \subseteq ulpHeld, nReports' \in 0..MaxReports, nReports' >= nReports,
         MessageOK(m, nReports'),
         IsReport(m) => ~Held(m.n)' /\ ~Queued(m.n) /\ ~Logged(m.n)
  PROVE  ReportTypeInv' /\ NumbersInv'
  <1> USE ReportAssumption DEF ReportAssumption
  <1>1. /\ IsSeq(reportQ') /\ Len(reportQ) \in Nat /\ DOMAIN reportQ = 1..Len(reportQ)
        /\ DOMAIN reportQ' = 1..(Len(reportQ) + 1)
        /\ \A i \in 1..Len(reportQ) : reportQ'[i] = reportQ[i]
        /\ reportQ'[Len(reportQ) + 1] = m
    BY MixedAppend DEF ReportTypeInv
  <1>2. \A k \in DOMAIN reportQ' : \/ k \in DOMAIN reportQ /\ reportQ'[k] = reportQ[k]
                                   \/ k = Len(reportQ) + 1 /\ reportQ'[k] = m
    BY <1>1
  <1>3. nReports \in Nat /\ nReports' \in Nat
    BY DEF ReportTypeInv
  <1>4. \A x : MessageOK(x, nReports) => MessageOK(x, nReports')
    BY <1>3 DEF MessageOK, IsReport
  <1>5. ReportTypeInv'
    <2>1. \A i \in DOMAIN reportQ' : MessageOK(reportQ'[i], nReports')
      BY <1>2, <1>4 DEF ReportTypeInv
    <2>2. \A h \in ulpHeld' : IsReport(h) /\ MessageOK(h, nReports')
      BY <1>4 DEF ReportTypeInv
    <2>3. \A k \in DOMAIN delivered' : delivered'[k].n \in 1..nReports'
      BY <1>3 DEF ReportTypeInv
    <2> QED BY <1>1, <2>1, <2>2, <2>3 DEF ReportTypeInv, usedVars, IsReport
  <1>6. \A n : /\ Held(n)' => Held(n)
               /\ Queued(n)' => Queued(n) \/ (IsReport(m) /\ n = m.n)
               /\ Logged(n)' <=> Logged(n)
    <2>1. \A n : Queued(n)' => Queued(n) \/ (IsReport(m) /\ n = m.n)
      BY <1>2 DEF Queued, IsReport
    <2> QED BY <2>1 DEF Held, Logged
  <1>7. \A n : Held(n) \/ Queued(n) \/ Logged(n) => n \in 1..nReports
    BY DEF Held, Queued, Logged, ReportTypeInv, MessageOK
  <1>8. \A i, j \in DOMAIN reportQ' : /\ IsReport(reportQ'[i]) /\ IsReport(reportQ'[j])
                                      /\ reportQ'[i].n = reportQ'[j].n
                                      => i = j
    <2>1. ASSUME NEW i \in DOMAIN reportQ, IsReport(reportQ[i]), IsReport(m)
          PROVE  reportQ[i].n # m.n
      BY <2>1 DEF Queued
    <2> QED BY <1>2, <2>1 DEF NumbersInv
  <1>9. \A n \in 1..nReports' : /\ Held(n)' => ~Queued(n)' /\ ~Logged(n)'
                                /\ Queued(n)' => ~Logged(n)'
    <2> TAKE n \in 1..nReports'
    <2>1. n \notin 1..nReports => ~Held(n) /\ ~Queued(n) /\ ~Logged(n)
      BY <1>7
    <2>2. /\ Held(n) => ~Queued(n) /\ ~Logged(n)
          /\ Queued(n) => ~Logged(n)
      BY <2>1 DEF NumbersInv
    <2>3. IsReport(m) /\ n = m.n => ~Held(n)' /\ ~Queued(n) /\ ~Logged(n)
      OBVIOUS
    <2> QED BY <1>6, <2>2, <2>3
  <1>10. DeliveredOnce'
    BY DEF NumbersInv, DeliveredOnce
  <1>11. \A g, h \in ulpHeld' : g.n = h.n => g = h
    BY DEF NumbersInv
  <1> QED BY <1>5, <1>8, <1>9, <1>10, <1>11 DEF NumbersInv, IsReport

LEMMA EngineReportsGood ==
  ASSUME NEW r \in EngineReports
  PROVE  /\ GoodReport(r)
         /\ \A s \in BOOLEAN : r.kind = "measurement" =>
              GoodReport([r EXCEPT !.measurements = getAgcInformation(r.measurements, s)])
  <1>1. GoodReport(r)
    BY ReportAssumption DEF ReportAssumption, GoodReport
  <1>2. ASSUME NEW s \in BOOLEAN, r.kind = "measurement"
        PROVE  GoodReport([r EXCEPT !.measurements = getAgcInformation(r.measurements, s)])
    <2>1. r \in [kind : ReportKinds, clock : SUBSET STRING,
                 measurements : Seq([sv : EngineSv, flags : SUBSET STRING])]
      BY <1>2, ReportAssumption DEF ReportAssumption
    <2>2. PICK a : a = getAgcInformation(r.measurements, s)
      OBVIOUS
    <2>3. [r EXCEPT !.measurements = a].kind = "measurement"
      BY <1>2, <2>1
    <2> QED BY <2>2, <2>3 DEF GoodReport, ReportKinds
  <1> QED BY <1>1, <1>2

(* A new report, under the next number.                                    *)
LEMMA EngineReported ==
  ASSUME ReportInv, NEW r, GoodReport(r), nReports < MaxReports, nReports' = nReports + 1,
         UNCHANGED <<ulpInstalled, usedVars, listening, delivered>>,
         SendReport(r) \/ UlpTakes(r)
  PROVE  ReportInv'
  <1> USE ReportAssumption DEF ReportAssumption
  <1>1. MarksInv'
    BY MarksStay DEF ReportInv
  <1>2. PICK m : m = Numbered(r)
    OBVIOUS
  <1>3. IsReport(m) /\ "type" \notin DOMAIN m /\ m.n = nReports + 1 /\ m.report = r
    BY <1>2 DEF Numbered, IsReport
  <1>4. nReports \in Nat /\ nReports' \in 0..MaxReports /\ nReports' >= nReports
    BY DEF ReportInv, ReportTypeInv
  <1>5. MessageOK(m, nReports')
    BY <1>3, <1>4 DEF MessageOK, IsReport, GoodReport
  <1>6. \A n : Held(n) \/ Queued(n) \/ Logged(n) => n \in 1..nReports
    BY DEF Held, Queued, Logged, ReportInv, ReportTypeInv, MessageOK
  <1>7. ~Held(m.n) /\ ~Queued(m.n) /\ ~Logged(m.n)
    BY <1>3, <1>4, <1>6
  <1>8. CASE SendReport(r)
    <2>1. reportQ' = Append(reportQ, m) /\ ulpHeld' = ulpHeld
      BY <1>2, <1>8 DEF SendReport
    <2>2. ~Held(m.n)'
      BY <1>7, <2>1 DEF Held
    <2> QED BY <1>1, <1>4, <1>5, <1>7, <2>1, <2>2, Posted DEF ReportInv
  <1>9. CASE UlpTakes(r)
    <2>1. ulpHeld' = ulpHeld \cup {m} /\ reportQ' = reportQ
      BY <1>2, <1>9 DEF UlpTakes
    <2>2. \A x : MessageOK(x, nReports) => MessageOK(x, nReports')
      BY <1>4 DEF MessageOK, IsReport
    <2>3. ReportTypeInv'
      <3>1. \A h \in ulpHeld' : IsReport(h) /\ MessageOK(h, nReports')
        BY <1>3, <1>5, <2>1, <2>2 DEF ReportInv, ReportTypeInv
      <3>2. \A i \in DOMAIN reportQ' : MessageOK(reportQ'[i], nReports')
        BY <2>1, <2>2 DEF ReportInv, ReportTypeInv
      <3>3. \A k \in DOMAIN delivered' : delivered'[k].n \in 1..nReports'
        BY <1>4 DEF ReportInv, ReportTypeInv
      <3> QED BY <1>4, <2>1, <3>1, <3>2, <3>3 DEF ReportInv, ReportTypeInv, usedVars, IsReport
    <2>4. \A n : /\ Held(n)' => Held(n) \/ n = m.n
                 /\ Queued(n)' <=> Queued(n)
                 /\ Logged(n)' <=> Logged(n)
      BY <2>1 DEF Held, Queued, Logged, IsReport
    <2>5. \A n \in 1..nReports' : /\ Held(n)' => ~Queued(n)' /\ ~Logged(n)'
                                  /\ Queued(n)' => ~Logged(n)'
      <3> TAKE n \in 1..nReports'
      <3>1. /\ Held(n) => ~Queued(n) /\ ~Logged(n)
            /\ Queued(n) => ~Logged(n)
        BY <1>6 DEF ReportInv, NumbersInv
      <3> QED BY <1>7, <2>4, <3>1
    <2>6. \A g, h \in ulpHeld' : g.n = h.n => g = h
      BY <1>7, <2>1 DEF ReportInv, NumbersInv, Held
    <2>7. NumbersInv'
      BY <2>1, <2>5, <2>6 DEF ReportInv, NumbersInv, DeliveredOnce, IsReport
    <2> QED BY <1>1, <2>3, <2>7 DEF ReportInv
  <1> QED BY <1>8, <1>9

(* The adapter's thread handles the head of the queue; a report it         *)
(* delivers takes the number from the queue to the log.                    *)
LEMMA HeadFacts ==
  ASSUME ReportTypeInv, reportQ # <<>>, reportQ' = Tail(reportQ)
  PROVE  /\ IsSeq(reportQ') /\ MessageOK(Head(reportQ), nReports)
         /\ 1 \in DOMAIN reportQ /\ Head(reportQ) = reportQ[1]
         /\ \A i \in DOMAIN reportQ' :
              i \in Nat /\ i + 1 \in DOMAIN reportQ \ {1} /\ reportQ'[i] = reportQ[i + 1]
  <1>1. /\ IsSeq(reportQ') /\ Len(reportQ) \in Nat \ {0} /\ DOMAIN reportQ = 1..Len(reportQ)
        /\ DOMAIN reportQ' = 1..(Len(reportQ) - 1)
        /\ \A i \in 1..(Len(reportQ) - 1) : reportQ'[i] = reportQ[i + 1]
        /\ Head(reportQ) = reportQ[1]
    BY MixedTail DEF ReportTypeInv
  <1>2. 1 \in DOMAIN reportQ
    BY <1>1
  <1>3. \A i \in 1..(Len(reportQ) - 1) : i \in Nat /\ i + 1 \in DOMAIN reportQ \ {1}
    BY <1>1
  <1>4. MessageOK(Head(reportQ), nReports)
    BY <1>1, <1>2 DEF ReportTypeInv
  <1> QED BY <1>1, <1>2, <1>3, <1>4

LEMMA TypesAfterHandling ==
  ASSUME ReportTypeInv, reportQ # <<>>, reportQ' = Tail(reportQ), UNCHANGED <<ulpHeld, nReports>>,
         {ulpInstalled', mGnssSvIdUsedInPosAvail'} \subseteq BOOLEAN,
         mGnssSvIdUsedInPosition' \subseteq UsedSv, listening' \subseteq ReportClients,
         IsSeq(delivered'),
         \A k \in DOMAIN delivered' : /\ delivered'[k].n \in 1..nReports
                                      /\ delivered'[k].to \subseteq ReportClients
  PROVE  ReportTypeInv'
  <1>1. \A i \in DOMAIN reportQ' : MessageOK(reportQ'[i], nReports)
    BY HeadFacts DEF ReportTypeInv
  <1> QED BY <1>1, HeadFacts DEF ReportTypeInv, IsReport

LEMMA NotDelivered ==
  ASSUME ReportInv, reportQ # <<>>, reportQ' = Tail(reportQ),
         UNCHANGED <<ulpHeld, nReports, delivered, usedVars>>,
         ulpInstalled' \in BOOLEAN, listening' \subseteq ReportClients
  PROVE  ReportInv'
  <1>1. ReportTypeInv'
    BY TypesAfterHandling DEF ReportInv, ReportTypeInv, usedVars
  <1>2. MarksInv'
    BY MarksStay DEF ReportInv
  <1>3. NumbersInv'
    <2>1. \A n : /\ Held(n)' <=> Held(n)
                 /\ Queued(n)' => Queued(n)
                 /\ Logged(n)' <=> Logged(n)
      <3>1. \A n : Queued(n)' => Queued(n)
        BY HeadFacts DEF ReportInv, Queued, IsReport
      <3> QED BY <3>1 DEF Held, Logged
    <2>2. \A n \in 1..nReports' : /\ Held(n)' => ~Queued(n)' /\ ~Logged(n)'
                                  /\ Queued(n)' => ~Logged(n)'
      BY <2>1 DEF ReportInv, NumbersInv
    <2>3. \A i, j \in DOMAIN reportQ' : /\ IsReport(reportQ'[i]) /\ IsReport(reportQ'[j])
                                        /\ reportQ'[i].n = reportQ'[j].n
                                        => i = j
      <3>1. ASSUME NEW i \in DOMAIN reportQ', NEW j \in DOMAIN reportQ',
                   IsReport(reportQ'[i]), IsReport(reportQ'[j]), reportQ'[i].n = reportQ'[j].n
            PROVE  i = j
        <4>1. i + 1 = j + 1 /\ i \in Nat /\ j \in Nat
          BY <3>1, HeadFacts DEF ReportInv, NumbersInv
        <4> QED BY <4>1
      <3> QED BY <3>1
    <2> QED BY <2>2, <2>3 DEF ReportInv, NumbersInv, DeliveredOnce, IsReport
  <1> QED BY <1>1, <1>2, <1>3 DEF ReportInv

LEMMA LogFacts ==
  ASSUME ReportTypeInv, NEW d, delivered' = Append(delivered, d)
  PROVE  /\ IsSeq(delivered') /\ Len(delivered) \in Nat /\ Len(delivered') = Len(delivered) + 1
         /\ DOMAIN delivered = 1..Len(delivered) /\ DOMAIN delivered' = 1..(Len(delivered) + 1)
         /\ \A k \in DOMAIN delivered : k \in DOMAIN delivered' /\ delivered'[k] = delivered[k]
         /\ delivered'[Len(delivered) + 1] = d
         /\ \A k \in DOMAIN delivered' : k = Len(delivered) + 1 \/ k \in DOMAIN delivered
  <1>1. /\ IsSeq(delivered') /\ Len(delivered) \in Nat /\ DOMAIN delivered = 1..Len(delivered)
        /\ Len(delivered') = Len(delivered) + 1
        /\ DOMAIN delivered' = 1..(Len(delivered) + 1)
        /\ \A i \in 1..Len(delivered) : delivered'[i] = delivered[i]
        /\ delivered'[Len(delivered) + 1] = d
    BY MixedAppend DEF ReportTypeInv
  <1> QED BY <1>1

LEMMA NumberDelivered ==
  ASSUME ReportInv, reportQ # <<>>, reportQ' = Tail(reportQ), IsReport(Head(reportQ)),
         UNCHANGED <<ulpHeld, nReports, ulpInstalled, listening>>,
         mGnssSvIdUsedInPosAvail' \in BOOLEAN, mGnssSvIdUsedInPosition' \subseteq UsedSv,
         NEW d, delivered' = Append(delivered, d), d.n = Head(reportQ).n,
         d.to \subseteq ReportClients
  PROVE  ReportTypeInv' /\ NumbersInv'
  <1>1. ReportTypeInv
    BY DEF ReportInv
  <1>2. d.n \in 1..nReports /\ Queued(d.n)
    BY <1>1, HeadFacts DEF MessageOK, Queued
  <1>3. ReportTypeInv'
    <2>1. \A k \in DOMAIN delivered' : /\ delivered'[k].n \in 1..nReports
                                       /\ delivered'[k].to \subseteq ReportClients
      BY <1>1, <1>2, LogFacts DEF ReportTypeInv
    <2> QED BY <1>1, <2>1, LogFacts, TypesAfterHandling DEF ReportTypeInv
  <1>4. \A n : /\ Held(n)' <=> Held(n)
               /\ Queued(n)' => Queued(n) /\ n # d.n
               /\ Logged(n)' => Logged(n) \/ n = d.n
    <2>1. ASSUME NEW n, Queued(n)'
          PROVE  Queued(n) /\ n # d.n
      <3>1. PICK i \in DOMAIN reportQ' : IsReport(reportQ'[i]) /\ reportQ'[i].n = n
        BY <2>1 DEF Queued, IsReport
      <3>2. i + 1 \in DOMAIN reportQ \ {1} /\ IsReport(reportQ[i + 1]) /\ reportQ[i + 1].n = n
        BY <1>1, <3>1, HeadFacts
      <3>3. n # d.n
        BY <1>1, <3>2, HeadFacts DEF ReportInv, NumbersInv
      <3> QED BY <3>2, <3>3 DEF Queued
    <2>2. \A n : Logged(n)' => Logged(n) \/ n = d.n
      BY <1>1, LogFacts DEF Logged
    <2> QED BY <2>1, <2>2 DEF Held
  <1>5. NumbersInv'
    <2>1. ~Held(d.n) /\ ~Logged(d.n)
      BY <1>2 DEF ReportInv, NumbersInv
    <2>2. \A n \in 1..nReports' : /\ Held(n)' => ~Queued(n)' /\ ~Logged(n)'
                                  /\ Queued(n)' => ~Logged(n)'
      BY <1>4, <2>1 DEF ReportInv, NumbersInv
    <2>3. \A i, j \in DOMAIN reportQ' : /\ IsReport(reportQ'[i]) /\ IsReport(reportQ'[j])
                                        /\ reportQ'[i].n = reportQ'[j].n
                                        => i = j
      <3>1. ASSUME NEW i \in DOMAIN reportQ', NEW j \in DOMAIN reportQ',
                   IsReport(reportQ'[i]), IsReport(reportQ'[j]), reportQ'[i].n = reportQ'[j].n
            PROVE  i = j
        <4>1. i + 1 = j + 1 /\ i \in Nat /\ j \in Nat
          BY <1>1, <3>1, HeadFacts DEF ReportInv, NumbersInv
        <4> QED BY <4>1
      <3> QED BY <3>1
    <2>4. DeliveredOnce'
      <3>1. \A k \in DOMAIN delivered : delivered[k].n # d.n
        BY <2>1 DEF Logged
      <3>2. \A j, k \in DOMAIN delivered : delivered[j].n = delivered[k].n => j = k
        BY DEF ReportInv, NumbersInv, DeliveredOnce
      <3>3. \A j, k \in DOMAIN delivered' : delivered'[j].n = delivered'[k].n => j = k
        BY <1>1, <3>1, <3>2, LogFacts
      <3> QED BY <3>3 DEF DeliveredOnce
    <2> QED BY <2>2, <2>3, <2>4 DEF ReportInv, NumbersInv, IsReport
  <1> QED BY <1>3, <1>5

(* What a delivery does to the marks of earlier ones: nothing; and to the  *)
(* last position that set marks: it stays the last one unless another such *)
(* position or a satellite report is delivered.                            *)
LEMMA LogGrows ==
  ASSUME ReportTypeInv, SvMarksAreFresh, NEW d, delivered' = Append(delivered, d),
         d.report.kind = "sv" => \A i \in DOMAIN d.content : MarkOK(d, i)
  PROVE  SvMarksAreFresh'
  <1>1. PICK z : z = Len(delivered) + 1
    OBVIOUS
  <1>2. /\ z \in Nat /\ z - 1 = Len(delivered) /\ DOMAIN delivered = 1..(z - 1)
        /\ DOMAIN delivered' = 1..z /\ delivered'[z] = d
        /\ \A k \in 1..(z - 1) : delivered'[k] = delivered[k]
    BY <1>1, LogFacts
  <1>3. ASSUME NEW k \in 1..z, NEW j \in 1..(k - 1)
        PROVE  /\ j \in 1..(z - 1) /\ delivered'[j] = delivered[j]
               /\ \A l \in (j + 1)..(k - 1) : delivered'[l] = delivered[l]
    <2>1. j \in 1..(z - 1) /\ \A l \in (j + 1)..(k - 1) : l \in 1..(z - 1)
      BY <1>2
    <2> QED BY <1>2, <2>1
  <1>4. ASSUME NEW k \in 1..z, NEW sv
        PROVE  UsedInLastFix(delivered', k, sv) <=>
                 \E j \in 1..(k - 1) :
                   /\ SetsMarks(delivered[j]) /\ sv \in delivered[j].report.used
                   /\ \A l \in (j + 1)..(k - 1) : delivered[l].report.kind # "sv" /\ ~SetsMarks(delivered[l])
    <2>1. ASSUME NEW j \in 1..(k - 1)
          PROVE  /\ delivered'[j] = delivered[j]
                 /\ j \in LastFix(delivered', k) <=>
                      /\ SetsMarks(delivered[j])
                      /\ \A l \in (j + 1)..(k - 1) :
                           delivered[l].report.kind # "sv" /\ ~SetsMarks(delivered[l])
      <3>1. delivered'[j] = delivered[j] /\ \A l \in (j + 1)..(k - 1) : delivered'[l] = delivered[l]
        BY <1>3
      <3> QED BY <3>1, Zenon DEF LastFix
    <2>2. LastFix(delivered', k) \subseteq 1..(k - 1)
      BY DEF LastFix
    <2> QED BY <2>1, <2>2 DEF UsedInLastFix
  <1>5. ASSUME NEW sv
        PROVE  UsedInLastFix(delivered', z, sv) <=> WasUsed(sv)
    <2>1. z \in 1..z
      BY <1>1, <1>2, LogFacts
    <2> QED BY <1>2, <1>4, <2>1 DEF WasUsed, LastMarks
  <1>6. ASSUME NEW k \in 1..(z - 1), NEW sv
        PROVE  UsedInLastFix(delivered', k, sv) <=> UsedInLastFix(delivered, k, sv)
    <2>1. k \in 1..z
      BY <1>2
    <2> QED BY <1>4, <2>1 DEF UsedInLastFix, LastFix
  <1>7. ASSUME NEW k \in DOMAIN delivered', delivered'[k].report.kind = "sv",
               NEW i \in DOMAIN delivered'[k].content
        PROVE  MarkIsFresh(delivered', k, i)
    <2>1. CASE k = z
      <3>1. MarkOK(d, i) /\ delivered'[k] = d
        BY <1>2, <1>7, <2>1
      <3> QED BY <1>5, <2>1, <3>1 DEF MarkOK, MarkIsFresh
    <2>2. CASE k \in 1..(z - 1)
      <3>1. delivered'[k] = delivered[k] /\ k \in DOMAIN delivered
        BY <1>2, <2>2
      <3>2. MarkIsFresh(delivered, k, i)
        BY <1>7, <3>1 DEF SvMarksAreFresh
      <3> QED BY <1>6, <2>2, <3>1, <3>2 DEF MarkIsFresh
    <2> QED BY <1>2, <2>1, <2>2
  <1> QED BY <1>7, FreshNext

(* A delivery that is not of satellites and sets no marks leaves the last  *)
(* marks; any other ends them.                                             *)
LEMMA LastMarksStay ==
  ASSUME ReportTypeInv, NEW d, delivered' = Append(delivered, d),
         d.report.kind # "sv", ~SetsMarks(d)
  PROVE  /\ \A j \in DOMAIN delivered : j \in DOMAIN delivered' /\ delivered'[j] = delivered[j]
         /\ \A j \in DOMAIN delivered : LastMarks(j) => LastMarks(j)'
         /\ \A j \in DOMAIN delivered' : LastMarks(j)' => j \in DOMAIN delivered /\ LastMarks(j)
  <1>1. ASSUME NEW j \in DOMAIN delivered
        PROVE  \A l \in (j + 1)..Len(delivered') :
                 (l \in (j + 1)..Len(delivered) /\ l \in DOMAIN delivered) \/ l = Len(delivered) + 1
    BY LogFacts
  <1>2. ASSUME NEW j \in DOMAIN delivered
        PROVE  \A l \in (j + 1)..Len(delivered) : l \in (j + 1)..Len(delivered') /\ l \in DOMAIN delivered
    BY LogFacts
  <1>3. ASSUME NEW j \in DOMAIN delivered, LastMarks(j)
        PROVE  LastMarks(j)'
    BY <1>1, <1>3, LogFacts DEF LastMarks, SetsMarks
  <1>4. ASSUME NEW j \in DOMAIN delivered', LastMarks(j)'
        PROVE  j \in DOMAIN delivered /\ LastMarks(j)
    <2>1. SetsMarks(delivered'[j])
      BY <1>4 DEF LastMarks, SetsMarks
    <2>2. j \in DOMAIN delivered
      BY <2>1, LogFacts
    <2> QED BY <1>2, <1>4, <2>1, <2>2, LogFacts DEF LastMarks, SetsMarks
  <1> QED BY <1>3, <1>4, LogFacts

LEMMA LastMarksEnd ==
  ASSUME ReportTypeInv, NEW d, delivered' = Append(delivered, d),
         d.report.kind = "sv" \/ SetsMarks(d), NEW j \in DOMAIN delivered', LastMarks(j)'
  PROVE  j = Len(delivered) + 1 /\ SetsMarks(d)
  <1>1. PICK z : z = Len(delivered) + 1
    OBVIOUS
  <1>2. z \in Nat /\ DOMAIN delivered' = 1..z /\ Len(delivered') = z /\ delivered'[z] = d
    BY <1>1, LogFacts
  <1>3. \A l \in (j + 1)..z : delivered'[l].report.kind # "sv" /\ ~SetsMarks(delivered'[l])
    BY <1>2 DEF LastMarks, SetsMarks
  <1>4. z \notin (j + 1)..z
    BY <1>2, <1>3
  <1>5. j = z
    BY <1>2, <1>4
  <1>6. SetsMarks(delivered'[j])
    BY DEF LastMarks, SetsMarks
  <1> QED BY <1>1, <1>2, <1>5, <1>6

-----------------------------------------------------------------------------
(* The handlers.                                                           *)

LEMMA HeadReport ==
  ASSUME ReportInv, NEW kind, NextReport(kind)
  PROVE  /\ reportQ # <<>> /\ reportQ' = Tail(reportQ) /\ IsReport(Head(reportQ))
         /\ UNCHANGED <<ulpInstalled, ulpHeld, listening, nReports>>
         /\ GoodReport(Head(reportQ).report) /\ Head(reportQ).report.kind = kind
  <1>1. /\ reportQ # <<>> /\ reportQ' = Tail(reportQ) /\ IsReport(Head(reportQ))
        /\ UNCHANGED <<ulpInstalled, ulpHeld, listening, nReports>>
        /\ Head(reportQ).report.kind = kind
    BY DEF NextReport, IsReport
  <1>2. MessageOK(Head(reportQ), nReports)
    BY <1>1, HeadFacts DEF ReportInv
  <1> QED BY <1>1, <1>2 DEF MessageOK

(* The entry Deliver makes.                                                *)
LEMMA Delivery ==
  ASSUME ReportInv, NEW reported_ \in BOOLEAN, NEW cb, NEW content, Deliver(reported_, cb, content)
  PROVE  \E d : /\ delivered' = Append(delivered, d)
                /\ d.n = Head(reportQ).n /\ d.report = Head(reportQ).report
                /\ d.reported = reported_ /\ d.to \subseteq ReportClients /\ d.content = content
  <1>1. PICK to : to = IF reported_ THEN Hear(cb) ELSE {}
    OBVIOUS
  <1>2. to \subseteq ReportClients
    BY <1>1 DEF Hear, ReportInv, ReportTypeInv
  <1>3. PICK nmeaTo : nmeaTo = IF ApNmea /\ cb \in {"trackingCb", "gnssSvCb"} THEN Hear("gnssNmeaCb") ELSE {}
    OBVIOUS
  <1>4. PICK d : d = [n |-> Head(reportQ).n, report |-> Head(reportQ).report, reported |-> reported_,
                      to |-> to, nmeaTo |-> nmeaTo, content |-> content]
    OBVIOUS
  <1>5. delivered' = Append(delivered, d)
    BY <1>1, <1>3, <1>4 DEF Deliver
  <1>6. /\ d.n = Head(reportQ).n /\ d.report = Head(reportQ).report
        /\ d.to = to /\ d.content = content
    BY <1>4
  <1>7. d.reported = reported_
    BY <1>4
  <1> QED BY <1>2, <1>5, <1>6, <1>7

(* A report that sets no marks and is not of satellites.                   *)
LEMMA PlainDelivered ==
  ASSUME ReportInv, NEW kind, NextReport(kind), kind # "sv", UNCHANGED usedVars,
         NEW d, delivered' = Append(delivered, d),
         d.n = Head(reportQ).n, d.report = Head(reportQ).report, d.to \subseteq ReportClients,
         ~SetsMarks(d)
  PROVE  ReportInv'
  <1>1. d.report.kind # "sv" /\ IsReport(Head(reportQ)) /\ ReportTypeInv
    BY HeadReport DEF ReportInv
  <1>2. ReportTypeInv' /\ NumbersInv'
    BY HeadReport, NumberDelivered DEF ReportInv, ReportTypeInv, usedVars
  <1>3. SvMarksAreFresh'
    BY <1>1, LogGrows DEF ReportInv, MarksInv
  <1>4. MarksInv'
    BY <1>1, <1>3, LastMarksStay DEF ReportInv, MarksInv, usedVars
  <1> QED BY <1>2, <1>4 DEF ReportInv

LEMMA PositionStep ==
  ASSUME ReportInv, reportPosition
  PROVE  ReportInv'
  <1>1. PICK r : r = Head(reportQ).report
    OBVIOUS
  <1>2. /\ NextReport("position")
        /\ IF needReport(r) /\ r.hasUsed
             THEN mGnssSvIdUsedInPosAvail' = TRUE /\ mGnssSvIdUsedInPosition' = r.used
             ELSE UNCHANGED usedVars
        /\ IF needReport(r) \/ ApNmea THEN Deliver(needReport(r), "trackingCb", onTrackingCb(r))
                                       ELSE UNCHANGED delivered
    BY <1>1 DEF reportPosition
  <1>3. /\ reportQ # <<>> /\ reportQ' = Tail(reportQ) /\ IsReport(Head(reportQ))
        /\ UNCHANGED <<ulpInstalled, ulpHeld, listening, nReports>>
        /\ r.kind = "position" /\ r.used \subseteq UsedSv
    BY <1>1, <1>2, HeadReport DEF GoodReport
  <1>4. needReport(r) \in BOOLEAN
    BY DEF needReport
  <1>5. CASE needReport(r) \/ ApNmea
    <2>1. PICK content : content = onTrackingCb(r)
      OBVIOUS
    <2>2. PICK needed \in BOOLEAN : needed = needReport(r)
      BY <1>4
    <2>3. Deliver(needed, "trackingCb", content)
      BY <1>2, <1>5, <2>1, <2>2
    <2>4. PICK d : /\ delivered' = Append(delivered, d)
                   /\ d.n = Head(reportQ).n /\ d.report = r
                   /\ d.reported = needed /\ d.to \subseteq ReportClients /\ d.content = content
      BY <1>1, <2>3, Delivery
    <2>5. CASE needed /\ r.hasUsed
      <3>1. mGnssSvIdUsedInPosAvail' = TRUE /\ mGnssSvIdUsedInPosition' = r.used
        BY <1>2, <2>2, <2>5
      <3>2. ReportTypeInv' /\ NumbersInv'
        BY <1>3, <2>4, <3>1, NumberDelivered
      <3>3. SvMarksAreFresh'
        <4>1. d.report.kind # "sv"
          BY <1>3, <2>4
        <4> QED BY <2>4, <4>1, LogGrows DEF ReportInv, MarksInv
      <3>4. PICK j : j = Len(delivered) + 1
        OBVIOUS
      <3>5. /\ j \in DOMAIN delivered' /\ delivered'[j] = d
            /\ (j + 1)..Len(delivered') = {}
        BY <2>4, <3>4, LogFacts DEF ReportInv
      <3>6. SetsMarks(d)
        BY <1>3, <2>4, <2>5 DEF SetsMarks
      <3>7. LastMarks(j)'
        BY <3>5, <3>6 DEF LastMarks, SetsMarks
      <3>8. mGnssSvIdUsedInPosition' = delivered'[j].report.used
        BY <2>4, <3>1, <3>5
      <3>9. \A k \in DOMAIN delivered' : LastMarks(k)' => k = j
        BY <2>4, <3>4, <3>6, LastMarksEnd DEF ReportInv
      <3> QED BY <3>1, <3>2, <3>3, <3>5, <3>7, <3>8, <3>9 DEF ReportInv, MarksInv
    <2>6. CASE ~(needed /\ r.hasUsed)
      <3>1. UNCHANGED usedVars
        BY <1>2, <2>2, <2>6
      <3>2. ~SetsMarks(d)
        BY <2>4, <2>6 DEF SetsMarks
      <3> QED BY <1>1, <1>2, <2>4, <3>1, <3>2, PlainDelivered
    <2> QED BY <2>5, <2>6
  <1>6. CASE ~(needReport(r) \/ ApNmea)
    <2>1. UNCHANGED usedVars /\ UNCHANGED delivered
      BY <1>2, <1>6
    <2> QED BY <1>3, <2>1, NotDelivered DEF ReportInv, ReportTypeInv
  <1> QED BY <1>5, <1>6

LEMMA PairParts ==
  ASSUME NEW S, NEW T, NEW p \in S \X T
  PROVE  p = <<p[1], p[2]>> /\ p[1] \in S /\ p[2] \in T
  OBVIOUS

(* The flags shown are those of the satellites, in their order.            *)
LEMMA FlagsShown ==
  ASSUME NEW svs \in Seq(SvInView), NEW wraps, NEW i \in DOMAIN onGnssSvCb(svs, wraps)
  PROVE  i \in DOMAIN svs /\ onGnssSvCb(svs, wraps)[i].usedInFix = UsedInFix(svs[i], wraps)
  <1> USE ReportAssumption DEF ReportAssumption
  <1>1. PICK shown : shown = [k \in DOMAIN svs |->
                                [sv |-> Shown(svs[k].sv), inFix |-> UsedInFix(svs[k], wraps)]]
    OBVIOUS
  <1>2. onGnssSvCb(svs, wraps) = convertGnssSvStatus(shown)
    BY <1>1 DEF onGnssSvCb
  <1>3. Len(shown) = Len(svs) /\ Len(svs) \in Nat /\ DOMAIN svs = 1..Len(svs)
    <2>1. Len(svs) \in Nat /\ DOMAIN svs = 1..Len(svs)
      OBVIOUS
    <2>2. PICK S : S = {shown[k] : k \in DOMAIN svs}
      OBVIOUS
    <2>3. shown \in [1..Len(svs) -> S]
      BY <1>1, <2>1, <2>2
    <2>4. shown \in Seq(S)
      BY <2>1, <2>3, SeqDef
    <2>5. Len(shown) \in Nat /\ DOMAIN shown = 1..Len(shown)
      BY <2>4
    <2>6. 1..Len(shown) = 1..Len(svs)
      BY <1>1, <2>1, <2>5
    <2>7. \A m, n \in Nat : 1..m = 1..n => m = n
      <3>1. ASSUME NEW m \in Nat, NEW n \in Nat, 1..m = 1..n
            PROVE  m <= n
        <4>1. m = 0 \/ m \in 1..m
          OBVIOUS
        <4>2. m = 0 \/ m \in 1..n
          BY <3>1, <4>1
        <4> QED BY <4>2
      <3>2. ASSUME NEW m \in Nat, NEW n \in Nat, m <= n, n <= m
            PROVE  m = n
        BY <3>2
      <3> QED BY <3>1, <3>2
    <2> QED BY <2>1, <2>5, <2>6, <2>7
  <1>4. PICK max : max = AtMost(Len(shown), SVS_COUNT)
    OBVIOUS
  <1>5. max \in Nat /\ max <= Len(svs)
    BY <1>3, <1>4 DEF AtMost
  <1>6. i \in 1..max
    BY <1>2, <1>4 DEF convertGnssSvStatus
  <1>7. i \in DOMAIN svs
    BY <1>3, <1>5, <1>6
  <1>8. convertGnssSvStatus(shown)[i].usedInFix = shown[i].inFix
    BY <1>4, <1>6 DEF convertGnssSvStatus
  <1>9. shown[i].inFix = UsedInFix(svs[i], wraps)
    BY <1>1, <1>7
  <1> QED BY <1>2, <1>7, <1>8, <1>9

(* What the test of the mask says of a satellite: whether it is in the     *)
(* mask, if its id has a bit of its own in the int.                        *)
LEMMA FlagsFollowMask ==
  ASSUME ReportTypeInv, NEW s \in SvInView, NEW wraps
  PROVE  /\ s.sv[2] \in 1..31 =>
              (UsedInFix(s, wraps) <=>
                 s.inFix \/ (mGnssSvIdUsedInPosAvail /\ s.sv \in mGnssSvIdUsedInPosition))
         /\ UsedInFix(s, wraps) =>
              \/ s.inFix
              \/ /\ mGnssSvIdUsedInPosAvail
                 /\ \E id \in 1..64 : <<s.sv[1], id>> \in mGnssSvIdUsedInPosition
  <1>1. s.inFix \in BOOLEAN /\ s.sv \in EngineSv
    BY DEF SvInView
  <1>2. PICK c \in STRING, n \in Nat : s.sv = <<c, n>> /\ s.sv[1] = c /\ s.sv[2] = n
    <2>1. s.sv = <<s.sv[1], s.sv[2]>> /\ s.sv[1] \in STRING /\ s.sv[2] \in Nat
      BY <1>1, PairParts DEF EngineSv
    <2> QED BY <2>1
  <1>3. PICK mask : mask = svUsedIdMask(c)
    OBVIOUS
  <1>4. \A id \in mask : /\ id \in 1..64 /\ mGnssSvIdUsedInPosAvail
                         /\ <<c, id>> \in mGnssSvIdUsedInPosition
    BY <1>3 DEF svUsedIdMask
  <1>5. UsedInFix(s, wraps) <=> s.inFix \/ mask \cap IntShift(n, wraps) # {}
    BY <1>1, <1>2, <1>3 DEF UsedInFix
  <1>6. ASSUME n \in 1..31
        PROVE  mask \cap IntShift(n, wraps) # {} <=>
                 mGnssSvIdUsedInPosAvail /\ s.sv \in mGnssSvIdUsedInPosition
    <2>1. IntShift(n, wraps) = {n}
      BY <1>6 DEF IntShift, Extended
    <2>2. ASSUME mGnssSvIdUsedInPosAvail, <<c, n>> \in mGnssSvIdUsedInPosition
          PROVE  n \in mask
      <3>1. <<c, n>> \in UsedSv
        BY <2>2 DEF ReportTypeInv
      <3>2. c \in Masked
        BY <3>1 DEF UsedSv
      <3> QED BY <1>3, <1>6, <2>2, <3>2 DEF svUsedIdMask
    <2> QED BY <1>2, <1>4, <2>1, <2>2
  <1> QED BY <1>2, <1>4, <1>5, <1>6

LEMMA SvStep ==
  ASSUME ReportInv, reportSv
  PROVE  ReportInv'
  <1>1. PICK svs : svs = Head(reportQ).report.svs
    OBVIOUS
  <1>2. PICK wraps \in BOOLEAN : Deliver(TRUE, "gnssSvCb", onGnssSvCb(svs, wraps))
    BY <1>1 DEF reportSv
  <1>3. /\ NextReport("sv")
        /\ mGnssSvIdUsedInPosAvail' = FALSE /\ UNCHANGED mGnssSvIdUsedInPosition
    BY DEF reportSv
  <1>4. /\ reportQ # <<>> /\ reportQ' = Tail(reportQ) /\ IsReport(Head(reportQ))
        /\ UNCHANGED <<ulpInstalled, ulpHeld, listening, nReports>>
        /\ svs \in Seq(SvInView) /\ Head(reportQ).report.kind = "sv"
    BY <1>1, <1>3, HeadReport DEF GoodReport
  <1>5. PICK content : content = onGnssSvCb(svs, wraps)
    OBVIOUS
  <1>6. PICK d : /\ delivered' = Append(delivered, d)
                 /\ d.n = Head(reportQ).n /\ d.report = Head(reportQ).report
                 /\ d.to \subseteq ReportClients /\ d.content = content
    BY <1>2, <1>5, Delivery
  <1>7. ReportTypeInv' /\ NumbersInv'
    BY <1>3, <1>4, <1>6, NumberDelivered DEF ReportInv, ReportTypeInv
  <1>8. \A sv : mGnssSvIdUsedInPosAvail /\ sv \in mGnssSvIdUsedInPosition <=> WasUsed(sv)
    BY DEF ReportInv, MarksInv, WasUsed
  <1>9. ASSUME NEW i \in DOMAIN d.content
        PROVE  MarkOK(d, i)
    <2>1. i \in DOMAIN svs /\ d.content[i].usedInFix = UsedInFix(svs[i], wraps)
      BY <1>4, <1>5, <1>6, <1>9, FlagsShown
    <2>2. PICK s \in SvInView : s = svs[i]
      BY <1>4, <2>1
    <2>3. s = d.report.svs[i] /\ d.content[i].usedInFix = UsedInFix(s, wraps)
      BY <1>1, <1>6, <2>1, <2>2
    <2>4. /\ s.sv[2] \in 1..31 => (UsedInFix(s, wraps) <=> s.inFix \/ WasUsed(s.sv))
          /\ UsedInFix(s, wraps) => s.inFix \/ \E id \in 1..64 : WasUsed(<<s.sv[1], id>>)
      BY <1>8, FlagsFollowMask DEF ReportInv
    <2> QED BY <2>3, <2>4 DEF MarkOK
  <1>10. SvMarksAreFresh'
    BY <1>6, <1>9, LogGrows DEF ReportInv, MarksInv
  <1>11. \A j \in DOMAIN delivered' : ~LastMarks(j)'
    <2>1. d.report.kind = "sv" /\ ~SetsMarks(d)
      BY <1>4, <1>6 DEF SetsMarks
    <2> QED BY <1>6, <2>1, LastMarksEnd DEF ReportInv
  <1> QED BY <1>3, <1>7, <1>10, <1>11 DEF ReportInv, MarksInv

LEMMA OtherReportStep ==
  ASSUME ReportInv, reportNmea \/ reportGnssMeasurementData
  PROVE  ReportInv'
  <1>1. ASSUME NEW kind \in {"nmea", "measurement"}, NextReport(kind), UNCHANGED usedVars,
               NEW cb, NEW content, Deliver(TRUE, cb, content)
        PROVE  ReportInv'
    <2>1. PICK d : /\ delivered' = Append(delivered, d)
                   /\ d.n = Head(reportQ).n /\ d.report = Head(reportQ).report
                   /\ d.to \subseteq ReportClients
      BY <1>1, Delivery
    <2>2. ~SetsMarks(d) /\ kind # "sv"
      BY <1>1, <2>1, HeadReport DEF SetsMarks
    <2> QED BY <1>1, <2>1, <2>2, PlainDelivered
  <1>2. CASE reportNmea
    <2>1. NextReport("nmea") /\ UNCHANGED usedVars
      BY <1>2 DEF reportNmea
    <2>2. CASE UNCHANGED delivered
      BY <2>1, <2>2, HeadReport, NotDelivered DEF ReportInv, ReportTypeInv
    <2>3. CASE Deliver(TRUE, "gnssNmeaCb", <<>>)
      BY <1>1, <2>1, <2>3
    <2> QED BY <1>2, <2>2, <2>3 DEF reportNmea
  <1>3. CASE reportGnssMeasurementData
    <2>1. PICK content : content = onGnssMeasurementsCb(Head(reportQ).report.measurements,
                                                        Head(reportQ).report.clock)
      OBVIOUS
    <2>2. NextReport("measurement") /\ UNCHANGED usedVars /\ Deliver(TRUE, "gnssMeasurementsCb", content)
      BY <1>3, <2>1 DEF reportGnssMeasurementData
    <2> QED BY <1>1, <2>2
  <1> QED BY <1>2, <1>3

LEMMA CommandStep ==
  ASSUME ReportInv, ReportCommand \/ setUlpProxy \/ ClientsChange
  PROVE  ReportInv'
  <1>1. CASE ReportCommand
    <2>1. PICK m \in [type : {"setUlp"}, ulp : BOOLEAN]
                       \cup [type : {"add", "remove"}, client : ReportClients] :
            reportQ' = Append(reportQ, m)
      BY <1>1 DEF ReportCommand
    <2>2. ~IsReport(m) /\ MessageOK(m, nReports)
      BY <2>1 DEF IsReport, MessageOK
    <2>3. UNCHANGED <<ulpInstalled, ulpHeld, usedVars, listening, nReports, delivered>>
      BY <1>1 DEF ReportCommand
    <2>4. nReports' \in 0..MaxReports /\ nReports' >= nReports
      BY <2>3 DEF ReportInv, ReportTypeInv
    <2> QED BY <2>1, <2>2, <2>3, <2>4, Posted, MarksStay DEF ReportInv
  <1>2. ASSUME NEW type, NextCommand(type)
        PROVE  /\ reportQ # <<>> /\ reportQ' = Tail(reportQ)
               /\ UNCHANGED <<ulpHeld, usedVars, nReports, delivered>>
               /\ type = "setUlp" => Head(reportQ).ulp \in BOOLEAN
               /\ type \in {"add", "remove"} => Head(reportQ).client \in ReportClients
    <2>1. /\ reportQ # <<>> /\ reportQ' = Tail(reportQ)
          /\ UNCHANGED <<ulpHeld, usedVars, nReports, delivered>>
          /\ "type" \in DOMAIN Head(reportQ) /\ Head(reportQ).type = type
      BY <1>2 DEF NextCommand
    <2>2. MessageOK(Head(reportQ), nReports)
      BY <2>1, HeadFacts DEF ReportInv
    <2> QED BY <2>1, <2>2 DEF MessageOK
  <1>4. CASE setUlpProxy
    <2>1. NextCommand("setUlp") /\ ulpInstalled' = Head(reportQ).ulp /\ UNCHANGED listening
      BY <1>4 DEF setUlpProxy
    <2>2. ulpInstalled' \in BOOLEAN
      BY <1>2, <2>1
    <2> QED BY <1>2, <2>1, <2>2, NotDelivered DEF ReportInv, ReportTypeInv
  <1>5. CASE ClientsChange
    <2>1. PICK type \in {"add", "remove"} :
            NextCommand(type) /\ listening' \subseteq listening \cup {Head(reportQ).client}
      BY <1>5 DEF ClientsChange
    <2>2. ulpInstalled' = ulpInstalled
      BY <1>5 DEF ClientsChange
    <2>3. listening' \subseteq ReportClients
      BY <1>2, <2>1 DEF ReportInv, ReportTypeInv
    <2> QED BY <1>2, <2>1, <2>2, <2>3, NotDelivered DEF ReportInv, ReportTypeInv
  <1> QED BY <1>1, <1>4, <1>5

LEMMA UlpGivesBack ==
  ASSUME ReportInv, NEW m \in ulpHeld, UlpReports(m)
  PROVE  ReportInv'
  <1>1. /\ ulpHeld' = ulpHeld \ {m} /\ (reportQ' = Append(reportQ, m) \/ UNCHANGED reportQ)
        /\ UNCHANGED <<ulpInstalled, usedVars, listening, nReports, delivered>>
    BY DEF UlpReports
  <1>2. IsReport(m) /\ MessageOK(m, nReports) /\ m.n \in 1..nReports
    BY DEF ReportInv, ReportTypeInv, MessageOK
  <1>3. MarksInv'
    BY <1>1, MarksStay DEF ReportInv
  <1>4. CASE reportQ' = Append(reportQ, m)
    <2>1. Held(m.n) /\ ~Held(m.n)'
      BY <1>1 DEF Held, ReportInv, NumbersInv
    <2>2. ~Queued(m.n) /\ ~Logged(m.n)
      BY <1>2, <2>1 DEF ReportInv, NumbersInv
    <2>3. nReports' \in 0..MaxReports /\ nReports' >= nReports
      BY <1>1 DEF ReportInv, ReportTypeInv
    <2> QED BY <1>1, <1>2, <1>3, <1>4, <2>1, <2>2, <2>3, Posted DEF ReportInv
  <1>5. CASE UNCHANGED reportQ
    <2>1. \A n : /\ Held(n)' => Held(n)
                 /\ Queued(n)' <=> Queued(n)
                 /\ Logged(n)' <=> Logged(n)
      BY <1>1, <1>5 DEF Held, Queued, Logged, IsReport
    <2>2. \A n \in 1..nReports' : /\ Held(n)' => ~Queued(n)' /\ ~Logged(n)'
                                  /\ Queued(n)' => ~Logged(n)'
      BY <1>1, <2>1 DEF ReportInv, NumbersInv
    <2>3. NumbersInv'
      BY <1>1, <1>5, <2>2 DEF ReportInv, NumbersInv, DeliveredOnce, IsReport
    <2>4. ReportTypeInv'
      BY <1>1, <1>5 DEF ReportInv, ReportTypeInv, usedVars, IsReport
    <2> QED BY <1>3, <2>3, <2>4 DEF ReportInv
  <1> QED BY <1>1, <1>4, <1>5

LEMMA EngineStep ==
  ASSUME ReportInv, NEW r \in EngineReports,
         \/ reportPositionEvent(r) \/ reportSvEvent(r) \/ reportNmeaEvent(r)
         \/ reportGnssMeasurementDataEvent(r)
  PROVE  ReportInv'
  <1>1. CASE reportPositionEvent(r) \/ reportSvEvent(r) \/ reportNmeaEvent(r)
    <2>1. /\ nReports < MaxReports /\ nReports' = nReports + 1
          /\ UNCHANGED <<ulpInstalled, usedVars, listening, delivered>>
          /\ SendReport(r) \/ UlpTakes(r)
      BY <1>1 DEF reportPositionEvent, reportSvEvent, reportNmeaEvent, EngineMakes
    <2> QED BY <2>1, EngineReportsGood, EngineReported
  <1>2. CASE reportGnssMeasurementDataEvent(r)
    <2>1. PICK sameTime \in BOOLEAN :
            SendReport([r EXCEPT !.measurements = getAgcInformation(r.measurements, sameTime)])
      BY <1>2 DEF reportGnssMeasurementDataEvent
    <2>2. /\ r.kind = "measurement" /\ nReports < MaxReports /\ nReports' = nReports + 1
          /\ UNCHANGED <<ulpInstalled, usedVars, listening, delivered>>
      BY <1>2 DEF reportGnssMeasurementDataEvent, EngineMakes
    <2>3. PICK a : a = [r EXCEPT !.measurements = getAgcInformation(r.measurements, sameTime)]
      OBVIOUS
    <2>4. GoodReport(a)
      BY <2>2, <2>3, EngineReportsGood
    <2> QED BY <2>1, <2>2, <2>3, <2>4, EngineReported
  <1> QED BY <1>1, <1>2

LEMMA ReportStart ==
  ASSUME ReportInit
  PROVE  ReportInv
  <1>1. IsSeq(<<>>) /\ Len(<<>>) = 0 /\ DOMAIN <<>> = {}
    <2>1. <<>> \in Seq({})
      OBVIOUS
    <2> QED BY <2>1 DEF IsSeq
  <1>2. ReportTypeInv
    <2>1. nReports \in 0..MaxReports
      BY ReportAssumption DEF ReportAssumption, ReportInit
    <2>2. IsSeq(reportQ) /\ IsSeq(delivered) /\ DOMAIN reportQ = {} /\ DOMAIN delivered = {}
      BY <1>1 DEF ReportInit
    <2> QED BY <2>1, <2>2 DEF ReportInit, ReportTypeInv
  <1>3. NumbersInv
    BY <1>1 DEF ReportInit, NumbersInv, DeliveredOnce
  <1>4. MarksInv
    BY <1>1 DEF ReportInit, MarksInv, SvMarksAreFresh
  <1> QED BY <1>2, <1>3, <1>4 DEF ReportInv

LEMMA ReportStep ==
  ASSUME ReportInv, [ReportNext]_reportVars
  PROVE  ReportInv'
  <1>1. CASE UNCHANGED reportVars
    <2>1. ReportTypeInv'
      BY <1>1 DEF reportVars, ReportInv, ReportTypeInv, IsReport
    <2>2. NumbersInv'
      BY <1>1 DEF reportVars, ReportInv, NumbersInv, DeliveredOnce, IsReport, Held, Queued, Logged
    <2>3. MarksInv'
      BY <1>1, MarksStay DEF reportVars, usedVars, ReportInv
    <2> QED BY <2>1, <2>2, <2>3 DEF ReportInv
  <1>2. CASE ReportNext
    BY <1>2, EngineStep, UlpGivesBack, CommandStep, PositionStep, SvStep, OtherReportStep
       DEF ReportNext
  <1> QED BY <1>1, <1>2

LEMMA ReportInvariant == ReportSpec => []ReportInv
  BY ReportStart, ReportStep, PTL DEF ReportSpec

(* The queue and the ULP library hold numbered reports, the log names      *)
(* listening clients.                                                      *)
THEOREM ReportTypeCorrect == ReportSpec => []ReportTypeOK
  <1>1. ReportInv => ReportTypeOK
    <2> SUFFICES ASSUME ReportInv
                 PROVE  ReportTypeOK
      OBVIOUS
    <2>1. nReports \in 0..MaxReports /\ 1..nReports \subseteq 1..MaxReports
      BY ReportAssumption DEF ReportAssumption, ReportInv, ReportTypeInv
    <2>2. \A h \in ulpHeld : h.n \in 1..MaxReports /\ h.report.kind \in ReportKinds
      BY <2>1 DEF ReportInv, ReportTypeInv, MessageOK, GoodReport
    <2>3. \A i \in DOMAIN reportQ : "n" \in DOMAIN reportQ[i] => reportQ[i].report.kind \in ReportKinds
      BY DEF ReportInv, ReportTypeInv, MessageOK, GoodReport, IsReport
    <2> QED BY <2>1, <2>2, <2>3 DEF ReportInv, ReportTypeInv, ReportTypeOK
  <1> QED BY <1>1, ReportInvariant, PTL

(* No report of the engine reaches the framework twice: for any number of  *)
(* reports and clients, and whenever the ULP library is installed, removed *)
(* or given a report it returns later or never.                            *)
THEOREM ReportsDeliveredOnce == ReportSpec => []DeliveredOnce
  BY ReportInvariant, PTL DEF ReportInv, NumbersInv

(* A satellite with an id up to 31 is shown as used in the fix exactly if  *)
(* the engine flagged it or the last position reported with used           *)
(* satellites used it and no satellite report came between them: reportSv  *)
(* consumes the marks, reportPosition sets them for a position it reports, *)
(* and the shift of an int, whatever it does beyond its width, marks other *)
(* ids only where that position used a satellite of the constellation.     *)
THEOREM SvMarksFresh == ReportSpec => []SvMarksAreFresh
  BY ReportInvariant, PTL DEF ReportInv, MarksInv

-----------------------------------------------------------------------------
(* The generated NMEA sentences.                                           *)

(* Ranks number the elements of a finite set of naturals in their order.   *)
LEMMA RankBijective ==
  ASSUME NEW S \in SUBSET Nat, IsFiniteSet(S)
  PROVE  /\ Cardinality(S) \in Nat
         /\ \A n \in S : Rank(S, n) \in 1..Cardinality(S)
         /\ \A m, n \in S : Rank(S, m) = Rank(S, n) => m = n
         /\ \A r \in 1..Cardinality(S) : \E n \in S : Rank(S, n) = r
  <1> DEFINE Below(n) == {m \in S : m <= n}
             f == [n \in S |-> Rank(S, n)]
  <1>1. Cardinality(S) \in Nat
    BY FS_CardinalityType
  <1>2. ASSUME NEW n \in S
        PROVE  /\ IsFiniteSet(Below(n)) /\ Rank(S, n) = Cardinality(Below(n))
               /\ Rank(S, n) \in 1..Cardinality(S)
    <2>1. IsFiniteSet(Below(n)) /\ Cardinality(Below(n)) <= Cardinality(S)
      BY FS_Subset
    <2>2. Cardinality(Below(n)) \in Nat
      BY <2>1, FS_CardinalityType
    <2>3. n \in Below(n)
      OBVIOUS
    <2>4. Cardinality(Below(n)) # 0
      BY <2>1, <2>3, FS_EmptySet
    <2> QED BY <1>1, <2>1, <2>2, <2>4 DEF Rank
  <1>3. ASSUME NEW m \in S, NEW n \in S, m < n
        PROVE  Rank(S, m) # Rank(S, n)
    <2> m \in Nat /\ n \in Nat
      OBVIOUS
    <2>0. ASSUME NEW k \in Below(m)
          PROVE  k \in Below(n)
      <3>1. k \in Nat
        OBVIOUS
      <3> QED BY <1>3, <3>1
    <2>01. n <= n /\ ~(n <= m)
      BY <1>3
    <2>1. Below(m) \in SUBSET Below(n) /\ n \in Below(n) /\ n \notin Below(m)
      BY <2>0, <2>01, Zenon
    <2>2. Below(m) # Below(n)
      BY <2>1
    <2>3. Cardinality(Below(n)) # Cardinality(Below(m))
      BY <1>2, <2>1, <2>2, FS_Subset
    <2> QED BY <1>2, <2>3
  <1>4. ASSUME NEW m \in S, NEW n \in S, Rank(S, m) = Rank(S, n)
        PROVE  m = n
    <2>1. m \in Nat /\ n \in Nat
      OBVIOUS
    <2> QED BY <1>3, <1>4, <2>1
  <1>5. f \in Injection(S, 1..Cardinality(S))
    <2>1. f \in [S -> 1..Cardinality(S)]
      BY <1>2
    <2>2. \A m, n \in S : f[m] = f[n] => m = n
      BY <1>4
    <2> QED BY <2>1, <2>2 DEF Injection, IsInjective
  <1>6. IsFiniteSet(1..Cardinality(S)) /\ Cardinality(1..Cardinality(S)) = Cardinality(S)
    BY <1>1, FS_Interval
  <1>7. f \in Surjection(S, 1..Cardinality(S))
    BY <1>5, <1>6, FS_Injection
  <1>8. ASSUME NEW r \in 1..Cardinality(S)
        PROVE  \E n \in S : Rank(S, n) = r
    BY <1>7 DEF Surjection
  <1> QED BY <1>1, <1>2, <1>4, <1>8

(* So every rank has its element, and the element of n's rank is n.        *)
LEMMA RankedInverse ==
  ASSUME NEW S \in SUBSET Nat, IsFiniteSet(S)
  PROVE  /\ \A r \in 1..Cardinality(S) : Ranked(S, r) \in S /\ Rank(S, Ranked(S, r)) = r
         /\ \A n \in S : Ranked(S, Rank(S, n)) = n
  <1>1. ASSUME NEW r \in 1..Cardinality(S)
        PROVE  Ranked(S, r) \in S /\ Rank(S, Ranked(S, r)) = r
    BY RankBijective DEF Ranked
  <1>2. ASSUME NEW n \in S
        PROVE  Ranked(S, Rank(S, n)) = n
    <2>1. PICK r \in 1..Cardinality(S) : r = Rank(S, n)
      BY RankBijective
    <2>2. Ranked(S, r) \in S /\ Rank(S, Ranked(S, r)) = Rank(S, n)
      BY <1>1, <2>1
    <2>3. \A k, m \in S : Rank(S, k) = Rank(S, m) => k = m
      BY RankBijective
    <2> QED BY <2>1, <2>2, <2>3, Zenon
  <1> QED BY <1>1, <1>2

-----------------------------------------------------------------------------
(* The sentences n satellites take, and the satellites in the k-th.        *)
Total(n) == IF n = 0 THEN 1 ELSE SentenceCount(n)
Fills(n, k) == (IF 4 * k < n THEN 4 * k ELSE n) - 4 * (k - 1)

LEMMA FourToASentence ==
  ASSUME NEW n \in Nat
  PROVE  /\ Total(n) \in Nat /\ Total(n) >= 1
         /\ \A k \in 1..Total(n) : Fills(n, k) \in 0..4
         /\ \A k \in 1..Total(n), j \in 1..4 : j <= Fills(n, k) => 4 * (k - 1) + j \in 1..n
         /\ \A r \in 1..n : \E k \in 1..Total(n), j \in 1..4 :
               j <= Fills(n, k) /\ r = 4 * (k - 1) + j
  <1>1. /\ n = 4 * (n \div 4) + (n % 4) /\ n % 4 \in 0..3 /\ n \div 4 \in Nat
    OBVIOUS
  <1>2. PICK q \in Nat, e \in 0..3 : n \div 4 = q /\ n % 4 = e /\ n = 4 * q + e
    BY <1>1
  <1>3. Total(n) = IF n = 0 THEN 1 ELSE IF e # 0 THEN q + 1 ELSE q
    BY <1>2 DEF Total, SentenceCount
  <1>4. Total(n) \in Nat /\ Total(n) >= 1
    BY <1>2, <1>3
  <1>5. \A k \in 1..Total(n) : Fills(n, k) \in 0..4
    BY <1>2, <1>3, <1>4 DEF Fills
  <1>6. \A k \in 1..Total(n), j \in 1..4 : j <= Fills(n, k) => 4 * (k - 1) + j \in 1..n
    BY <1>2, <1>3, <1>4 DEF Fills
  <1>7. ASSUME NEW r \in 1..n
        PROVE  \E k \in 1..Total(n), j \in 1..4 : j <= Fills(n, k) /\ r = 4 * (k - 1) + j
    <2>1. PICK k \in Nat, j \in 0..3 : r - 1 = 4 * k + j
      <3>1. r - 1 \in Nat
        OBVIOUS
      <3>2. r - 1 = 4 * ((r - 1) \div 4) + ((r - 1) % 4) /\ (r - 1) % 4 \in 0..3 /\ (r - 1) \div 4 \in Nat
        BY <3>1
      <3> QED BY <3>2
    <2>2. k + 1 \in 1..Total(n)
      BY <1>2, <1>3, <2>1
    <2>3. j + 1 \in 1..4 /\ j + 1 <= Fills(n, k + 1) /\ r = 4 * ((k + 1) - 1) + (j + 1)
      BY <2>1 DEF Fills
    <2> QED BY <2>2, <2>3
  <1> QED BY <1>4, <1>5, <1>6, <1>7

-----------------------------------------------------------------------------
(* Sentences one after the other.                                          *)
Starts(s, o, p) == \A k \in 1..Len(p) : s[o + k] = p[k]

LEMMA MixedConcat ==
  ASSUME NEW a, NEW b, IsSeq(a), IsSeq(b)
  PROVE  /\ IsSeq(a \o b) /\ Len(a) \in Nat /\ Len(b) \in Nat
         /\ Len(a \o b) = Len(a) + Len(b)
         /\ \A i \in 1..Len(a) : (a \o b)[i] = a[i]
         /\ Starts(a \o b, Len(a), b)
  <1>1. PICK S : a \in Seq(S)
    BY DEF IsSeq
  <1>2. PICK T : b \in Seq(T)
    BY DEF IsSeq
  <1>3. PICK U : U = S \cup T
    OBVIOUS
  <1>4. a \in Seq(U) /\ b \in Seq(U)
    <2>1. Len(a) \in Nat /\ a \in [1..Len(a) -> S]
      BY <1>1
    <2>2. Len(b) \in Nat /\ b \in [1..Len(b) -> T]
      BY <1>2
    <2>3. a \in [1..Len(a) -> U] /\ b \in [1..Len(b) -> U]
      BY <1>3, <2>1, <2>2
    <2> QED BY <2>1, <2>2, <2>3, SeqDef
  <1>5. a \o b \in Seq(U) /\ Len(a) \in Nat /\ Len(b) \in Nat /\ Len(a \o b) = Len(a) + Len(b)
    BY <1>4
  <1>6. \A i \in 1..Len(a) : (a \o b)[i] = a[i]
    BY <1>4
  <1>7. \A i \in 1..Len(b) : (a \o b)[Len(a) + i] = b[i]
    BY <1>4
  <1> QED BY <1>5, <1>6, <1>7 DEF IsSeq, Starts

EndsAt(s, p, z) ==
  /\ IsSeq(s) /\ Len(p) \in Nat /\ Len(s) = Len(p) + 1
  /\ \A i \in 1..Len(p) : s[i] = p[i]
  /\ s[Len(p) + 1] = z

LEMMA OneMore ==
  ASSUME NEW p, IsSeq(p), NEW z, NEW s, s = p \o <<z>>
  PROVE  EndsAt(s, p, z)
  <1>1. PICK q : q = <<z>>
    OBVIOUS
  <1>2. IsSeq(q) /\ Len(q) = 1 /\ q[1] = z
    <2>1. q \in Seq({z}) /\ Len(q) = 1 /\ q[1] = z
      BY <1>1
    <2> QED BY <2>1 DEF IsSeq
  <1>3. /\ IsSeq(p \o q) /\ Len(p) \in Nat /\ Len(p \o q) = Len(p) + Len(q)
        /\ \A i \in 1..Len(p) : (p \o q)[i] = p[i]
        /\ Starts(p \o q, Len(p), q)
    BY <1>2, MixedConcat
  <1> QED BY <1>1, <1>2, <1>3 DEF Starts, EndsAt

Joins(s, a, b, c, d, e) ==
  /\ IsSeq(s) /\ {Len(a), Len(b), Len(c), Len(d), Len(e)} \subseteq Nat
  /\ Len(s) = Len(a) + Len(b) + Len(c) + Len(d) + Len(e)
  /\ Starts(s, 0, a) /\ Starts(s, Len(a), b) /\ Starts(s, Len(a) + Len(b), c)
  /\ Starts(s, Len(a) + Len(b) + Len(c), d)
  /\ Starts(s, Len(a) + Len(b) + Len(c) + Len(d), e)

LEMMA FiveParts ==
  ASSUME NEW a, NEW b, NEW c, NEW d, NEW e,
         IsSeq(a), IsSeq(b), IsSeq(c), IsSeq(d), IsSeq(e),
         NEW s, s = a \o b \o c \o d \o e
  PROVE  Joins(s, a, b, c, d, e)
  <1>1. PICK ab : ab = a \o b
    OBVIOUS
  <1>2. /\ IsSeq(ab) /\ Len(a) \in Nat /\ Len(b) \in Nat /\ Len(ab) = Len(a) + Len(b)
        /\ Starts(ab, 0, a) /\ Starts(ab, Len(a), b)
    BY <1>1, MixedConcat DEF Starts
  <1>3. ASSUME NEW r, NEW t, IsSeq(r), IsSeq(t), NEW o \in Nat, NEW p, IsSeq(p), Len(p) \in Nat,
               Starts(r, o, p), o + Len(p) <= Len(r)
        PROVE  Starts(r \o t, o, p)
    <2>1. \A i \in 1..Len(r) : (r \o t)[i] = r[i]
      BY <1>3, MixedConcat
    <2>2. ASSUME NEW k \in 1..Len(p)
          PROVE  (r \o t)[o + k] = p[k]
      <3>1. Len(r) \in Nat
        BY <1>3, MixedConcat
      <3>2. o + k \in 1..Len(r)
        BY <1>3, <3>1
      <3> QED BY <1>3, <2>1, <3>2 DEF Starts
    <2> QED BY <2>2 DEF Starts
  <1>4. PICK abc : abc = ab \o c
    OBVIOUS
  <1>5. /\ IsSeq(abc) /\ Len(c) \in Nat /\ Len(abc) = Len(a) + Len(b) + Len(c)
        /\ Starts(abc, 0, a) /\ Starts(abc, Len(a), b) /\ Starts(abc, Len(a) + Len(b), c)
    <2>1. /\ IsSeq(abc) /\ Len(c) \in Nat /\ Len(abc) = Len(ab) + Len(c) /\ Starts(abc, Len(ab), c)
      BY <1>2, <1>4, MixedConcat
    <2>2. Starts(abc, 0, a)
      BY <1>2, <1>3, <1>4
    <2>3. Starts(abc, Len(a), b)
      BY <1>2, <1>3, <1>4
    <2> QED BY <1>2, <2>1, <2>2, <2>3
  <1>6. PICK abcd : abcd = abc \o d
    OBVIOUS
  <1>7. /\ IsSeq(abcd) /\ Len(d) \in Nat /\ Len(abcd) = Len(a) + Len(b) + Len(c) + Len(d)
        /\ Starts(abcd, 0, a) /\ Starts(abcd, Len(a), b) /\ Starts(abcd, Len(a) + Len(b), c)
        /\ Starts(abcd, Len(a) + Len(b) + Len(c), d)
    <2>1. /\ IsSeq(abcd) /\ Len(d) \in Nat /\ Len(abcd) = Len(abc) + Len(d) /\ Starts(abcd, Len(abc), d)
      BY <1>5, <1>6, MixedConcat
    <2>2. Starts(abcd, 0, a)
      BY <1>2, <1>3, <1>5, <1>6
    <2>3. Starts(abcd, Len(a), b)
      BY <1>2, <1>3, <1>5, <1>6
    <2>4. Starts(abcd, Len(a) + Len(b), c)
      BY <1>2, <1>3, <1>5, <1>6
    <2> QED BY <1>5, <2>1, <2>2, <2>3, <2>4
  <1>8. s = abcd \o e
    BY <1>1, <1>4, <1>6
  <1>9. /\ IsSeq(s) /\ Len(e) \in Nat /\ Len(s) = Len(abcd) + Len(e) /\ Starts(s, Len(abcd), e)
    BY <1>7, <1>8, MixedConcat
  <1>10. Starts(s, 0, a) /\ Starts(s, Len(a), b)
    BY <1>2, <1>3, <1>5, <1>7, <1>8
  <1>11. Starts(s, Len(a) + Len(b), c)
    BY <1>2, <1>3, <1>5, <1>7, <1>8
  <1>12. Starts(s, Len(a) + Len(b) + Len(c), d)
    BY <1>2, <1>3, <1>5, <1>7, <1>8
  <1>13. /\ IsSeq(s) /\ {Len(a), Len(b), Len(c), Len(d), Len(e)} \subseteq Nat
         /\ Len(s) = Len(a) + Len(b) + Len(c) + Len(d) + Len(e)
         /\ Starts(s, Len(a) + Len(b) + Len(c) + Len(d), e)
    BY <1>2, <1>5, <1>7, <1>9
  <1> QED BY <1>10, <1>11, <1>12, <1>13 DEF Joins

-----------------------------------------------------------------------------
(* The k-th GSV sentence of a constellation, and where its sentences are.  *)
GsvSystems == {"GPS", "GLONASS", "GALILEO", "QZSS", "BEIDOU"}
InView(svs, c) == Cardinality(OfType(svs, c))

GsvIds(svs, c, k) ==
  [j \in 1..Fills(InView(svs, c), k) |->
     svs[Ranked(OfType(svs, c), 4 * (k - 1) + j)].svId + SvIdOffset(c)]

GsvSentence(svs, c, k) ==
  [kind |-> "GSV", talker |-> loc_nmea_sv_meta_init(c, {}, FALSE), of |-> c,
   total |-> Total(InView(svs, c)), number |-> k, svCount |-> InView(svs, c),
   signal |-> SignalId[c], ids |-> GsvIds(svs, c, k)]

LEMMA InViewFinite ==
  ASSUME NEW svs \in SvLists, NEW c
  PROVE  /\ OfType(svs, c) \in SUBSET Nat /\ IsFiniteSet(OfType(svs, c))
         /\ InView(svs, c) \in Nat
  <1>1. Len(svs) \in Nat /\ DOMAIN svs = 1..Len(svs)
    BY NmeaAssumption
  <1>2. OfType(svs, c) \in SUBSET (1..Len(svs))
    BY <1>1 DEF OfType
  <1>3. IsFiniteSet(1..Len(svs))
    BY <1>1, FS_Interval
  <1>4. IsFiniteSet(OfType(svs, c))
    BY <1>2, <1>3, FS_Subset
  <1>5. InView(svs, c) \in Nat
    BY <1>4, FS_CardinalityType DEF InView
  <1> QED BY <1>1, <1>2, <1>4, <1>5

LEMMA GsvSentences ==
  ASSUME NEW svs \in SvLists, NEW c \in GsvSystems
  PROVE  LET g == loc_nmea_generate_GSV(svs, c) IN
         /\ IsSeq(g) /\ Len(g) = Total(InView(svs, c))
         /\ \A k \in 1..Len(g) : g[k] = GsvSentence(svs, c, k)
  <1> DEFINE n == InView(svs, c)
             g == loc_nmea_generate_GSV(svs, c)
  <1>1. n \in Nat
    BY InViewFinite
  <1>2. g = [k \in 1..Total(n) |-> GsvSentence(svs, c, k)]
    <2>1. CASE n = 0
      <3>1. g = <<GsvSentence(svs, c, 1)>>
        BY <2>1 DEF loc_nmea_generate_GSV, GsvSentence, GsvIds, InView, Total, Fills
      <3>2. Total(n) = 1
        BY <2>1 DEF Total
      <3>3. <<GsvSentence(svs, c, 1)>> = [k \in 1..1 |-> GsvSentence(svs, c, 1)]
        OBVIOUS
      <3>4. [k \in 1..1 |-> GsvSentence(svs, c, 1)] = [k \in 1..1 |-> GsvSentence(svs, c, k)]
        OBVIOUS
      <3> QED BY <3>1, <3>2, <3>3, <3>4
    <2>2. CASE n # 0
      <3>1. Total(n) = SentenceCount(n)
        BY <2>2 DEF Total
      <3> QED BY <2>2, <3>1
            DEF loc_nmea_generate_GSV, GsvSentence, GsvIds, InView, Fills
    <2> QED BY <2>1, <2>2
  <1>3. Total(n) \in Nat
    BY <1>1, FourToASentence
  <1>4. PICK t \in Nat : t = Total(n)
    BY <1>3
  <1>5. PICK S : S = {GsvSentence(svs, c, k) : k \in 1..t}
    OBVIOUS
  <1>6. g \in [1..t -> S]
    BY <1>2, <1>4, <1>5
  <1>7. g \in Seq(S) /\ Len(g) = t
    BY <1>4, <1>6, SeqDef, LenProperties
  <1>8. \A k \in 1..t : g[k] = GsvSentence(svs, c, k)
    BY <1>2, <1>4
  <1> QED BY <1>4, <1>7, <1>8 DEF IsSeq

GsvAt(arr, svs, off) ==
  /\ \A c \in GsvSystems : \A k \in 1..Total(InView(svs, c)) :
       off[c] + k \in DOMAIN arr /\ arr[off[c] + k] = GsvSentence(svs, c, k)
  /\ \A n \in DOMAIN arr : \E c \in GsvSystems : \E k \in 1..Total(InView(svs, c)) : n = off[c] + k

LEMMA GsvLaidOut ==
  ASSUME NEW svs \in SvLists, NEW arr,
         arr = loc_nmea_generate_GSV(svs, "GPS") \o loc_nmea_generate_GSV(svs, "GLONASS")
            \o loc_nmea_generate_GSV(svs, "GALILEO") \o loc_nmea_generate_GSV(svs, "QZSS")
            \o loc_nmea_generate_GSV(svs, "BEIDOU")
  PROVE  \E off \in [GsvSystems -> Nat] : GsvAt(arr, svs, off)
  <1> DEFINE t(c) == Total(InView(svs, c))
             off == [c \in GsvSystems |->
                       CASE c = "GPS" -> 0 [] c = "GLONASS" -> t("GPS")
                         [] c = "GALILEO" -> t("GPS") + t("GLONASS")
                         [] c = "QZSS" -> t("GPS") + t("GLONASS") + t("GALILEO")
                         [] c = "BEIDOU" -> t("GPS") + t("GLONASS") + t("GALILEO") + t("QZSS")]
  <1>1. PICK g : g = [c \in GsvSystems |-> loc_nmea_generate_GSV(svs, c)]
    OBVIOUS
  <1>2. \A c \in GsvSystems :
          /\ t(c) \in Nat /\ IsSeq(g[c]) /\ Len(g[c]) = t(c)
          /\ \A k \in 1..t(c) : g[c][k] = GsvSentence(svs, c, k)
    <2> TAKE c \in GsvSystems
    <2>1. g[c] = loc_nmea_generate_GSV(svs, c)
      BY <1>1
    <2>2. t(c) \in Nat
      BY InViewFinite, FourToASentence
    <2> QED BY <2>1, <2>2, GsvSentences
  <1>3. arr = g["GPS"] \o g["GLONASS"] \o g["GALILEO"] \o g["QZSS"] \o g["BEIDOU"]
    BY <1>1 DEF GsvSystems
  <1> HIDE DEF t
  <1>4. /\ IsSeq(arr)
        /\ Len(arr) = t("GPS") + t("GLONASS") + t("GALILEO") + t("QZSS") + t("BEIDOU")
        /\ Starts(arr, 0, g["GPS"]) /\ Starts(arr, t("GPS"), g["GLONASS"])
        /\ Starts(arr, t("GPS") + t("GLONASS"), g["GALILEO"])
        /\ Starts(arr, t("GPS") + t("GLONASS") + t("GALILEO"), g["QZSS"])
        /\ Starts(arr, t("GPS") + t("GLONASS") + t("GALILEO") + t("QZSS"), g["BEIDOU"])
    <2>1. PICK a, b, c, d, e : /\ a = g["GPS"] /\ b = g["GLONASS"] /\ c = g["GALILEO"]
                               /\ d = g["QZSS"] /\ e = g["BEIDOU"]
      OBVIOUS
    <2>2. /\ IsSeq(a) /\ IsSeq(b) /\ IsSeq(c) /\ IsSeq(d) /\ IsSeq(e)
          /\ Len(a) = t("GPS") /\ Len(b) = t("GLONASS") /\ Len(c) = t("GALILEO")
          /\ Len(d) = t("QZSS") /\ Len(e) = t("BEIDOU")
      BY <1>2, <2>1 DEF GsvSystems
    <2>3. arr = a \o b \o c \o d \o e
      BY <1>3, <2>1
    <2>4. Joins(arr, a, b, c, d, e)
      BY <2>2, <2>3, FiveParts
    <2> QED BY <2>1, <2>2, <2>4 DEF Joins
  <1>5. DOMAIN arr = 1..Len(arr)
    BY <1>4 DEF IsSeq
  <1>6. off \in [GsvSystems -> Nat]
    BY <1>2 DEF GsvSystems
  <1>7. /\ off["GPS"] = 0 /\ off["GLONASS"] = t("GPS") /\ off["GALILEO"] = t("GPS") + t("GLONASS")
        /\ off["QZSS"] = t("GPS") + t("GLONASS") + t("GALILEO")
        /\ off["BEIDOU"] = t("GPS") + t("GLONASS") + t("GALILEO") + t("QZSS")
    BY DEF GsvSystems
  <1> HIDE DEF off
  <1>8. \A c \in GsvSystems : Starts(arr, off[c], g[c])
    BY <1>4, <1>7 DEF GsvSystems
  <1>9. \A c \in GsvSystems : off[c] + t(c) <= Len(arr)
    BY <1>2, <1>4, <1>7 DEF GsvSystems
  <1>10. ASSUME NEW c \in GsvSystems, NEW k \in 1..t(c)
         PROVE  off[c] + k \in DOMAIN arr /\ arr[off[c] + k] = GsvSentence(svs, c, k)
    <2>1. off[c] \in Nat /\ t(c) \in Nat /\ Len(arr) \in Nat
      BY <1>2, <1>4, <1>6 DEF IsSeq
    <2>2. off[c] + k \in 1..Len(arr)
      BY <1>9, <2>1
    <2>3. arr[off[c] + k] = g[c][k]
      BY <1>2, <1>8 DEF Starts
    <2> QED BY <1>2, <1>5, <2>2, <2>3
  <1>11. ASSUME NEW n \in DOMAIN arr
         PROVE  \E c \in GsvSystems : \E k \in 1..t(c) : n = off[c] + k
    <2>1. PICK t1 \in Nat, t2 \in Nat, t3 \in Nat, t4 \in Nat, t5 \in Nat :
             t1 = t("GPS") /\ t2 = t("GLONASS") /\ t3 = t("GALILEO") /\ t4 = t("QZSS") /\ t5 = t("BEIDOU")
      BY <1>2 DEF GsvSystems
    <2>2. n \in 1..(t1 + t2 + t3 + t4 + t5)
      BY <1>4, <1>5, <2>1
    <2>3. \/ \E k \in 1..t1 : n = 0 + k
          \/ \E k \in 1..t2 : n = t1 + k
          \/ \E k \in 1..t3 : n = t1 + t2 + k
          \/ \E k \in 1..t4 : n = t1 + t2 + t3 + k
          \/ \E k \in 1..t5 : n = t1 + t2 + t3 + t4 + k
      <3>1. \/ n \in 1..t1 \/ n - t1 \in 1..t2 \/ n - (t1 + t2) \in 1..t3
            \/ n - (t1 + t2 + t3) \in 1..t4 \/ n - (t1 + t2 + t3 + t4) \in 1..t5
        BY <2>2
      <3>2. /\ n = 0 + n /\ n = t1 + (n - t1) /\ n = t1 + t2 + (n - (t1 + t2))
            /\ n = t1 + t2 + t3 + (n - (t1 + t2 + t3)) /\ n = t1 + t2 + t3 + t4 + (n - (t1 + t2 + t3 + t4))
        BY <2>2
      <3> QED BY <3>1, <3>2
    <2> QED BY <1>7, <2>1, <2>3 DEF GsvSystems
  <1> QED BY <1>6, <1>10, <1>11 DEF GsvAt, t

(* The sentences of a report, wherever they are, agree with it.            *)
LEMMA GsvAgree ==
  ASSUME svNotify \in SvLists, NEW off \in [GsvSystems -> Nat],
         GsvAt(nmeaArraystr, svNotify, off)
  PROVE  /\ \A n \in Of("GSV") : SvSentenceAgrees(nmeaArraystr[n])
         /\ Of("GGA") = {} /\ Of("GSV") = DOMAIN nmeaArraystr
  <1> DEFINE arr == nmeaArraystr
             S(c) == OfType(svNotify, c)
             v(c) == InView(svNotify, c)
             t(c) == Total(v(c))
  <1>1. \A c \in GsvSystems : \A k \in 1..t(c) :
          /\ off[c] + k \in DOMAIN arr
          /\ arr[off[c] + k] = GsvSentence(svNotify, c, k)
    BY DEF GsvAt
  <1>2. ASSUME NEW n \in DOMAIN arr
        PROVE  \E c \in GsvSystems : \E k \in 1..t(c) : n = off[c] + k
    BY DEF GsvAt
  <1>3. \A c \in GsvSystems : \A k \in 1..t(c) :
          LET s == arr[off[c] + k] IN
          /\ s.kind = "GSV" /\ s.of = c /\ s.total = t(c) /\ s.number = k
          /\ s.svCount = v(c) /\ s.ids = GsvIds(svNotify, c, k)
    <2> TAKE c \in GsvSystems
    <2> TAKE k \in 1..t(c)
    <2>1. PICK s : s = arr[off[c] + k]
      OBVIOUS
    <2>2. s = GsvSentence(svNotify, c, k)
      BY <1>1, <2>1
    <2>3. /\ s.kind = "GSV" /\ s.of = c /\ s.total = t(c) /\ s.number = k
          /\ s.svCount = v(c) /\ s.ids = GsvIds(svNotify, c, k)
      BY <2>2 DEF GsvSentence
    <2> QED BY <2>1, <2>3
  <1>4. Of("GGA") = {} /\ Of("GSV") = DOMAIN nmeaArraystr
    <2>1. \A n \in DOMAIN arr : arr[n].kind = "GSV"
      BY <1>2, <1>3
    <2> QED BY <2>1 DEF Of
  <1>5. ASSUME NEW n \in Of("GSV")
        PROVE  SvSentenceAgrees(nmeaArraystr[n])
    <2>1. PICK c \in GsvSystems : \E k \in 1..t(c) : n = off[c] + k
      BY <1>2, <1>4
    <2>2. PICK k \in 1..t(c) : n = off[c] + k
      BY <2>1
    <2>3. /\ off[c] \in Nat /\ v(c) \in Nat /\ t(c) \in Nat /\ t(c) >= 1
          /\ v(c) = Cardinality(S(c)) /\ S(c) \in SUBSET Nat /\ IsFiniteSet(S(c))
      BY InViewFinite, FourToASentence DEF InView
    <2>4. GsvOf(c) = (off[c] + 1)..(off[c] + t(c))
      <3>1. ASSUME NEW m \in GsvOf(c)
            PROVE  m \in (off[c] + 1)..(off[c] + t(c))
        <4>1. PICK d \in GsvSystems : \E j \in 1..t(d) : m = off[d] + j
          BY <1>2 DEF GsvOf, Of
        <4>2. PICK j \in 1..t(d) : m = off[d] + j
          BY <4>1
        <4>3. d = c
          BY <1>3, <4>2 DEF GsvOf
        <4> QED BY <2>3, <4>2, <4>3
      <3>2. ASSUME NEW m \in (off[c] + 1)..(off[c] + t(c))
            PROVE  m \in GsvOf(c)
        <4>1. m - off[c] \in 1..t(c) /\ m = off[c] + (m - off[c])
          BY <2>3
        <4> QED BY <1>1, <1>3, <4>1 DEF GsvOf, Of
      <3> QED BY <3>1, <3>2
    <2>5. Cardinality(GsvOf(c)) = t(c)
      <3>1. off[c] + 1 \in Int /\ off[c] + t(c) \in Int
        BY <2>3
      <3> QED BY <2>3, <2>4, <3>1, FS_Interval
    <2>6. {arr[m].number : m \in GsvOf(c)} = 1..t(c)
      <3>1. ASSUME NEW m \in GsvOf(c)
            PROVE  m - off[c] \in 1..t(c) /\ arr[m].number = m - off[c]
        <4>1. m - off[c] \in 1..t(c) /\ m = off[c] + (m - off[c])
          BY <2>3, <2>4
        <4> QED BY <1>3, <4>1
      <3>2. ASSUME NEW j \in 1..t(c)
            PROVE  off[c] + j \in GsvOf(c) /\ arr[off[c] + j].number = j
        BY <1>3, <2>3, <2>4
      <3>3. {arr[m].number : m \in GsvOf(c)} \subseteq 1..t(c)
        BY <3>1
      <3>4. 1..t(c) \subseteq {arr[m].number : m \in GsvOf(c)}
        BY <3>2
      <3> QED BY <3>3, <3>4
    <2>7. \A j \in 1..t(c) :
            /\ arr[off[c] + j].ids = GsvIds(svNotify, c, j)
            /\ Fills(v(c), j) \in 0..4
            /\ DOMAIN GsvIds(svNotify, c, j) = 1..Fills(v(c), j)
      BY <1>3, <2>3, FourToASentence DEF GsvIds
    <2>8. ASSUME NEW p
          PROVE  p \in GsvPlaces(c) <=>
                   \E j \in 1..t(c), i \in 1..4 : i <= Fills(v(c), j) /\ p = <<off[c] + j, i>>
      <3>1. ASSUME p \in GsvPlaces(c)
            PROVE  \E j \in 1..t(c), i \in 1..4 : i <= Fills(v(c), j) /\ p = <<off[c] + j, i>>
        <4>1. PICK m \in GsvOf(c), i \in 1..4 : p = <<m, i>>
          BY <3>1 DEF GsvPlaces
        <4>2. p[1] = m /\ p[2] = i /\ p[2] \in DOMAIN arr[p[1]].ids
          BY <3>1, <4>1 DEF GsvPlaces
        <4>3. PICK j \in 1..t(c) : m = off[c] + j
          <5>1. m - off[c] \in 1..t(c) /\ m = off[c] + (m - off[c])
            BY <2>3, <2>4
          <5> QED BY <5>1
        <4>4. i \in 1..Fills(v(c), j) /\ Fills(v(c), j) \in 0..4
          BY <2>7, <4>2, <4>3
        <4> QED BY <4>1, <4>3, <4>4
      <3>2. ASSUME NEW j \in 1..t(c), NEW i \in 1..4, i <= Fills(v(c), j), p = <<off[c] + j, i>>
            PROVE  p \in GsvPlaces(c)
        <4>1. off[c] + j \in GsvOf(c)
          BY <2>3, <2>4
        <4>2. i \in DOMAIN arr[off[c] + j].ids
          BY <2>7, <3>2
        <4>3. p \in GsvOf(c) \X (1..4) /\ p[1] = off[c] + j /\ p[2] = i
          BY <3>2, <4>1
        <4> QED BY <4>2, <4>3 DEF GsvPlaces
      <3> QED BY <3>1, <3>2
    <2>9. Cardinality(GsvPlaces(c)) = v(c)
      <3> DEFINE f == [p \in GsvPlaces(c) |-> 4 * (p[1] - off[c] - 1) + p[2]]
      <3>1. \A p \in GsvPlaces(c) : f[p] \in 1..v(c)
        <4> TAKE p \in GsvPlaces(c)
        <4>1. PICK j \in 1..t(c), i \in 1..4 : i <= Fills(v(c), j) /\ p = <<off[c] + j, i>>
          BY <2>8
        <4>2. p[1] = off[c] + j /\ p[2] = i
          BY <4>1
        <4>3. f[p] = 4 * (j - 1) + i
          BY <2>3, <4>2
        <4> QED BY <2>3, <4>1, <4>3, FourToASentence
      <3>2. ASSUME NEW p \in GsvPlaces(c), NEW q \in GsvPlaces(c), f[p] = f[q]
            PROVE  p = q
        <4>1. PICK j \in 1..t(c), i \in 1..4 : i <= Fills(v(c), j) /\ p = <<off[c] + j, i>>
          BY <2>8
        <4>2. PICK l \in 1..t(c), h \in 1..4 : h <= Fills(v(c), l) /\ q = <<off[c] + l, h>>
          BY <2>8
        <4>3. p[1] = off[c] + j /\ p[2] = i /\ q[1] = off[c] + l /\ q[2] = h
          BY <4>1, <4>2
        <4>4. f[p] = 4 * (j - 1) + i /\ f[q] = 4 * (l - 1) + h
          BY <2>3, <4>3
        <4>5. j = l /\ i = h
          BY <2>3, <3>2, <4>4
        <4> QED BY <4>1, <4>2, <4>5
      <3>3. ASSUME NEW r \in 1..v(c)
            PROVE  \E p \in GsvPlaces(c) : f[p] = r
        <4>1. PICK j \in 1..t(c), i \in 1..4 : i <= Fills(v(c), j) /\ r = 4 * (j - 1) + i
          BY <2>3, FourToASentence
        <4>2. PICK p : p = <<off[c] + j, i>>
          OBVIOUS
        <4>3. p \in GsvPlaces(c) /\ p[1] = off[c] + j /\ p[2] = i
          BY <2>8, <4>1, <4>2
        <4>4. f[p] = r
          BY <2>3, <4>1, <4>3
        <4> QED BY <4>3, <4>4
      <3>4. f \in [GsvPlaces(c) -> 1..v(c)]
        BY <3>1
      <3> HIDE DEF f
      <3>5. f \in Injection(GsvPlaces(c), 1..v(c)) /\ f \in Surjection(GsvPlaces(c), 1..v(c))
        BY <3>2, <3>3, <3>4 DEF Injection, IsInjective, Surjection
      <3>6. IsFiniteSet(1..v(c)) /\ Cardinality(1..v(c)) = v(c)
        BY <2>3, FS_Interval
      <3> QED BY <3>5, <3>6, FS_Injection
    <2>10. ASSUME NEW sv \in S(c)
           PROVE  \E p \in GsvPlaces(c) : arr[p[1]].ids[p[2]] = svNotify[sv].svId + SvIdOffset(c)
      <3>1. PICK r \in 1..v(c) : r = Rank(S(c), sv) /\ Ranked(S(c), r) = sv
        BY <2>3, RankBijective, RankedInverse
      <3>2. PICK j \in 1..t(c), i \in 1..4 : i <= Fills(v(c), j) /\ r = 4 * (j - 1) + i
        BY <2>3, FourToASentence
      <3>3. PICK p : p = <<off[c] + j, i>>
        OBVIOUS
      <3>4. p \in GsvPlaces(c) /\ p[1] = off[c] + j /\ p[2] = i
        BY <2>8, <3>2, <3>3
      <3>5. arr[p[1]].ids = GsvIds(svNotify, c, j) /\ i \in 1..Fills(v(c), j)
        BY <2>7, <3>2, <3>4
      <3>6. GsvIds(svNotify, c, j)[i] = svNotify[Ranked(S(c), r)].svId + SvIdOffset(c)
        BY <3>2, <3>5 DEF GsvIds
      <3> QED BY <3>1, <3>4, <3>5, <3>6
    <2>11. PICK s : s = arr[n]
      OBVIOUS
    <2>12. /\ s.of = c /\ s.total = t(c) /\ s.svCount = v(c) /\ Len(s.ids) <= 4
      <3>1. s.of = c /\ s.total = t(c) /\ s.svCount = v(c) /\ s.ids = GsvIds(svNotify, c, k)
        BY <1>3, <2>2, <2>11
      <3>2. Len(GsvIds(svNotify, c, k)) = Fills(v(c), k)
        <4>1. PICK w \in Nat : w = Fills(v(c), k)
          BY <2>7
        <4>2. PICK ids : ids = GsvIds(svNotify, c, k)
          OBVIOUS
        <4>3. PICK T : T = {ids[i] : i \in 1..w}
          OBVIOUS
        <4>4. ids \in [1..w -> T]
          BY <4>1, <4>2, <4>3 DEF GsvIds
        <4>5. ids \in Seq(T) /\ Len(ids) = w
          BY <4>4, SeqDef, LenProperties
        <4> QED BY <4>1, <4>2, <4>5
      <3> QED BY <2>7, <3>1, <3>2
    <2> QED BY <2>3, <2>5, <2>6, <2>9, <2>10, <2>11, <2>12 DEF SvSentenceAgrees
  <1> QED BY <1>4, <1>5

-----------------------------------------------------------------------------
(* The satellites of a GSA sentence: all that are used, unless it is full. *)
FirstTwelve(S) == {i \in S : Cardinality({j \in S : j < i}) < 12}

LEMMA TwelveOrAll ==
  ASSUME NEW S \in SUBSET Nat, IsFiniteSet(S), Cardinality(FirstTwelve(S)) < 12
  PROVE  FirstTwelve(S) = S
  <1> DEFINE T == FirstTwelve(S)
  <1>1. T \in SUBSET S /\ IsFiniteSet(T) /\ Cardinality(T) \in Nat /\ Cardinality(S) \in Nat
    <2>1. T \in SUBSET S
      BY DEF FirstTwelve
    <2> QED BY <2>1, FS_Subset, FS_CardinalityType
  <1>2. ASSUME NEW i \in S
        PROVE  Cardinality({j \in S : j < i}) = Rank(S, i) - 1
    <2> DEFINE B == {j \in S : j < i}
    <2>1. IsFiniteSet(B) /\ Cardinality(B) \in Nat
      <3>1. B \in SUBSET S
        OBVIOUS
      <3> QED BY <3>1, FS_Subset, FS_CardinalityType
    <2>2. i \notin B /\ {j \in S : j <= i} = B \cup {i}
      <3>1. \A j \in S : j \in Nat /\ i \in Nat
        OBVIOUS
      <3>2. ASSUME NEW j \in S
            PROVE  j <= i <=> j < i \/ j = i
        BY <3>1
      <3>3. ~(i < i)
        BY <3>1
      <3> QED BY <3>2, <3>3
    <2>3. Cardinality(B \cup {i}) = Cardinality(B) + 1
      BY <2>1, <2>2, FS_AddElement
    <2>4. Rank(S, i) = Cardinality(B) + 1
      BY <2>2, <2>3 DEF Rank
    <2> QED BY <2>1, <2>4
  <1>3. ASSUME NEW i \in S
        PROVE  i \in T <=> Rank(S, i) <= 12
    <2>1. Rank(S, i) \in Nat
      BY RankBijective
    <2> QED BY <1>2, <2>1 DEF FirstTwelve
  <1>4. ASSUME NEW i \in S, i \notin T
        PROVE  FALSE
    <2>1. Rank(S, i) \in 1..Cardinality(S) /\ ~(Rank(S, i) <= 12)
      BY <1>3, <1>4, RankBijective
    <2>2. Cardinality(S) > 12
      BY <1>1, <2>1
    <2> DEFINE g == [r \in 1..12 |-> Ranked(S, r)]
    <2>3. \A r \in 1..12 : Ranked(S, r) \in S /\ Rank(S, Ranked(S, r)) = r
      <3> TAKE r \in 1..12
      <3>1. r \in 1..Cardinality(S)
        BY <1>1, <2>2
      <3> QED BY <3>1, RankedInverse
    <2>4. \A r \in 1..12 : g[r] \in T
      <3> TAKE r \in 1..12
      <3>1. Ranked(S, r) \in S /\ Rank(S, Ranked(S, r)) <= 12
        BY <2>3
      <3>2. Ranked(S, r) \in T
        BY <1>3, <3>1
      <3> QED BY <3>2
    <2>5. \A r, q \in 1..12 : g[r] = g[q] => r = q
      BY <2>3
    <2>6. g \in [1..12 -> T]
      BY <2>4
    <2> HIDE DEF g
    <2>7. g \in Injection(1..12, T)
      BY <2>5, <2>6 DEF Injection, IsInjective
    <2>8. Cardinality(1..12) = 12
      <3>1. 1 \in Int /\ 12 \in Int /\ ~(1 > 12) /\ 12 - 1 + 1 = 12
        OBVIOUS
      <3>2. Cardinality(1..12) = IF 1 > 12 THEN 0 ELSE 12 - 1 + 1
        BY <3>1, FS_Interval
      <3> QED BY <3>1, <3>2
    <2>9. Cardinality(1..12) <= Cardinality(T)
      BY <1>1, <2>7, FS_Injection
    <2> QED BY <1>1, <2>8, <2>9
  <1> QED BY <1>1, <1>4

LEMMA ShiftedCardinality ==
  ASSUME NEW S \in SUBSET Nat, IsFiniteSet(S), NEW o \in Nat
  PROVE  IsFiniteSet({i + o : i \in S}) /\ Cardinality({i + o : i \in S}) = Cardinality(S)
  <1> DEFINE T == {i + o : i \in S}
             f == [i \in S |-> i + o]
  <1>1. f \in Surjection(S, T)
    BY DEF Surjection
  <1>2. \A i, j \in S : i + o = j + o => i = j
    OBVIOUS
  <1>3. f \in Injection(S, T)
    BY <1>1, <1>2 DEF Surjection, Injection, IsInjective
  <1> HIDE DEF f
  <1> QED BY <1>1, <1>3, FS_Surjection

(* Pairs with the same first component.                                    *)
Paired(n, S) == {<<n, i>> : i \in S}

LEMMA PairedCardinality ==
  ASSUME NEW S, IsFiniteSet(S), NEW n
  PROVE  IsFiniteSet(Paired(n, S)) /\ Cardinality(Paired(n, S)) = Cardinality(S)
  <1> DEFINE T == Paired(n, S)
             f == [i \in S |-> <<n, i>>]
  <1>1. f \in Surjection(S, T)
    BY DEF Surjection, Paired
  <1>2. f \in Injection(S, T)
    BY <1>1 DEF Surjection, Injection, IsInjective
  <1> HIDE DEF f
  <1> QED BY <1>1, <1>2, FS_Surjection

LEMMA FiveDisjoint ==
  ASSUME NEW a, NEW b, NEW c, NEW d, NEW e,
         IsFiniteSet(a), IsFiniteSet(b), IsFiniteSet(c), IsFiniteSet(d), IsFiniteSet(e),
         a \cap b = {}, (a \cup b) \cap c = {}, (a \cup b \cup c) \cap d = {},
         (a \cup b \cup c \cup d) \cap e = {}
  PROVE  Cardinality(a \cup b \cup c \cup d \cup e) =
           Cardinality(a) + Cardinality(b) + Cardinality(c) + Cardinality(d) + Cardinality(e)
  <1>1. ASSUME NEW x, NEW y, IsFiniteSet(x), IsFiniteSet(y), x \cap y = {}
        PROVE  /\ IsFiniteSet(x \cup y) /\ Cardinality(x \cup y) = Cardinality(x) + Cardinality(y)
               /\ Cardinality(x) \in Nat /\ Cardinality(y) \in Nat
    <2>1. Cardinality(x \cap y) = 0
      BY <1>1, FS_EmptySet
    <2>2. Cardinality(x) \in Nat /\ Cardinality(y) \in Nat
      BY <1>1, FS_CardinalityType
    <2>3. /\ IsFiniteSet(x \cup y)
          /\ Cardinality(x \cup y) = Cardinality(x) + Cardinality(y) - Cardinality(x \cap y)
      BY <1>1, FS_Union
    <2> QED BY <2>1, <2>2, <2>3
  <1>2. IsFiniteSet(a \cup b) /\ Cardinality(a \cup b) = Cardinality(a) + Cardinality(b)
    BY <1>1
  <1>3. IsFiniteSet(a \cup b \cup c) /\ Cardinality(a \cup b \cup c) = Cardinality(a \cup b) + Cardinality(c)
    BY <1>1, <1>2
  <1>4. /\ IsFiniteSet(a \cup b \cup c \cup d)
        /\ Cardinality(a \cup b \cup c \cup d) = Cardinality(a \cup b \cup c) + Cardinality(d)
    BY <1>1, <1>3
  <1>5. Cardinality(a \cup b \cup c \cup d \cup e) = Cardinality(a \cup b \cup c \cup d) + Cardinality(e)
    BY <1>1, <1>4
  <1> QED BY <1>2, <1>3, <1>4, <1>5

LEMMA MasksAreFinite ==
  ASSUME NEW pos \in Positions, NEW c \in GsvSystems
  PROVE  CachedMask(pos, c) \in SUBSET Nat /\ IsFiniteSet(CachedMask(pos, c))
  <1> DEFINE m == CachedMask(pos, c)
  <1>1. m \subseteq 1..32
    BY DEF CachedMask, Mask32
  <1>2. IsFiniteSet(1..32)
    <2>1. 1 \in Int /\ 32 \in Int
      OBVIOUS
    <2> QED BY <2>1, FS_Interval
  <1>3. 1..32 \subseteq Nat
    OBVIOUS
  <1> QED BY <1>1, <1>2, <1>3, FS_Subset

LEMMA GsaSentence ==
  ASSUME NEW pos \in Positions, NEW c \in GsvSystems, NEW a, a = loc_nmea_generate_GSA(pos, c)
  PROVE  /\ IsSeq(a) /\ Len(a) \in {0, 1}
         /\ Len(a) = 0 => CachedMask(pos, c) = {}
         /\ Len(a) = 1 =>
              /\ a[1].kind = "GSA" /\ IsFiniteSet(a[1].ids)
              /\ Cardinality(a[1].ids) < 12 => Cardinality(a[1].ids) = Cardinality(CachedMask(pos, c))
  <1> DEFINE mask == CachedMask(pos, c)
             T == FirstTwelve(mask)
             o == SvIdOffset(c)
  <1>1. mask \in SUBSET Nat /\ IsFiniteSet(mask)
    BY MasksAreFinite
  <1>2. CASE Cardinality(mask) = 0 /\ c # "GPS"
    <2>1. a = <<>>
      BY <1>2 DEF loc_nmea_generate_GSA
    <2>2. mask = {}
      BY <1>1, <1>2, FS_EmptySet
    <2>3. IsSeq(a) /\ Len(a) = 0
      BY <2>1 DEF IsSeq
    <2> QED BY <2>2, <2>3
  <1>3. CASE ~(Cardinality(mask) = 0 /\ c # "GPS")
    <2>1. PICK r : /\ a = <<r>>
                   /\ r = [kind |-> "GSA", fixType |-> FixType(Cardinality(mask)), system |-> SystemId[c],
                           talker |-> loc_nmea_sv_meta_init(c, UsedConstellations(pos), c \in Combinable),
                           ids |-> {i + o : i \in T}, dop |-> pos.hasDop]
      BY <1>3 DEF loc_nmea_generate_GSA, FirstTwelve
    <2>2. r.kind = "GSA" /\ r.ids = {i + o : i \in T}
      BY <2>1
    <2>3. IsSeq(a) /\ Len(a) = 1 /\ a[1] = r
      <3>1. a \in Seq({r}) /\ Len(a) = 1 /\ a[1] = r
        BY <2>1
      <3> QED BY <3>1 DEF IsSeq
    <2>4. o \in Nat /\ T \in SUBSET Nat /\ IsFiniteSet(T)
      <3>1. T \in SUBSET mask
        BY DEF FirstTwelve
      <3>2. o \in Nat
        BY DEF SvIdOffset
      <3> QED BY <1>1, <3>1, <3>2, FS_Subset
    <2>5. IsFiniteSet(r.ids) /\ Cardinality(r.ids) = Cardinality(T)
      BY <2>2, <2>4, ShiftedCardinality
    <2>6. Cardinality(r.ids) < 12 => Cardinality(r.ids) = Cardinality(mask)
      BY <1>1, <2>5, TwelveOrAll
    <2> QED BY <2>2, <2>3, <2>5, <2>6
  <1> QED BY <1>2, <1>3

Gsas(pos) == loc_nmea_generate_GSA(pos, "GPS") \o loc_nmea_generate_GSA(pos, "GLONASS")
               \o loc_nmea_generate_GSA(pos, "GALILEO") \o loc_nmea_generate_GSA(pos, "QZSS")
               \o loc_nmea_generate_GSA(pos, "BEIDOU")

(* Sets of indices and what is listed at them.                             *)
ListedIn(ns) == UNION {{<<n, i>> : i \in nmeaArraystr[n].ids} : n \in ns}

Part(o, a) == (o + 1)..(o + Len(a))

LEMMA ListedApart ==
  /\ \A A, B : ListedIn(A \cup B) = ListedIn(A) \cup ListedIn(B)
  /\ \A A, B : A \cap B = {} => ListedIn(A) \cap ListedIn(B) = {}
  <1>1. ASSUME NEW A, NEW B
        PROVE  ListedIn(A \cup B) = ListedIn(A) \cup ListedIn(B)
    BY DEF ListedIn
  <1>2. ASSUME NEW A, NEW B, A \cap B = {}, NEW x \in ListedIn(A), x \in ListedIn(B)
        PROVE  FALSE
    <2>1. PICK m \in A : \E i \in nmeaArraystr[m].ids : x = <<m, i>>
      BY DEF ListedIn
    <2>2. PICK n \in B : \E i \in nmeaArraystr[n].ids : x = <<n, i>>
      BY <1>2 DEF ListedIn
    <2>3. m = n
      BY <2>1, <2>2
    <2> QED BY <1>2, <2>3
  <1> QED BY <1>1, <1>2

(* The sentences at ns are GSA sentences that list the used satellites of  *)
(* constellation c, if none is full.                                       *)
Lists(ns, pos, c) ==
  /\ \A n \in ns : nmeaArraystr[n].kind = "GSA"
  /\ (\A n \in ns : Cardinality(nmeaArraystr[n].ids) < 12) =>
       /\ IsFiniteSet(ListedIn(ns))
       /\ Cardinality(ListedIn(ns)) = Cardinality(CachedMask(pos, c))

LEMMA ListedPart ==
  ASSUME NEW pos \in Positions, NEW c \in GsvSystems,
         NEW a, a = loc_nmea_generate_GSA(pos, c),
         NEW o \in Nat, Starts(nmeaArraystr, o, a)
  PROVE  Lists(Part(o, a), pos, c)
  <1>1. CASE Len(a) = 0
    <2>1. Part(o, a) = {}
      BY <1>1 DEF Part
    <2>2. ListedIn(Part(o, a)) = {}
      BY <2>1 DEF ListedIn
    <2>3. CachedMask(pos, c) = {}
      BY <1>1, GsaSentence
    <2> QED BY <2>1, <2>2, <2>3, FS_EmptySet DEF Lists
  <1>2. CASE Len(a) = 1
    <2>1. Part(o, a) = {o + 1}
      BY <1>2 DEF Part
    <2>2. nmeaArraystr[o + 1] = a[1]
      BY <1>2 DEF Starts
    <2>3. PICK ids : ids = nmeaArraystr[o + 1].ids
      OBVIOUS
    <2>4. /\ nmeaArraystr[o + 1].kind = "GSA" /\ IsFiniteSet(ids)
          /\ Cardinality(ids) < 12 => Cardinality(ids) = Cardinality(CachedMask(pos, c))
      BY <1>2, <2>2, <2>3, GsaSentence
    <2> DEFINE m == o + 1
    <2>5. ListedIn(Part(o, a)) = Paired(m, ids)
      BY <2>1, <2>3 DEF ListedIn, Paired
    <2> HIDE DEF m
    <2>6. IsFiniteSet(ListedIn(Part(o, a))) /\ Cardinality(ListedIn(Part(o, a))) = Cardinality(ids)
      BY <2>4, <2>5, PairedCardinality
    <2> QED BY <2>1, <2>3, <2>4, <2>6 DEF Lists
  <1> QED BY <1>1, <1>2, GsaSentence

(* Five intervals one after the other make up the whole and do not meet.   *)
MadeUpOf(q, A, B, C, D, E) ==
  /\ 1..q = A \cup B \cup C \cup D \cup E
  /\ A \cap B = {} /\ (A \cup B) \cap C = {} /\ (A \cup B \cup C) \cap D = {}
  /\ (A \cup B \cup C \cup D) \cap E = {}

LEMMA FiveIntervals ==
  ASSUME NEW p1 \in Nat, NEW p2 \in Nat, NEW p3 \in Nat, NEW p4 \in Nat, NEW q \in Nat,
         p1 <= p2, p2 <= p3, p3 <= p4, p4 <= q,
         NEW A, NEW B, NEW C, NEW D, NEW E,
         A = 1..p1, B = (p1 + 1)..p2, C = (p2 + 1)..p3, D = (p3 + 1)..p4, E = (p4 + 1)..q
  PROVE  MadeUpOf(q, A, B, C, D, E)
  <1>1. ASSUME NEW n \in 1..q
        PROVE  n \in A \/ n \in B \/ n \in C \/ n \in D \/ n \in E
    OBVIOUS
  <1>2. ASSUME NEW n, n \in A \/ n \in B \/ n \in C \/ n \in D \/ n \in E
        PROVE  n \in 1..q
    BY <1>2
  <1>3. ASSUME NEW n
        PROVE  /\ ~(n \in A /\ n \in B) /\ ~(n \in A /\ n \in C) /\ ~(n \in B /\ n \in C)
               /\ ~(n \in A /\ n \in D) /\ ~(n \in B /\ n \in D) /\ ~(n \in C /\ n \in D)
    OBVIOUS
  <1>4. ASSUME NEW n
        PROVE  /\ ~(n \in A /\ n \in E) /\ ~(n \in B /\ n \in E)
               /\ ~(n \in C /\ n \in E) /\ ~(n \in D /\ n \in E)
    OBVIOUS
  <1> QED BY <1>1, <1>2, <1>3, <1>4, Zenon DEF MadeUpOf

LEMMA GsaAgree ==
  ASSUME NEW pos \in Positions,
         nmeaArraystr = Gsas(pos) \o VTG(pos) \o RMC(pos) \o GGA(pos)
  PROVE  /\ \A n \in DOMAIN nmeaArraystr : nmeaArraystr[n].kind \in {"GSA", "VTG", "RMC", "GGA"}
         /\ \A g \in Of("GGA") : (\A n \in Of("GSA") : Cardinality(nmeaArraystr[n].ids) < 12) =>
              nmeaArraystr[g].svUsedCount =
                IF Cardinality(ListedAsUsed) > 12 THEN 12 ELSE Cardinality(ListedAsUsed)
  <1> DEFINE arr == nmeaArraystr
             M(c) == Cardinality(CachedMask(pos, c))
  <1>1. PICK a, b, c, d, e :
          /\ a = loc_nmea_generate_GSA(pos, "GPS") /\ b = loc_nmea_generate_GSA(pos, "GLONASS")
          /\ c = loc_nmea_generate_GSA(pos, "GALILEO") /\ d = loc_nmea_generate_GSA(pos, "QZSS")
          /\ e = loc_nmea_generate_GSA(pos, "BEIDOU")
    OBVIOUS
  <1>2. PICK gs : gs = Gsas(pos)
    OBVIOUS
  <1>3. {"GPS", "GLONASS", "GALILEO", "QZSS", "BEIDOU"} = GsvSystems
    BY DEF GsvSystems
  <1>4. IsSeq(a) /\ IsSeq(b) /\ IsSeq(c) /\ IsSeq(d) /\ IsSeq(e)
    BY <1>1, <1>3, GsaSentence
  <1>5. Joins(gs, a, b, c, d, e)
    <2>1. gs = a \o b \o c \o d \o e
      BY <1>1, <1>2 DEF Gsas
    <2> QED BY <1>4, <2>1, FiveParts
  <1>6. PICK v, r, g : VTG(pos) = <<v>> /\ RMC(pos) = <<r>> /\ GGA(pos) = <<g>>
          /\ v.kind = "VTG" /\ r.kind = "RMC" /\ g.kind = "GGA" /\ g.svUsedCount = SvUsedCount(pos)
    BY DEF VTG, RMC, GGA
  <1>7. /\ IsSeq(arr) /\ Len(gs) \in Nat /\ Len(arr) = Len(gs) + 3
        /\ \A n \in 1..Len(gs) : arr[n] = gs[n]
        /\ arr[Len(gs) + 1] = v /\ arr[Len(gs) + 2] = r /\ arr[Len(gs) + 3] = g
    <2>1. PICK x : x = gs \o <<v>>
      OBVIOUS
    <2>2. PICK y : y = x \o <<r>>
      OBVIOUS
    <2>3. arr = y \o <<g>>
      BY <1>2, <1>6, <2>1, <2>2
    <2>4. IsSeq(gs)
      BY <1>5 DEF Joins
    <2>5. EndsAt(x, gs, v)
      BY <2>1, <2>4, OneMore
    <2>6. EndsAt(y, x, r)
      <3>1. IsSeq(x)
        BY <2>5 DEF EndsAt
      <3> QED BY <2>2, <3>1, OneMore
    <2>7. EndsAt(arr, y, g)
      <3>1. IsSeq(y)
        BY <2>6 DEF EndsAt
      <3> QED BY <2>3, <3>1, OneMore
    <2>8. PICK l \in Nat : l = Len(gs)
      BY <2>5 DEF EndsAt
    <2>9. /\ Len(x) = l + 1 /\ x[l + 1] = v /\ \A i \in 1..l : x[i] = gs[i]
      BY <2>5, <2>8 DEF EndsAt
    <2>10. /\ Len(y) = l + 2 /\ y[l + 2] = r /\ \A i \in 1..(l + 1) : y[i] = x[i]
      BY <2>6, <2>9 DEF EndsAt
    <2>11. /\ IsSeq(arr) /\ Len(arr) = l + 3 /\ arr[l + 3] = g /\ \A i \in 1..(l + 2) : arr[i] = y[i]
      BY <2>7, <2>10 DEF EndsAt
    <2>12. \A n \in 1..l : arr[n] = gs[n]
      <3> TAKE n \in 1..l
      <3>1. n \in 1..(l + 1) /\ n \in 1..(l + 2)
        OBVIOUS
      <3>2. arr[n] = y[n]
        BY <2>11, <3>1
      <3>3. y[n] = x[n]
        BY <2>10, <3>1
      <3> QED BY <2>9, <3>2, <3>3
    <2>13. arr[l + 1] = v /\ arr[l + 2] = r
      <3>1. l + 1 \in 1..(l + 1) /\ l + 1 \in 1..(l + 2) /\ l + 2 \in 1..(l + 2)
        OBVIOUS
      <3>2. arr[l + 1] = y[l + 1] /\ arr[l + 2] = y[l + 2]
        BY <2>11, <3>1
      <3>3. y[l + 1] = x[l + 1]
        BY <2>10, <3>1
      <3> QED BY <2>9, <2>10, <3>2, <3>3
    <2> QED BY <2>8, <2>11, <2>12, <2>13
  <1>8. PICK q \in Nat : q = Len(gs)
    BY <1>7
  <1>9. PICK la \in Nat, lb \in Nat, lc \in Nat, ld \in Nat, le \in Nat :
          /\ la = Len(a) /\ lb = Len(b) /\ lc = Len(c) /\ ld = Len(d) /\ le = Len(e)
          /\ q = la + lb + lc + ld + le
    BY <1>5, <1>8 DEF Joins
  <1>10. /\ Starts(gs, 0, a) /\ Starts(gs, la, b) /\ Starts(gs, la + lb, c)
         /\ Starts(gs, la + lb + lc, d) /\ Starts(gs, la + lb + lc + ld, e)
    BY <1>5, <1>9 DEF Joins
  <1>11. ASSUME NEW o \in Nat, NEW p, Len(p) \in Nat, Starts(gs, o, p), o + Len(p) <= q
         PROVE  Starts(arr, o, p)
    <2>1. \A k \in 1..Len(p) : o + k \in 1..q
      BY <1>11
    <2> QED BY <1>7, <1>8, <1>11, <2>1 DEF Starts
  <1>12. /\ Starts(arr, 0, a) /\ Starts(arr, la, b) /\ Starts(arr, la + lb, c)
         /\ Starts(arr, la + lb + lc, d) /\ Starts(arr, la + lb + lc + ld, e)
    <2>1. Starts(arr, 0, a)
      BY <1>9, <1>10, <1>11
    <2>2. Starts(arr, la, b)
      BY <1>9, <1>10, <1>11
    <2>3. Starts(arr, la + lb, c)
      BY <1>9, <1>10, <1>11
    <2>4. Starts(arr, la + lb + lc, d)
      BY <1>9, <1>10, <1>11
    <2>5. Starts(arr, la + lb + lc + ld, e)
      BY <1>9, <1>10, <1>11
    <2> QED BY <2>1, <2>2, <2>3, <2>4, <2>5
  <1>13. PICK A, B, C, D, E :
           /\ A = Part(0, a) /\ B = Part(la, b) /\ C = Part(la + lb, c)
           /\ D = Part(la + lb + lc, d) /\ E = Part(la + lb + lc + ld, e)
    OBVIOUS
  <1>14. /\ A = 1..la /\ B = (la + 1)..(la + lb) /\ C = (la + lb + 1)..(la + lb + lc)
         /\ D = (la + lb + lc + 1)..(la + lb + lc + ld)
         /\ E = (la + lb + lc + ld + 1)..(la + lb + lc + ld + le)
    BY <1>9, <1>13 DEF Part
  <1>15. /\ 1..q = A \cup B \cup C \cup D \cup E
         /\ A \cap B = {} /\ (A \cup B) \cap C = {} /\ (A \cup B \cup C) \cap D = {}
         /\ (A \cup B \cup C \cup D) \cap E = {}
    <2>1. PICK p1, p2, p3, p4 :
            p1 = la /\ p2 = la + lb /\ p3 = la + lb + lc /\ p4 = la + lb + lc + ld
      OBVIOUS
    <2>2. /\ p1 \in Nat /\ p2 \in Nat /\ p3 \in Nat /\ p4 \in Nat
          /\ p1 <= p2 /\ p2 <= p3 /\ p3 <= p4 /\ p4 <= q /\ q = la + lb + lc + ld + le
      BY <1>9, <2>1
    <2>3. /\ A = 1..p1 /\ B = (p1 + 1)..p2 /\ C = (p2 + 1)..p3 /\ D = (p3 + 1)..p4 /\ E = (p4 + 1)..q
      BY <1>14, <2>1, <2>2
    <2>4. MadeUpOf(q, A, B, C, D, E)
      BY <2>2, <2>3, FiveIntervals
    <2> QED BY <2>4 DEF MadeUpOf
  <1>16. \A n \in DOMAIN arr : n \in 1..q \/ n = q + 1 \/ n = q + 2 \/ n = q + 3
    <2>1. DOMAIN arr = 1..(q + 3)
      BY <1>7, <1>8 DEF IsSeq
    <2> QED BY <2>1
  <1>17. /\ Lists(A, pos, "GPS") /\ Lists(B, pos, "GLONASS") /\ Lists(C, pos, "GALILEO")
         /\ Lists(D, pos, "QZSS") /\ Lists(E, pos, "BEIDOU")
    <2>1. Lists(Part(0, a), pos, "GPS")
      BY <1>1, <1>3, <1>12, ListedPart
    <2>2. Lists(Part(la, b), pos, "GLONASS")
      BY <1>1, <1>3, <1>12, ListedPart
    <2>3. la + lb \in Nat /\ la + lb + lc \in Nat /\ la + lb + lc + ld \in Nat
      OBVIOUS
    <2>4. Lists(Part(la + lb, c), pos, "GALILEO")
      BY <1>1, <1>3, <1>12, <2>3, ListedPart
    <2>5. Lists(Part(la + lb + lc, d), pos, "QZSS")
      BY <1>1, <1>3, <1>12, <2>3, ListedPart
    <2>6. Lists(Part(la + lb + lc + ld, e), pos, "BEIDOU")
      BY <1>1, <1>3, <1>12, <2>3, ListedPart
    <2> QED BY <1>13, <2>1, <2>2, <2>4, <2>5, <2>6
  <1>18. \A n \in 1..q : arr[n].kind = "GSA"
    BY <1>15, <1>17 DEF Lists
  <1>19. Of("GSA") = 1..q /\ Of("GGA") = {q + 3}
    <2>1. DOMAIN arr = 1..(q + 3)
      BY <1>7, <1>8 DEF IsSeq
    <2>2. 1..q \subseteq DOMAIN arr /\ q + 3 \in DOMAIN arr
      BY <2>1
    <2>3. arr[q + 1].kind = "VTG" /\ arr[q + 2].kind = "RMC" /\ arr[q + 3].kind = "GGA"
      BY <1>6, <1>7, <1>8
    <2>4. \A n \in DOMAIN arr : arr[n].kind = "GSA" <=> n \in 1..q
      BY <1>16, <1>18, <2>3
    <2>5. \A n \in DOMAIN arr : arr[n].kind = "GGA" <=> n = q + 3
      BY <1>16, <1>18, <2>3
    <2> QED BY <2>2, <2>4, <2>5 DEF Of
  <1>20. \A n \in DOMAIN arr : arr[n].kind \in {"GSA", "VTG", "RMC", "GGA"}
    BY <1>6, <1>7, <1>8, <1>16, <1>18
  <1>21. ASSUME \A n \in Of("GSA") : Cardinality(arr[n].ids) < 12
         PROVE  arr[q + 3].svUsedCount =
                  IF Cardinality(ListedAsUsed) > 12 THEN 12 ELSE Cardinality(ListedAsUsed)
    <2>1. ListedAsUsed = ListedIn(1..q)
      BY <1>19 DEF ListedAsUsed, ListedIn
    <2>2. \A n \in A \cup B \cup C \cup D \cup E : Cardinality(arr[n].ids) < 12
      BY <1>15, <1>19, <1>21
    <2>3. IsFiniteSet(ListedIn(A)) /\ Cardinality(ListedIn(A)) = M("GPS")
      BY <1>17, <2>2 DEF Lists
    <2>4. IsFiniteSet(ListedIn(B)) /\ Cardinality(ListedIn(B)) = M("GLONASS")
      BY <1>17, <2>2 DEF Lists
    <2>5. IsFiniteSet(ListedIn(C)) /\ Cardinality(ListedIn(C)) = M("GALILEO")
      BY <1>17, <2>2 DEF Lists
    <2>6. IsFiniteSet(ListedIn(D)) /\ Cardinality(ListedIn(D)) = M("QZSS")
      BY <1>17, <2>2 DEF Lists
    <2>7. IsFiniteSet(ListedIn(E)) /\ Cardinality(ListedIn(E)) = M("BEIDOU")
      BY <1>17, <2>2 DEF Lists
    <2>8. /\ ListedIn(A \cup B) = ListedIn(A) \cup ListedIn(B)
          /\ ListedIn(A \cup B \cup C) = ListedIn(A) \cup ListedIn(B) \cup ListedIn(C)
          /\ ListedIn(A \cup B \cup C \cup D) =
               ListedIn(A) \cup ListedIn(B) \cup ListedIn(C) \cup ListedIn(D)
          /\ ListedIn(A \cup B \cup C \cup D \cup E) =
               ListedIn(A) \cup ListedIn(B) \cup ListedIn(C) \cup ListedIn(D) \cup ListedIn(E)
      <3>1. ListedIn(A \cup B) = ListedIn(A) \cup ListedIn(B)
        BY ListedApart
      <3>2. ListedIn((A \cup B) \cup C) = ListedIn(A \cup B) \cup ListedIn(C)
        BY ListedApart
      <3>3. ListedIn((A \cup B \cup C) \cup D) = ListedIn(A \cup B \cup C) \cup ListedIn(D)
        BY ListedApart
      <3>4. ListedIn((A \cup B \cup C \cup D) \cup E) = ListedIn(A \cup B \cup C \cup D) \cup ListedIn(E)
        BY ListedApart
      <3> QED BY <3>1, <3>2, <3>3, <3>4, Zenon
    <2>9. /\ ListedIn(A) \cap ListedIn(B) = {}
          /\ ListedIn(A \cup B) \cap ListedIn(C) = {}
          /\ ListedIn(A \cup B \cup C) \cap ListedIn(D) = {}
          /\ ListedIn(A \cup B \cup C \cup D) \cap ListedIn(E) = {}
      BY <1>15, ListedApart
    <2>10. Cardinality(ListedIn(1..q)) = M("GPS") + M("GLONASS") + M("GALILEO") + M("QZSS") + M("BEIDOU")
      <3>1. PICK pa, pb, pc, pd, pe :
              /\ pa = ListedIn(A) /\ pb = ListedIn(B) /\ pc = ListedIn(C)
              /\ pd = ListedIn(D) /\ pe = ListedIn(E)
        OBVIOUS
      <3>2. /\ pa \cap pb = {} /\ (pa \cup pb) \cap pc = {} /\ (pa \cup pb \cup pc) \cap pd = {}
            /\ (pa \cup pb \cup pc \cup pd) \cap pe = {}
        BY <2>8, <2>9, <3>1
      <3>3. Cardinality(pa \cup pb \cup pc \cup pd \cup pe) =
              Cardinality(pa) + Cardinality(pb) + Cardinality(pc) + Cardinality(pd) + Cardinality(pe)
        BY <2>3, <2>4, <2>5, <2>6, <2>7, <3>1, <3>2, FiveDisjoint
      <3>4. ListedIn(1..q) = pa \cup pb \cup pc \cup pd \cup pe
        BY <1>15, <2>8, <3>1
      <3> QED BY <2>3, <2>4, <2>5, <2>6, <2>7, <3>1, <3>3, <3>4
    <2>11. arr[q + 3].svUsedCount = SvUsedCount(pos)
      BY <1>6, <1>7, <1>8
    <2>12. SvUsedCount(pos) =
             IF M("GPS") + M("GLONASS") + M("GALILEO") + M("QZSS") + M("BEIDOU") > 12 THEN 12
             ELSE M("GPS") + M("GLONASS") + M("GALILEO") + M("QZSS") + M("BEIDOU")
      BY DEF SvUsedCount, NmeaSystems
    <2> QED BY <2>1, <2>10, <2>11, <2>12
  <1> QED BY <1>19, <1>20, <1>21

-----------------------------------------------------------------------------
SentencesInv ==
  /\ svNotify \in SvLists
  /\ \/ nmeaArraystr = <<>>
     \/ \E off \in [GsvSystems -> Nat] : GsvAt(nmeaArraystr, svNotify, off)
     \/ \E pos \in Positions : nmeaArraystr = Gsas(pos) \o VTG(pos) \o RMC(pos) \o GGA(pos)
     \/ position.final = FALSE /\ nmeaArraystr = BlankSentences

LEMMA NmeaStart ==
  ASSUME NmeaInit
  PROVE  SentencesInv
  BY NmeaAssumption DEF NmeaInit, SentencesInv

LEMMA NmeaStep ==
  ASSUME SentencesInv, [NmeaNext]_nmeaVars
  PROVE  SentencesInv'
  <1>1. CASE loc_nmea_generate_sv
    <2>1. PICK svs \in SvLists :
            /\ svNotify' = svs
            /\ nmeaArraystr' = loc_nmea_generate_GSV(svs, "GPS") \o loc_nmea_generate_GSV(svs, "GLONASS")
                 \o loc_nmea_generate_GSV(svs, "GALILEO") \o loc_nmea_generate_GSV(svs, "QZSS")
                 \o loc_nmea_generate_GSV(svs, "BEIDOU")
      BY <1>1 DEF loc_nmea_generate_sv
    <2>2. PICK arr : arr = nmeaArraystr'
      OBVIOUS
    <2>3. \E off \in [GsvSystems -> Nat] : GsvAt(arr, svs, off)
      BY <2>1, <2>2, GsvLaidOut
    <2>4. \E off \in [GsvSystems -> Nat] : GsvAt(nmeaArraystr', svNotify', off)
      BY <2>1, <2>2, <2>3
    <2> QED BY <2>1, <2>4 DEF SentencesInv, GsvAt
  <1>2. CASE loc_nmea_generate_pos
    <2>1. PICK pos \in Positions, final \in BOOLEAN :
            /\ nmeaArraystr' = <<>>
               \/ /\ position' = [pos |-> pos, final |-> final]
                  /\ final => nmeaArraystr' = Gsas(pos) \o VTG(pos) \o RMC(pos) \o GGA(pos)
                  /\ ~final => nmeaArraystr' = BlankSentences
            /\ UNCHANGED svNotify
      BY <1>2 DEF loc_nmea_generate_pos, Gsas
    <2>2. CASE nmeaArraystr' = <<>>
      BY <2>1, <2>2 DEF SentencesInv
    <2>3. CASE nmeaArraystr' # <<>> /\ final
      BY <2>1, <2>3 DEF SentencesInv
    <2>4. CASE nmeaArraystr' # <<>> /\ ~final
      <3>1. position'.final = FALSE
        BY <2>1, <2>4
      <3> QED BY <2>1, <2>4, <3>1 DEF SentencesInv
    <2> QED BY <2>2, <2>3, <2>4
  <1>3. CASE UNCHANGED nmeaVars
    BY <1>3 DEF SentencesInv, nmeaVars, GsvAt
  <1> QED BY <1>1, <1>2, <1>3 DEF NmeaNext

LEMMA NmeaInvSuffices ==
  ASSUME SentencesInv
  PROVE  NmeaTypeOK /\ SentencesAgree
  <1>0. svNotify \in Seq([type : STRING, svId : Nat])
    BY NmeaAssumption DEF SentencesInv
  <1>1. CASE nmeaArraystr = <<>>
    <2>1. DOMAIN nmeaArraystr = {}
      BY <1>1
    <2> QED BY <1>0, <2>1 DEF NmeaTypeOK, SentencesAgree, Of
  <1>2. CASE \E off \in [GsvSystems -> Nat] : GsvAt(nmeaArraystr, svNotify, off)
    <2>1. /\ \A n \in Of("GSV") : SvSentenceAgrees(nmeaArraystr[n])
          /\ Of("GGA") = {} /\ Of("GSV") = DOMAIN nmeaArraystr
      BY <1>2, GsvAgree DEF SentencesInv
    <2>2. \A n \in DOMAIN nmeaArraystr : nmeaArraystr[n].kind = "GSV"
      BY <2>1 DEF Of
    <2> QED BY <1>0, <2>1, <2>2 DEF NmeaTypeOK, SentencesAgree
  <1>3. CASE \E pos \in Positions : nmeaArraystr = Gsas(pos) \o VTG(pos) \o RMC(pos) \o GGA(pos)
    <2>1. /\ \A n \in DOMAIN nmeaArraystr : nmeaArraystr[n].kind \in {"GSA", "VTG", "RMC", "GGA"}
          /\ \A g \in Of("GGA") : (\A n \in Of("GSA") : Cardinality(nmeaArraystr[n].ids) < 12) =>
               nmeaArraystr[g].svUsedCount =
                 IF Cardinality(ListedAsUsed) > 12 THEN 12 ELSE Cardinality(ListedAsUsed)
      BY <1>3, GsaAgree
    <2>2. Of("GSV") = {}
      BY <2>1 DEF Of
    <2>3. SentencesAgree
      BY <2>1, <2>2 DEF SentencesAgree
    <2> QED BY <1>0, <2>1, <2>3 DEF NmeaTypeOK
  <1>4. CASE position.final = FALSE /\ nmeaArraystr = BlankSentences
    <2>1. \A n \in DOMAIN nmeaArraystr : nmeaArraystr[n].kind \in {"GSA", "VTG", "RMC", "GGA"}
      BY <1>4 DEF BlankSentences
    <2>2. Of("GSV") = {}
      BY <2>1 DEF Of
    <2> QED BY <1>0, <1>4, <2>1, <2>2 DEF SentencesInv, NmeaTypeOK, SentencesAgree
  <1> QED BY <1>1, <1>2, <1>3, <1>4 DEF SentencesInv

LEMMA NmeaInvariant == NmeaSpec => []SentencesInv
  BY NmeaStart, NmeaStep, PTL DEF NmeaSpec

(* Every sentence loc_nmea.cpp generates is of one of its five kinds.      *)
THEOREM NmeaTypeCorrect == NmeaSpec => []NmeaTypeOK
  BY NmeaInvariant, NmeaInvSuffices, PTL

(* loc_nmea_generate_GSV and loc_nmea_generate_pos: for any satellites and *)
(* any used masks, the sentences agree with each other and with the report *)
(* they were generated from.                                               *)
THEOREM SentencesAreConsistent == NmeaSpec => []SentencesAgree
  BY NmeaInvariant, NmeaInvSuffices, PTL
=============================================================================
