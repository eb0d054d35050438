---------------------------- MODULE SystemStatus ----------------------------
(***************************************************************************)
(* The status cache (gps/core/SystemStatus.cpp, .h): for every item a      *)
(* bounded history, fed by the engine's debug sentences, by positions and  *)
(* by the data items of the operating system, reset when all aiding data   *)
(* is deleted, and read by GnssAdapter's debug report.  Every operation    *)
(* holds mMutexSystemStatus, so each is one step whatever thread calls it. *)
(*                                                                         *)
(* An entry is [key, rest, valid]: key stands for all the fields the       *)
(* item's equals compares, rest for those it does not, which only a        *)
(* location has: speed, bearing, accuracies and the extended location.     *)
(* valid is not compared either.  A number of Levels stands for the        *)
(* contents of a sentence, 0 for all fields zero.  The time stamps         *)
(* mUtcTime and mUtcReported and dump are left out.                        *)
(***************************************************************************)
EXTENDS Naturals, Sequences, FiniteSets

CONSTANTS
    Levels,           \* contents of a sentence or position: 0 and others
    FieldCounts,      \* numbers of fields a received sentence may have
    maxItem,          \* SystemStatusItemBase::maxItem, 5 in the code
    MaxStatusEvents   \* bound: events of the engine in one behaviour

ASSUME StatusAssumption == maxItem \in Nat \ {0} /\ MaxStatusEvents \in Nat

VARIABLES
    mCache,           \* item |-> its history, oldest first
    reported,         \* history variable: item |-> last entry given to it
    since,            \* history variable: item |-> contents reported since the reset
    statusEvents      \* bound counter

statusVars == <<mCache, reported, since, statusEvents>>

-----------------------------------------------------------------------------
(* The parsers.  Each is the set of results a sentence of n fields with    *)
(* contents v can have: PQWM1 clears its result first, the others return   *)
(* before they have written anything, and the caller then reads memory     *)
(* that nobody initialized.                                                *)

Parsed(n, eMax, v) == IF n < eMax THEN Levels ELSE {v}

PQWM1(n, v) == [main |-> IF n > 22 THEN v ELSE 0,
                leap |-> IF n > 24 THEN v ELSE 0,
                bands |-> IF n > 30 THEN v ELSE 0]
PQWP1(n, v) == Parsed(n, 9, v)
PQWP2(n, v) == Parsed(n, 7, v)
PQWP3(n, v) == Parsed(n, 13, v)
PQWP4(n, v) == Parsed(n, 7, v)
PQWP5(n, v) == Parsed(n, 17, v)
PQWP6(n, v) == Parsed(n, 3, v)
PQWP7(n, v) == Parsed(n, 404, v)
PQWS1(n, v) == Parsed(n, 4, v)

(* The items' constructors: the fields an item takes from its sentence are *)
(* the ones equals compares, except where an item says it is valid.        *)

TimeAndClock(m1)     == [key |-> <<m1.main, m1.leap>>, rest |-> 0, valid |-> m1.main # 0]
XoState(m1)          == [key |-> m1.main, rest |-> 0, valid |-> TRUE]
RfAndParams(m1)      == [key |-> <<m1.main, m1.bands>>, rest |-> 0, valid |-> TRUE]
ErrRecovery(m1)      == [key |-> m1.main, rest |-> 0, valid |-> TRUE]
InjectedPosition(p1) == [key |-> p1, rest |-> 0, valid |-> TRUE]
BestPosition(p2)     == [key |-> p2, rest |-> 0, valid |-> TRUE]
Xtra(p3)             == [key |-> p3, rest |-> 0, valid |-> TRUE]
Ephemeris(p4)        == [key |-> p4, rest |-> 0, valid |-> TRUE]
SvHealth(p5)         == [key |-> p5, rest |-> 0, valid |-> TRUE]
Pdr(p6)              == [key |-> p6, rest |-> 0, valid |-> TRUE]
NavData(p7)          == [key |-> p7, rest |-> 0, valid |-> TRUE]
PositionFailure(s1)  == [key |-> s1, rest |-> 0, valid |-> TRUE]

(* A position, and how it moves and how accurate it is.                    *)
LastLocation(pos, motion) == [key |-> pos, rest |-> motion, valid |-> TRUE]

(* The default entries.  SystemStatusLocation() sets mValid alone.         *)
PairItems == {"mTimeAndClock", "mRfAndParams"}
EngineItems == PairItems \cup
    {"mLocation", "mXoState", "mErrRecovery", "mInjectedPosition", "mBestPosition",
     "mXtra", "mEphemeris", "mSvHealth", "mPdr", "mNavData", "mPositionFailure"}
DefaultEntry(i, garbage) ==
    [key |-> CASE i = "mLocation" -> garbage [] i \in PairItems -> <<0, 0>> [] OTHER -> 0,
     rest |-> IF i = "mLocation" THEN garbage ELSE 0,
     valid |-> FALSE]

(* The entries a sentence gives its items, as functions on sets of items.  *)
Entries(item, entry(_), results) == {[i \in {item} |-> entry(r)] : r \in results}

EntriesOf(sentence, n, v) ==
    CASE sentence = "$PQWM1" ->
            LET m1 == PQWM1(n, v) IN
            {[i \in {"mTimeAndClock", "mXoState", "mRfAndParams", "mErrRecovery"} |->
                CASE i = "mTimeAndClock" -> TimeAndClock(m1) [] i = "mXoState" -> XoState(m1)
                  [] i = "mRfAndParams" -> RfAndParams(m1)   [] OTHER -> ErrRecovery(m1)]}
      [] sentence = "$PQWP1" -> Entries("mInjectedPosition", InjectedPosition, PQWP1(n, v))
      [] sentence = "$PQWP2" -> Entries("mBestPosition", BestPosition, PQWP2(n, v))
      [] sentence = "$PQWP3" -> Entries("mXtra", Xtra, PQWP3(n, v))
      [] sentence = "$PQWP4" -> Entries("mEphemeris", Ephemeris, PQWP4(n, v))
      [] sentence = "$PQWP5" -> Entries("mSvHealth", SvHealth, PQWP5(n, v))
      [] sentence = "$PQWP6" -> Entries("mPdr", Pdr, PQWP6(n, v))
      [] sentence = "$PQWP7" -> Entries("mNavData", NavData, PQWP7(n, v))
      [] sentence = "$PQWS1" -> Entries("mPositionFailure", PositionFailure, PQWS1(n, v))
      [] OTHER -> {}

Sentences == {"$PQWM1", "$PQWP1", "$PQWP2", "$PQWP3", "$PQWP4", "$PQWP5", "$PQWP6",
              "$PQWP7", "$PQWS1"}

-----------------------------------------------------------------------------
(* Storing.                                                                *)

Latest(history) == history[Len(history)]
Contents(entry) == <<entry.key, entry.rest>>

\* Mutant: the oldest entry is not dropped.
SetDefaultGrows(history, entry) == Append(history, entry)

setDefaultIteminReport(history, entry) ==
    LET longer == Append(history, entry) IN
    IF Len(longer) > maxItem THEN Tail(longer) ELSE longer

\* Mutant: the comparison looks at the oldest entry of the history.
SetComparesOldest(history, entry) ==
    IF history # <<>> /\ Head(history).key = entry.key THEN history
    ELSE setDefaultIteminReport(history, entry)

setIteminReport(history, entry) ==
    IF history # <<>> /\ Latest(history).key = entry.key THEN history
    ELSE setDefaultIteminReport(history, entry)

\* Applies Set to the history of every item entries has an entry for.
Store(entries, Set(_, _)) ==
    /\ mCache' = [i \in DOMAIN mCache |->
                    IF i \in DOMAIN entries THEN Set(mCache[i], entries[i]) ELSE mCache[i]]
    /\ reported' = [i \in DOMAIN reported |->
                      IF i \in DOMAIN entries THEN entries[i] ELSE reported[i]]
    /\ statusEvents < MaxStatusEvents
    /\ statusEvents' = statusEvents + 1

\* A report counts for since, a default entry does not.
Report(entries) ==
    /\ Store(entries, setIteminReport)
    /\ since' = [i \in DOMAIN since |->
                   IF i \in DOMAIN entries THEN since[i] \cup {Contents(entries[i])} ELSE since[i]]

\* Sentences that do not begin with $PQW, or are too long, are not consumed.
setNmeaString == \E s \in Sentences, n \in FieldCounts, v \in Levels :
    \E entries \in EntriesOf(s, n, v) : Report(entries)

eventPosition == \E pos, motion \in Levels : Report([i \in {"mLocation"} |-> LastLocation(pos, motion)])

\* On the adapter's thread, when all aiding data is deleted.
setDefaultGnssEngineStates == \E garbage \in Levels :
    /\ Store([i \in EngineItems |-> DefaultEntry(i, garbage)], setDefaultIteminReport)
    /\ since' = [i \in DOMAIN since |-> {}]

-----------------------------------------------------------------------------
(* Reading: getReport(latest only), then GnssAdapter::getDebugReport.      *)

NoEntry == [key |-> 0, rest |-> 0, valid |-> FALSE]
getReport == [i \in DOMAIN mCache |-> IF mCache[i] = <<>> THEN NoEntry ELSE Latest(mCache[i])]

DebugLocation(r) == IF r["mLocation"].valid THEN "mLocation" ELSE "mBestPosition"

\* Every satellite is listed, with what these items say of it.
convertSatelliteInfo == {"mNavData", "mSvHealth", "mXtra"}

\* Measurements take the gain when the cached time is within 2 s of theirs:
\* never the time 0, except in the first two seconds of a week.
AgcItems(r) ==
    IF /\ mCache["mRfAndParams"] # <<>> /\ mCache["mTimeAndClock"] # <<>>
       /\ r["mTimeAndClock"].key # <<0, 0>>
    THEN {"mRfAndParams"} ELSE {}

\* The items the debug report takes contents from.
getDebugReport(r) ==
    {i \in {DebugLocation(r), "mTimeAndClock"} : r[i].valid} \cup convertSatelliteInfo

\* GnssDebug.cpp shows zero ephemeris fields as unknown; the unknown values
\* it gives invalid positions, times and accuracies are left out.
convertGnssEphemeris(key) == IF key = 0 THEN "UNKNOWN" ELSE "KNOWN"
getDebugData(r) ==
    {i \in getDebugReport(r) : i \in convertSatelliteInfo => convertGnssEphemeris(r[i].key) = "KNOWN"}

-----------------------------------------------------------------------------
StatusInit ==
    /\ mCache = [i \in EngineItems |-> <<>>]
    /\ reported = [i \in EngineItems |-> NoEntry]
    /\ since = [i \in EngineItems |-> {}]
    /\ statusEvents = 0

StatusNext == setNmeaString \/ eventPosition \/ setDefaultGnssEngineStates

StatusSpec == StatusInit /\ [][StatusNext]_statusVars

StatusTypeOK ==
    /\ \A i \in DOMAIN mCache :
        Len(mCache[i]) <= maxItem /\ \A n \in DOMAIN mCache[i] : mCache[i][n].valid \in BOOLEAN
    /\ DOMAIN reported \subseteq DOMAIN mCache /\ DOMAIN since = DOMAIN mCache
    /\ statusEvents \in 0 .. MaxStatusEvents

(* What the debug data and the measurements present as known was reported  *)
(* after the aiding data was last deleted, and is what was reported last:  *)
(* nothing from before the reset comes back, and no repetition, discarded  *)
(* as unchanged or pushed out of the bounded history, leaves an older      *)
(* entry at the end.  Of a location this holds for the position, the rest  *)
(* is one reported with it (getReport, getDebugReport, getAgcInformation). *)
DebugReportIsCurrent ==
    LET r == getReport IN
    \A i \in getDebugData(r) \cup AgcItems(r) :
        /\ Contents(r[i]) \in since[i] /\ r[i].key = reported[i].key
        /\ i # "mLocation" => Contents(r[i]) = Contents(reported[i])

=============================================================================
