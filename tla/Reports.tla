------------------------------ MODULE Reports ------------------------------
(***************************************************************************)
(* The reports of the engine on their way to the framework: the events of  *)
(* GnssAdapter on the engine's thread, the ULP library, which may take a   *)
(* report and give it back later, the adapter's thread, which decides what *)
(* is reported and marks the satellites used in the last fix, and the      *)
(* conversions of GnssAdapter, LocationUtil and the HIDL clients.          *)
(*                                                                         *)
(* A satellite is a pair of constellation and id; positions, measurements  *)
(* and clocks carry the set of flags of their valid fields.  A mask of     *)
(* used satellites is the set of the ids whose bits are set; BeiDou and    *)
(* Galileo ids go beyond the 32 bits of the int reportSv tests them with.  *)
(***************************************************************************)
EXTENDS Naturals, Sequences, FiniteSets

CONSTANTS
  ReportClients,         \* clients of the adapter
  ReportCbs,             \* their callbacks, by client
  EngineReports,         \* reports the engine may make
  AcceptIntermediate,    \* INTERMEDIATE_POS of gps.conf
  ApNmea,                \* NMEA_PROVIDER is the AP and there are tracking sessions
  QZSS_SV_PRN_MIN,       \* what is added to QZSS ids (1-based)
  SVS_COUNT,             \* satellites a framework callback has room for
  MaxReports,            \* bound: reports the engine makes
  MaxReportMsgs          \* bound: messages waiting for the adapter's thread

ReportKinds == {"position", "sv", "nmea", "measurement"}
ReportedTech == {"satellite", "sensors", "hybrid"}
Constellations == {"gps", "glonass", "beidou", "galileo", "qzss", "sbas"}

EngineSv == STRING \X Nat      \* a satellite: its constellation and id

\* A satellite in view, and whether the engine says it is used in the fix.
SvInView == [sv : EngineSv, inFix : BOOLEAN]

\* The constellations with a mask of used satellites, of 64 bits.
Masked == Constellations \ {"sbas"}
UsedSv == Masked \X (1..64)

(* What the engine reports: satellites, the ones a position used, and the  *)
(* measurements of satellites.                                             *)
ReportAssumption ==
  /\ {QZSS_SV_PRN_MIN, SVS_COUNT, MaxReports} \subseteq Nat
  /\ \A r \in EngineReports :
       /\ r.kind \in ReportKinds
       /\ r.kind = "sv" => r.svs \in Seq(SvInView)
       /\ r.kind = "position" => r.used \subseteq UsedSv
       /\ r.kind = "measurement" => r \in [kind : ReportKinds, clock : SUBSET STRING,
                                           measurements : Seq([sv : EngineSv, flags : SUBSET STRING])]
ASSUME ReportAssumption

VARIABLES
  ulpInstalled,                    \* is mUlpProxy a real one
  ulpHeld,                         \* reports the ULP library took
  mGnssSvIdUsedInPosAvail, mGnssSvIdUsedInPosition,
  reportQ,                         \* messages of the adapter's thread
  listening,                       \* clients in mClientData
  nReports,                        \* reports made so far
  delivered                        \* what the framework was given, in order

reportVars == <<ulpInstalled, ulpHeld, mGnssSvIdUsedInPosAvail, mGnssSvIdUsedInPosition, reportQ,
                listening, nReports, delivered>>
usedVars == <<mGnssSvIdUsedInPosAvail, mGnssSvIdUsedInPosition>>

(* The queues hold numbered reports, the log names listening clients.      *)
ReportTypeOK ==
  /\ {ulpInstalled, mGnssSvIdUsedInPosAvail} \subseteq BOOLEAN
  /\ \A h \in ulpHeld : h.n \in 1..MaxReports /\ h.report.kind \in ReportKinds
  /\ \A i \in DOMAIN reportQ : "n" \in DOMAIN reportQ[i] => reportQ[i].report.kind \in ReportKinds
  /\ listening \subseteq ReportClients /\ nReports \in 0..MaxReports
  /\ \A k \in DOMAIN delivered : delivered[k].to \subseteq ReportClients

ReportInit ==
  /\ ulpInstalled = FALSE /\ ulpHeld = {}
  /\ mGnssSvIdUsedInPosAvail = FALSE /\ mGnssSvIdUsedInPosition = {}
  /\ reportQ = <<>> /\ listening = {} /\ nReports = 0 /\ delivered = <<>>

-----------------------------------------------------------------------------
(* Conversions: each turns the flags it has a line for into their          *)
(* counterparts and drops the others.                                      *)

Converted(flags, table) == {table[f] : f \in flags \cap DOMAIN table}

LocationFlags ==
  [LAT_LONG |-> "LAT_LONG_BIT", ALTITUDE |-> "ALTITUDE_BIT", SPEED |-> "SPEED_BIT", BEARING |-> "BEARING_BIT",
   ACCURACY |-> "ACCURACY_BIT", VERT_UNC |-> "VERTICAL_ACCURACY_BIT", SPEED_UNC |-> "SPEED_ACCURACY_BIT",
   BEARING_UNC |-> "BEARING_ACCURACY_BIT"]
TechFlags == [satellite |-> "GNSS_BIT", cellid |-> "CELL_BIT", wifi |-> "WIFI_BIT", sensors |-> "SENSORS_BIT"]
convertLocation(fields, tech) ==
  [flags |-> Converted(fields, LocationFlags), techMask |-> Converted(tech, TechFlags)]

InfoFlags ==
  [ALTITUDE_MEAN_SEA_LEVEL |-> "ALTITUDE_MEAN_SEA_LEVEL_BIT", DOP |-> "DOP_BIT", MAG_DEV |-> "MAGNETIC_DEVIATION_BIT",
   HOR_RELIABILITY |-> "HOR_RELIABILITY_BIT", VERT_RELIABILITY |-> "VER_RELIABILITY_BIT",
   HOR_ELIP_UNC_MAJOR |-> "HOR_ACCURACY_ELIP_SEMI_MAJOR_BIT",
   HOR_ELIP_UNC_MINOR |-> "HOR_ACCURACY_ELIP_SEMI_MINOR_BIT",
   HOR_ELIP_UNC_AZIMUTH |-> "HOR_ACCURACY_ELIP_AZIMUTH_BIT"]
convertLocationInfo(fields) == Converted(fields, InfoFlags)

HidlLocationFlags ==
  [LAT_LONG_BIT |-> "HAS_LAT_LONG", ALTITUDE_BIT |-> "HAS_ALTITUDE", SPEED_BIT |-> "HAS_SPEED",
   BEARING_BIT |-> "HAS_BEARING", ACCURACY_BIT |-> "HAS_HORIZONTAL_ACCURACY",
   VERTICAL_ACCURACY_BIT |-> "HAS_VERTICAL_ACCURACY", SPEED_ACCURACY_BIT |-> "HAS_SPEED_ACCURACY",
   BEARING_ACCURACY_BIT |-> "HAS_BEARING_ACCURACY"]
convertGnssLocation(location) == Converted(location.flags, HidlLocationFlags)

convertGnssConstellationType(type) == IF type \in Constellations THEN type ELSE "unknown"

AtMost(n, max) == IF n > max THEN max ELSE n

convertGnssSvStatus(svs) ==
  [i \in 1..AtMost(Len(svs), SVS_COUNT) |->
     [constellation |-> convertGnssConstellationType(svs[i].sv[1]), svid |-> svs[i].sv[2],
      usedInFix |-> svs[i].inFix]]

MeasurementFlags ==
  [SIGNAL_TO_NOISE_RATIO |-> "HAS_SNR", CARRIER_FREQUENCY |-> "HAS_CARRIER_FREQUENCY",
   CARRIER_CYCLES |-> "HAS_CARRIER_CYCLES", CARRIER_PHASE |-> "HAS_CARRIER_PHASE",
   CARRIER_PHASE_UNCERTAINTY |-> "HAS_CARRIER_PHASE_UNCERTAINTY",
   AUTOMATIC_GAIN_CONTROL |-> "HAS_AUTOMATIC_GAIN_CONTROL"]
convertGnssMeasurement(data) ==
  [svid |-> data.sv[2], constellation |-> convertGnssConstellationType(data.sv[1]),
   flags |-> Converted(data.flags, MeasurementFlags)]

ClockFlags ==
  [LEAP_SECOND |-> "HAS_LEAP_SECOND", TIME_UNCERTAINTY |-> "HAS_TIME_UNCERTAINTY", FULL_BIAS |-> "HAS_FULL_BIAS",
   BIAS |-> "HAS_BIAS", BIAS_UNCERTAINTY |-> "HAS_BIAS_UNCERTAINTY", DRIFT |-> "HAS_DRIFT",
   DRIFT_UNCERTAINTY |-> "HAS_DRIFT_UNCERTAINTY"]
convertGnssClock(flags) == Converted(flags, ClockFlags)

convertGnssData(measurements, clock) ==
  [measurements |-> [i \in 1..AtMost(Len(measurements), SVS_COUNT) |-> convertGnssMeasurement(measurements[i])],
   clock |-> convertGnssClock(clock)]

(* The gain of the constellation's band, if the engine's last debug report *)
(* is of the same time; there is none for SBAS.                            *)
getAgcInformation(measurements, sameTime) ==
  [i \in DOMAIN measurements |->
     IF sameTime /\ measurements[i].sv[1] \in Constellations \ {"sbas"}
       THEN [measurements[i] EXCEPT !.flags = @ \cup {"AUTOMATIC_GAIN_CONTROL"}]
       ELSE measurements[i]]

-----------------------------------------------------------------------------
(* The engine's thread.                                                    *)

Numbered(r) == [n |-> nReports + 1, report |-> r]
EngineMakes(kind, r) ==
  /\ r.kind = kind
  /\ Len(reportQ) < MaxReportMsgs /\ nReports < MaxReports /\ nReports' = nReports + 1
  /\ UNCHANGED <<ulpInstalled, usedVars, listening, delivered>>
SendReport(r) == reportQ' = Append(reportQ, Numbered(r)) /\ UNCHANGED ulpHeld

(* mUlpProxy's report methods: those of the base class take nothing.       *)
UlpTakes(r) == ulpInstalled /\ ulpHeld' = ulpHeld \cup {Numbered(r)} /\ UNCHANGED reportQ

\* Mutant: a report the ULP library took is also sent on.
PositionTwice(r) ==
  /\ EngineMakes("position", r)
  /\ reportQ' = Append(reportQ, Numbered(r))
  /\ ulpHeld' = IF ulpInstalled THEN ulpHeld \cup {Numbered(r)} ELSE ulpHeld

reportPositionEvent(r) == EngineMakes("position", r) /\ (UlpTakes(r) \/ SendReport(r))
reportSvEvent(r) == EngineMakes("sv", r) /\ (UlpTakes(r) \/ SendReport(r))
reportNmeaEvent(r) == EngineMakes("nmea", r) /\ ((~r.debug /\ UlpTakes(r)) \/ SendReport(r))
reportGnssMeasurementDataEvent(r) ==
  /\ EngineMakes("measurement", r)
  /\ \E sameTime \in BOOLEAN :
       SendReport([r EXCEPT !.measurements = getAgcInformation(r.measurements, sameTime)])

(* The library gives a report back (fromUlp), or drops it.                 *)
UlpReports(m) ==
  /\ m \in ulpHeld /\ ulpHeld' = ulpHeld \ {m}
  /\ reportQ' = Append(reportQ, m) \/ UNCHANGED reportQ
  /\ UNCHANGED <<ulpInstalled, usedVars, listening, nReports, delivered>>

ReportCommand ==
  /\ Len(reportQ) < MaxReportMsgs
  /\ \E m \in [type : {"setUlp"}, ulp : BOOLEAN] \cup [type : {"add", "remove"}, client : ReportClients] :
       reportQ' = Append(reportQ, m)
  /\ UNCHANGED <<ulpInstalled, ulpHeld, usedVars, listening, nReports, delivered>>

-----------------------------------------------------------------------------
(* The adapter's thread.                                                   *)

NextReport(kind) ==
  /\ reportQ # <<>> /\ "n" \in DOMAIN Head(reportQ) /\ Head(reportQ).report.kind = kind
  /\ reportQ' = Tail(reportQ)
  /\ UNCHANGED <<ulpInstalled, ulpHeld, listening, nReports>>

NextCommand(type) ==
  /\ reportQ # <<>> /\ "type" \in DOMAIN Head(reportQ) /\ Head(reportQ).type = type
  /\ reportQ' = Tail(reportQ)
  /\ UNCHANGED <<ulpHeld, usedVars, nReports, delivered>>

(* Without a library the base class is installed.                          *)
setUlpProxy == NextCommand("setUlp") /\ ulpInstalled' = Head(reportQ).ulp /\ UNCHANGED listening

ClientsChange ==
  /\ \/ NextCommand("add") /\ listening' = listening \cup {Head(reportQ).client}
     \/ NextCommand("remove") /\ listening' = listening \ {Head(reportQ).client}
  /\ UNCHANGED ulpInstalled

Hear(cb) == {c \in listening : cb \in ReportCbs[c]}

(* What the framework gets for the report at hand: the callback's content, *)
(* and the sentences the adapter generates.                                *)
Deliver(reported, cb, content) ==
  delivered' = Append(delivered,
    [n |-> Head(reportQ).n, report |-> Head(reportQ).report, reported |-> reported,
     to |-> IF reported THEN Hear(cb) ELSE {},
     nmeaTo |-> IF ApNmea /\ cb \in {"trackingCb", "gnssSvCb"} THEN Hear("gnssNmeaCb") ELSE {},
     content |-> content])

onTrackingCb(r) ==
  [location |-> convertGnssLocation(convertLocation(r.fields, r.tech)), info |-> convertLocationInfo(r.fields)]

needReport(r) ==
  \/ r.status = "success" /\ r.tech \cap ReportedTech # {}
  \/ r.status = "intermediate" /\ AcceptIntermediate /\ ~r.inaccurate

(* A position that is not reported still yields (blank) sentences.         *)
reportPosition ==
  LET r == Head(reportQ).report IN
  /\ NextReport("position")
  /\ IF needReport(r) /\ r.hasUsed
       THEN mGnssSvIdUsedInPosAvail' = TRUE /\ mGnssSvIdUsedInPosition' = r.used
       ELSE UNCHANGED usedVars
  /\ IF needReport(r) \/ ApNmea THEN Deliver(needReport(r), "trackingCb", onTrackingCb(r))
                                 ELSE UNCHANGED delivered

(* The bits set in 1 << (id - 1), an int that is converted to 64 bits: the *)
(* sign, bit 32, is extended.  A shift by more is undefined: the processor *)
(* takes the distance modulo 32 (wraps) or shifts everything out.          *)
Extended(n) == IF n = 32 THEN 32..64 ELSE {n}
IntShift(id, wraps) ==
  IF id \in 1..32 THEN Extended(id) ELSE IF wraps THEN Extended(((id + 31) % 32) + 1) ELSE {}

(* The mask of a constellation in the last fix, 0 where there is none.     *)
svUsedIdMask(constellation) ==
  IF mGnssSvIdUsedInPosAvail /\ constellation \in Masked
    THEN {id \in 1..64 : <<constellation, id>> \in mGnssSvIdUsedInPosition} ELSE {}

(* The flag is set where the mask says so and else left as it came.        *)
UsedInFix(s, wraps) == s.inFix \/ svUsedIdMask(s.sv[1]) \cap IntShift(s.sv[2], wraps) # {}

(* QZSS ids are 1-based in the engine's report and moved after the         *)
(* satellites were looked up.                                              *)
Shown(sv) == IF sv[1] = "qzss" THEN <<sv[1], sv[2] + QZSS_SV_PRN_MIN - 1>> ELSE sv
onGnssSvCb(svs, wraps) ==
  convertGnssSvStatus([i \in DOMAIN svs |-> [sv |-> Shown(svs[i].sv), inFix |-> UsedInFix(svs[i], wraps)]])

\* Mutant: the satellites of a fix mark every later report.
SvKeepsUsed ==
  /\ NextReport("sv")
  /\ \E wraps \in BOOLEAN : Deliver(TRUE, "gnssSvCb", onGnssSvCb(Head(reportQ).report.svs, wraps))
  /\ UNCHANGED usedVars

reportSv ==
  /\ NextReport("sv")
  /\ \E wraps \in BOOLEAN : Deliver(TRUE, "gnssSvCb", onGnssSvCb(Head(reportQ).report.svs, wraps))
  /\ mGnssSvIdUsedInPosAvail' = FALSE /\ UNCHANGED mGnssSvIdUsedInPosition

(* Debug sentences are consumed by SystemStatus.                           *)
reportNmea ==
  /\ NextReport("nmea")
  /\ IF Head(reportQ).report.debug THEN UNCHANGED delivered ELSE Deliver(TRUE, "gnssNmeaCb", <<>>)
  /\ UNCHANGED usedVars

onGnssMeasurementsCb(measurements, clock) == convertGnssData(measurements, clock)

reportGnssMeasurementData ==
  /\ NextReport("measurement")
  /\ LET r == Head(reportQ).report IN
     Deliver(TRUE, "gnssMeasurementsCb", onGnssMeasurementsCb(r.measurements, r.clock))
  /\ UNCHANGED usedVars

ReportNext ==
  \/ \E r \in EngineReports :
       reportPositionEvent(r) \/ reportSvEvent(r) \/ reportNmeaEvent(r) \/ reportGnssMeasurementDataEvent(r)
  \/ \E m \in ulpHeld : UlpReports(m)
  \/ ReportCommand \/ setUlpProxy \/ ClientsChange
  \/ reportPosition \/ reportSv \/ reportNmea \/ reportGnssMeasurementData

ReportSpec == ReportInit /\ [][ReportNext]_reportVars

-----------------------------------------------------------------------------
(* No report of the engine reaches the framework twice, whether the ULP    *)
(* library takes it, declines it or is installed while it is on its way.   *)
DeliveredOnce ==
  \A j, k \in DOMAIN delivered : delivered[j].n = delivered[k].n => j = k

(* The position before the k-th delivery that the framework was given with *)
(* the satellites it used, if no satellite report came after it.           *)
SetsMarks(d) == d.report.kind = "position" /\ d.reported /\ d.report.hasUsed
LastFix(log, k) ==
  {j \in 1..(k - 1) :
     /\ SetsMarks(log[j])
     /\ \A l \in (j + 1)..(k - 1) : log[l].report.kind # "sv" /\ ~SetsMarks(log[l])}

UsedInLastFix(log, k, sv) == \E j \in LastFix(log, k) : sv \in log[j].report.used

MarkIsFresh(log, k, i) ==
  LET s == log[k].report.svs[i]
      shown == log[k].content[i].usedInFix
  IN /\ s.sv[2] \in 1..31 => (shown <=> s.inFix \/ UsedInLastFix(log, k, s.sv))
     /\ shown => s.inFix \/ \E id \in 1..64 : UsedInLastFix(log, k, <<s.sv[1], id>>)

(* A satellite with an id the shift has room for is shown as used in the   *)
(* fix exactly if the engine says so or the last position the framework    *)
(* was given used it and came after the previous satellite report: no mark *)
(* survives from an older fix or a position that was not reported, none is *)
(* lost.  With any id, a mark comes from a satellite of its constellation  *)
(* in that fix (reportPosition, reportSv).                                 *)
SvMarksAreFresh ==
  \A k \in DOMAIN delivered : delivered[k].report.kind = "sv" =>
    \A i \in DOMAIN delivered[k].content : MarkIsFresh(delivered, k, i)

=============================================================================
