----------------------------- MODULE MCClients -----------------------------
(***************************************************************************)
(* The components between the framework's clients and the engine: the      *)
(* client side of the location API, the GNSS controls, the event masks,    *)
(* the reports, the status cache, the observers of the operating system    *)
(* and the generated NMEA sentences.  Their modules share no variables.    *)
(* ClientsInterleaved lets them take their steps in any order and is what  *)
(* the theorems are about; in ClientsSpec, which TLC checks, a behaviour   *)
(* is one of one component, active, and the others stay as they began.     *)
(***************************************************************************)
EXTENDS EventMask, GnssControl, ApiClient, Reports, SystemStatus, OsObserver, Nmea, TLC

VARIABLE active    \* the component whose behaviour it is

-----------------------------------------------------------------------------
(* Instances.                                                              *)

\* A client with tracking and NMEA callbacks, and one with NI callbacks.
SmallCallbackSets == {{"trackingCb", "gnssNmeaCb"}, {"gnssNiCb"}}

\* Values the framework sets, and what gps.conf starts with.
SmallUpdates == {<<"GPS_LOCK", 3>>, <<"GPS_LOCK", 7>>, <<"SUPL_MODE", 1>>, <<"SUPL_VER", 131074>>}
SmallGpsConf == "SUPL_VER" :> 131072 @@ "SUPL_MODE" :> 3 @@ "LPP_PROFILE" :> 2 @@ "SUPL_HOST" :> 1

\* A final fix of GPS and Galileo, an intermediate one of QZSS, one report
\* of the others; the shift of id 36 may have the bit of id 4.
Fix(status, inaccurate, used) ==
    [kind |-> "position", status |-> status, tech |-> {"satellite"}, inaccurate |-> inaccurate,
     hasUsed |-> TRUE, used |-> used, fields |-> {"LAT_LONG", "DOP", "ACCURACY"}]
Seen(constellation, id, inFix) == [sv |-> <<constellation, id>>, inFix |-> inFix]
SmallReports ==
    {Fix("success", FALSE, {<<"gps", 1>>, <<"galileo", 4>>}), Fix("intermediate", TRUE, {<<"qzss", 1>>}),
     [kind |-> "sv", svs |-> <<Seen("gps", 1, FALSE), Seen("galileo", 36, FALSE),
                               Seen("qzss", 1, TRUE), Seen("sbas", 1, FALSE)>>],
     [kind |-> "nmea", debug |-> FALSE], [kind |-> "nmea", debug |-> TRUE],
     [kind |-> "measurement", clock |-> {"BIAS"},
      measurements |-> <<[sv |-> <<"gps", 1>>, flags |-> {"CARRIER_PHASE"}]>>]}
SmallReportCbs == [c \in {"gnssClient"} |-> {"trackingCb", "gnssSvCb", "gnssNmeaCb"}]

\* Up to five satellites of two constellations and one without sentences;
\* used satellites with none, some and more than a GSA sentence lists.
SmallSvLists == {[n \in DOMAIN types |-> [type |-> types[n], svId |-> n]] :
                    types \in UNION {[1 .. n -> {"GPS", "GLONASS", "SBAS"}] : n \in 0 .. 5}}
SmallUsedMasks == [GPS : {{}, 1 .. 3, 1 .. 13}, GLONASS : {{}, {1, 2}}, GALILEO : {{}, {36}},
                   QZSS : {{1}}, BEIDOU : {{}, 5 .. 14}]

-----------------------------------------------------------------------------
clientsVars == <<maskVars, controlVars, apiVars, reportVars, statusVars, osVars, nmeaVars>>

MaskActs == MaskNext /\ UNCHANGED <<controlVars, apiVars, reportVars, statusVars, osVars, nmeaVars>>
ControlActs == ControlNext /\ UNCHANGED <<maskVars, apiVars, reportVars, statusVars, osVars, nmeaVars>>
ApiActs == ApiNext /\ UNCHANGED <<maskVars, controlVars, reportVars, statusVars, osVars, nmeaVars>>
ReportActs == ReportNext /\ UNCHANGED <<maskVars, controlVars, apiVars, statusVars, osVars, nmeaVars>>
StatusActs == StatusNext /\ UNCHANGED <<maskVars, controlVars, apiVars, reportVars, osVars, nmeaVars>>
OsActs == OsNext /\ UNCHANGED <<maskVars, controlVars, apiVars, reportVars, statusVars, nmeaVars>>
NmeaActs == NmeaNext /\ UNCHANGED <<maskVars, controlVars, apiVars, reportVars, statusVars, osVars>>

ClientsStart == MaskInit /\ ControlInit /\ ApiInit /\ ReportInit /\ StatusInit /\ OsInit /\ NmeaInit

OneActs == MaskActs \/ ControlActs \/ ApiActs \/ ReportActs \/ StatusActs \/ OsActs \/ NmeaActs
ClientsInterleaved == ClientsStart /\ [][OneActs]_clientsVars

ClientsInit ==
    /\ active \in {"mask", "control", "api", "report", "status", "os", "nmea"}
    /\ ClientsStart
    /\ active # "api" => apiRole = "tracking"

ClientsNext ==
    /\ UNCHANGED active
    /\ \/ active = "mask" /\ MaskActs
       \/ active = "control" /\ ControlActs
       \/ active = "api" /\ ApiActs
       \/ active = "report" /\ ReportActs
       \/ active = "status" /\ StatusActs
       \/ active = "os" /\ OsActs
       \/ active = "nmea" /\ NmeaActs

ClientsSpec == ClientsInit /\ [][ClientsNext]_<<clientsVars, active>>

(* Every variable of the seven components has its type.                    *)
ClientsTypeOK ==
    MaskTypeOK /\ ControlTypeOK /\ ApiTypeOK /\ ReportTypeOK /\ StatusTypeOK /\ OsTypeOK /\ NmeaTypeOK
=============================================================================
