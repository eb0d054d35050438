---------------------------- MODULE ComposedProofs ----------------------------
(***************************************************************************)
(* What holds of each component holds of the components composed, however  *)
(* their steps are interleaved: every behaviour of ClientsInterleaved is   *)
(* one of the event masks, of the GNSS controls, of the client side of the *)
(* API, of the reports, of the status cache, of the observers and of the   *)
(* NMEA sentences, because a step of one leaves the variables of all       *)
(* others alone.  The specification TLC checks is a special case.          *)
(***************************************************************************)
EXTENDS MCClients, ControlProofs, ClientProofs

(* A step of the composition is, for each component, its own or none.      *)
LEMMA StepOfEach ==
  ASSUME [OneActs]_clientsVars
  PROVE  /\ [MaskNext]_maskVars /\ [ControlNext]_controlVars /\ [ApiNext]_apiVars
         /\ [ReportNext]_reportVars /\ [StatusNext]_statusVars /\ [OsNext]_osVars
         /\ [NmeaNext]_nmeaVars
  BY DEF OneActs, MaskActs, ControlActs, ApiActs, ReportActs, StatusActs, OsActs, NmeaActs, clientsVars

(* Whatever order the components act in, each starts and steps as it does  *)
(* by itself: the interleaved specification implements that of each.       *)
THEOREM ClientsImplementComponents ==
  ClientsInterleaved => /\ MaskSpec /\ ControlSpec /\ ApiSpec /\ ReportSpec /\ StatusSpec
                        /\ OsSpec /\ NmeaSpec
  <1>1. ClientsStart => /\ MaskInit /\ ControlInit /\ ApiInit /\ ReportInit /\ StatusInit
                        /\ OsInit /\ NmeaInit
    BY DEF ClientsStart
  <1> QED BY <1>1, StepOfEach, PTL DEF ClientsInterleaved, MaskSpec, ControlSpec, ApiSpec,
             ReportSpec, StatusSpec, OsSpec, NmeaSpec

(* The specification TLC checks, in which one component acts, is one of    *)
(* the interleavings: what is proved of these holds of it.                 *)
THEOREM ClientsAreInterleaved == ClientsSpec => ClientsInterleaved
  <1>1. ClientsInit => ClientsStart
    BY DEF ClientsInit
  <1>2. [ClientsNext]_<<clientsVars, active>> => [OneActs]_clientsVars
    BY DEF ClientsNext, OneActs
  <1> QED BY <1>1, <1>2, PTL DEF ClientsSpec, ClientsInterleaved

(* Every variable of the seven components has its type in every            *)
(* interleaving of their steps.                                            *)
THEOREM ClientsTypeCorrect == ClientsInterleaved => []ClientsTypeOK
  <1>1. MaskTypeOK /\ ControlTypeOK /\ ApiTypeOK /\ ReportTypeOK /\ StatusTypeOK
          /\ OsTypeOK /\ NmeaTypeOK => ClientsTypeOK
    BY DEF ClientsTypeOK
  <1> QED BY <1>1, ClientsImplementComponents, MaskTypeCorrect, ControlTypeCorrect,
             ApiTypeCorrect, ReportTypeCorrect, StatusTypeCorrect, OsTypeCorrect,
             NmeaTypeCorrect, PTL

(* What the components promise one by one they keep in every interleaving, *)
(* for every gps.conf: adapters get the events they ask for and the engine *)
(* is asked for no others, votes follow the client, answers reach their    *)
(* requests, what runs can be ended, reports are delivered once, marks,    *)
(* debug data, subscribers and connections are current, and the sentences  *)
(* of a report agree.                                                      *)
THEOREM ClientsAreSafe ==
  ClientsInterleaved => []( /\ EngineMaskExact /\ AdaptersReached /\ VoteFollowsClient
                            /\ AnswersMatchRequests /\ LiveCanBeEnded
                            /\ DeliveredOnce /\ SvMarksAreFresh /\ DebugReportIsCurrent
                            /\ SubscribersCurrent /\ ConnectionsCurrent /\ SentencesAgree )
  BY ClientsImplementComponents, EngineAskedExactly, AdaptersAreReached, VotesAreReleased,
     AnswersReachRequests, SessionsCanBeEnded, ReportsDeliveredOnce, SvMarksFresh,
     DebugIsCurrent, SubscribersAreCurrent, ConnectionsAreCurrent, SentencesAreConsistent, PTL

(* The engine follows the framework's values while the other components    *)
(* act, under the same two hypotheses on gps.conf and the GLONASS masks.   *)
THEOREM ClientsFollowFramework ==
  NoLockInGpsConf /\ KnownProtocols => (ClientsInterleaved => []EngineFollowsFramework)
  <1> SUFFICES ASSUME NoLockInGpsConf, KnownProtocols
               PROVE  ClientsInterleaved => []EngineFollowsFramework
    OBVIOUS
  <1>1. ControlSpec => []EngineFollowsFramework
    BY EngineFollows
  <1> QED BY <1>1, ClientsImplementComponents, PTL
=============================================================================
