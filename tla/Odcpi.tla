------------------------------- MODULE Odcpi -------------------------------
(***************************************************************************)
(* On-demand coarse position injection (GnssAdapter.cpp): the modem asks   *)
(* for a position, the adapter passes the request to the framework and     *)
(* repeats it while it lasts, at most once per run of a timer.             *)
(*                                                                         *)
(* Requests and engine restarts come from the modem's thread, the expiry   *)
(* of OdcpiTimer from the timer task; each posts a message, and the        *)
(* adapter's thread handles the messages in order.  The callback is        *)
(* registered by initOdcpi, a message too; a request handled before it is  *)
(* dropped.  A LocTimer that runs may expire at any moment: LocTimer gives *)
(* no better guarantee.                                                    *)
(***************************************************************************)
EXTENDS Naturals, Sequences

CONSTANT MaxOdcpiMsgs    \* bound: messages waiting for the adapter's thread

ASSUME OdcpiBound == MaxOdcpiMsgs \in Nat

VARIABLES
  mOdcpiRequestCb,       \* is the framework's callback registered
  mOdcpiRequestActive,   \* does the modem want a position
  isEmergencyMode,       \* mOdcpiRequest.isEmergencyMode
  odcpiTimerActive,      \* OdcpiTimer::mActive
  odcpiTimerRuns,        \* LocTimer::mTimer of the timer
  odcpiQ,                \* messages of the adapter
  asked                  \* was the framework asked since the request became active

odcpiVars == <<mOdcpiRequestCb, mOdcpiRequestActive, isEmergencyMode, odcpiTimerActive,
               odcpiTimerRuns, odcpiQ, asked>>

OdcpiMsg == [type : {"start"}, emergency : BOOLEAN]
              \cup [type : {"stop", "expire", "restartSessions", "init"}]

(* Every variable of the ODCPI session has its type, and the queue keeps   *)
(* its bound.                                                              *)
OdcpiTypeOK ==
  /\ mOdcpiRequestCb \in BOOLEAN /\ mOdcpiRequestActive \in BOOLEAN
  /\ isEmergencyMode \in BOOLEAN /\ odcpiTimerActive \in BOOLEAN
  /\ odcpiTimerRuns \in BOOLEAN /\ asked \in BOOLEAN
  /\ odcpiQ \in Seq(OdcpiMsg) /\ Len(odcpiQ) <= MaxOdcpiMsgs + 1

OdcpiInit ==
  /\ mOdcpiRequestCb = FALSE /\ mOdcpiRequestActive = FALSE
  /\ isEmergencyMode = FALSE
  /\ odcpiTimerActive = FALSE /\ odcpiTimerRuns = FALSE
  /\ odcpiQ = <<[type |-> "init"]>>
  /\ asked = FALSE

-----------------------------------------------------------------------------
(* The modem's thread and the timer task.                                  *)

OdcpiPost(m) ==
  /\ Len(odcpiQ) < MaxOdcpiMsgs
  /\ odcpiQ' = Append(odcpiQ, m)
  /\ UNCHANGED <<mOdcpiRequestCb, mOdcpiRequestActive, isEmergencyMode, odcpiTimerActive,
                 odcpiTimerRuns, asked>>

reportOdcpiRequestEvent ==
  \/ \E e \in BOOLEAN : OdcpiPost([type |-> "start", emergency |-> e])
  \/ OdcpiPost([type |-> "stop"])

OdcpiEngineUp == OdcpiPost([type |-> "restartSessions"])

\* Mutant: the timer keeps expiring until it is stopped.
ExpireRepeats ==
  /\ odcpiTimerRuns
  /\ odcpiQ' = Append(odcpiQ, [type |-> "expire"])
  /\ UNCHANGED <<mOdcpiRequestCb, mOdcpiRequestActive, isEmergencyMode, odcpiTimerActive,
                 odcpiTimerRuns, asked>>

(* LocTimerDelegate::expire stops the timer, timeOutCallback posts.        *)
odcpiTimerExpireEvent ==
  /\ odcpiTimerRuns
  /\ odcpiTimerRuns' = FALSE
  /\ odcpiQ' = Append(odcpiQ, [type |-> "expire"])
  /\ UNCHANGED <<mOdcpiRequestCb, mOdcpiRequestActive, isEmergencyMode, odcpiTimerActive, asked>>

-----------------------------------------------------------------------------
(* OdcpiTimer.  LocTimer::start leaves a timer that runs alone.            *)

OdcpiTimerStart == odcpiTimerActive' = TRUE /\ odcpiTimerRuns' = TRUE
OdcpiTimerStop == odcpiTimerActive' = FALSE /\ odcpiTimerRuns' = FALSE
OdcpiTimerKeeps == UNCHANGED <<odcpiTimerActive, odcpiTimerRuns>>

OdcpiHandles(type) == odcpiQ # <<>> /\ Head(odcpiQ).type = type /\ odcpiQ' = Tail(odcpiQ)

initOdcpi ==
  /\ OdcpiHandles("init")
  /\ mOdcpiRequestCb' = TRUE
  /\ UNCHANGED <<mOdcpiRequestActive, isEmergencyMode, odcpiTimerActive, odcpiTimerRuns, asked>>

(* What reportOdcpiRequest does with a START: ask at once when neither a   *)
(* request nor the timer is active, or when an emergency replaces an       *)
(* ordinary request; else wait for the timer.                              *)
AskNow(emergency) ==
  \/ ~mOdcpiRequestActive /\ ~odcpiTimerActive
  \/ ~isEmergencyMode /\ emergency

StartTimerFor(emergency) ==
  IF AskNow(emergency) THEN OdcpiTimerStart ELSE OdcpiTimerKeeps

reportOdcpiRequest ==
  \/ /\ OdcpiHandles("start") /\ mOdcpiRequestCb
     /\ LET emergency == Head(odcpiQ).emergency IN
        /\ StartTimerFor(emergency)
        /\ asked' = (AskNow(emergency) \/ (mOdcpiRequestActive /\ asked))
        /\ isEmergencyMode' = emergency
     /\ mOdcpiRequestActive' = TRUE
     /\ UNCHANGED mOdcpiRequestCb
  \/ /\ OdcpiHandles("stop") /\ mOdcpiRequestCb
     /\ mOdcpiRequestActive' = FALSE
     /\ UNCHANGED <<mOdcpiRequestCb, isEmergencyMode, odcpiTimerActive, odcpiTimerRuns, asked>>
  \/ /\ OdcpiHandles("start") \/ OdcpiHandles("stop")
     /\ ~mOdcpiRequestCb
     /\ UNCHANGED <<mOdcpiRequestCb, mOdcpiRequestActive, isEmergencyMode, odcpiTimerActive,
                    odcpiTimerRuns, asked>>

\* Mutant: an expiry that finds a request active only asks again.
ExpireAsksOnly ==
  /\ OdcpiHandles("expire")
  /\ UNCHANGED <<mOdcpiRequestCb, mOdcpiRequestActive, isEmergencyMode>>
  /\ asked' = (asked \/ mOdcpiRequestActive)
  /\ IF mOdcpiRequestActive THEN OdcpiTimerKeeps ELSE OdcpiTimerStop

\* Mutant: an expiry that finds a request active restarts the timer and does not ask.
ExpireSilent ==
  /\ OdcpiHandles("expire")
  /\ UNCHANGED <<mOdcpiRequestCb, mOdcpiRequestActive, isEmergencyMode, asked>>
  /\ IF mOdcpiRequestActive THEN OdcpiTimerStart ELSE OdcpiTimerStop

odcpiTimerExpire ==
  /\ OdcpiHandles("expire")
  /\ UNCHANGED <<mOdcpiRequestCb, mOdcpiRequestActive, isEmergencyMode>>
  /\ asked' = (asked \/ mOdcpiRequestActive)
  /\ IF mOdcpiRequestActive THEN OdcpiTimerStart ELSE OdcpiTimerStop

(* restartSessions: "odcpi session is no longer active after restart".     *)
OdcpiRestart ==
  /\ OdcpiHandles("restartSessions")
  /\ mOdcpiRequestActive' = FALSE
  /\ UNCHANGED <<mOdcpiRequestCb, isEmergencyMode, odcpiTimerActive, odcpiTimerRuns, asked>>

OdcpiHandle == initOdcpi \/ reportOdcpiRequest \/ odcpiTimerExpire \/ OdcpiRestart

OdcpiNext ==
  \/ reportOdcpiRequestEvent \/ OdcpiEngineUp
  \/ odcpiTimerExpireEvent
  \/ OdcpiHandle

(* The adapter's thread handles its messages, and a running timer expires. *)
OdcpiFairness == WF_odcpiVars(OdcpiHandle) /\ WF_odcpiVars(odcpiTimerExpireEvent)

OdcpiSpec == OdcpiInit /\ [][OdcpiNext]_odcpiVars /\ OdcpiFairness

-----------------------------------------------------------------------------
(* OdcpiTimer::isActive, which keeps later requests from the framework, is *)
(* true only while the timer runs or its expiry is on its way to the       *)
(* adapter: it can never stay true and block every request to come.        *)
OdcpiTimerBacked ==
  odcpiTimerActive => odcpiTimerRuns \/ \E i \in 1..Len(odcpiQ) : odcpiQ[i].type = "expire"

(* A request that becomes active is passed to the framework, at once or    *)
(* when the timer expires, unless the modem or a restart ends it first.    *)
OdcpiRequestReachesFramework ==
  (mOdcpiRequestActive /\ ~asked) ~> (asked \/ ~mOdcpiRequestActive)
=============================================================================
