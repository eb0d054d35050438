------------------------------ MODULE MCTimed ------------------------------
(***************************************************************************)
(* The components that wait for a clock, a user or a network: the timer    *)
(* service, network-initiated sessions and on-demand position injection.   *)
(* They share no state.  TimedInterleaved lets them take their steps in    *)
(* any order and is what the safety theorems are about.  TLC checks        *)
(* TimedSpec, under the fairness of the threads: there a behaviour is one  *)
(* of one component, active, and the others stay as they began.            *)
(***************************************************************************)
EXTENDS LocTimer, Ni, Odcpi

VARIABLE active    \* the component whose behaviour it is

timedVars == <<timerVars, niVars, odcpiVars>>

TimerActs == TimerNext /\ UNCHANGED <<niVars, odcpiVars>>
NiActs == NiNext /\ UNCHANGED <<timerVars, odcpiVars>>
OdcpiActs == OdcpiNext /\ UNCHANGED <<timerVars, niVars>>

TimedStart == TimerInit /\ NiInit /\ OdcpiInit
TimedInterleaved == TimedStart /\ [][TimerActs \/ NiActs \/ OdcpiActs]_timedVars

TimedInit == active \in {"timer", "ni", "odcpi"} /\ TimedStart

TimedNext ==
  /\ UNCHANGED active
  /\ \/ active = "timer" /\ TimerActs
     \/ active = "ni" /\ NiActs
     \/ active = "odcpi" /\ OdcpiActs

TimedFairness ==
  /\ active = "timer" => TimerFairness
  /\ active = "ni" => NiFairness
  /\ active = "odcpi" => OdcpiFairness

TimedSpec == TimedInit /\ [][TimedNext]_<<timedVars, active>> /\ TimedFairness

(* Every variable of the three components has its type.                    *)
TimedTypeOK == TimerTypeOK /\ NiTypeOK /\ OdcpiTypeOK
=============================================================================
