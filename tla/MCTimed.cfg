SPECIFICATION TimedSpec
CONSTANTS
  TimerClients = {t1, t2}
  Wrappers = {t2}
  Delegates = {d1, d2}
  Delays = {1, 2}
  MaxTime = 2
  Null = Null
  MaxNi = 2
  NoNi = NoNi
  MaxOdcpiMsgs = 3
INVARIANTS TimedTypeOK SoonestIsArmed NoDeletedDelegate NiPayloadFreedOnce OdcpiTimerBacked
PROPERTIES RunningTimerEnds NiSessionEnds OdcpiRequestReachesFramework
CHECK_DEADLOCK FALSE
