SPECIFICATION Spec
CONSTANTS
  Handles = {h1, h2}
  RequestTypes = {"SUPL", "SUPL_ES"}
  UseEmergencyPdn = TRUE
  MaxStartDataCallRetries = 4
  CloseMayFail = FALSE
  MaxQueue = 1
  MaxOutstanding = 1
  MaxTimers = 1
SYMMETRY Symmetry
CHECK_DEADLOCK FALSE
INVARIANTS TypeOK OpenNotForgotten
