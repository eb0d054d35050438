SPECIFICATION Spec
CONSTANTS
  Handles = {h1, h2}
  RequestTypes = {"SUPL", "SUPL_ES"}
  UseEmergencyPdn = TRUE
  MaxStartDataCallRetries = 1
  CloseMayFail = FALSE
  MaxQueue = 2
  MaxOutstanding = 2
  MaxTimers = 1
CHECK_DEADLOCK FALSE
INVARIANT DsPendingHasRequest
