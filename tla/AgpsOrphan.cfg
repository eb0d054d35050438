SPECIFICATION Spec
CONSTANTS
  Handles = {h1, h2}
  RequestTypes = {"SUPL"}
  UseEmergencyPdn = FALSE
  MaxStartDataCallRetries = 4
  CloseMayFail = FALSE
  MaxQueue = 3
  MaxOutstanding = 3
  MaxTimers = 0
INVARIANT NoOrphanConnection
