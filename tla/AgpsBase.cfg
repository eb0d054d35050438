SPECIFICATION FairSpec
CONSTANTS
  Handles = {h1, h2, h3}
  RequestTypes = {"SUPL", "SUPL_ES"}
  UseEmergencyPdn = FALSE
  MaxStartDataCallRetries = 4
  CloseMayFail = TRUE
  MaxQueue = 2
  MaxOutstanding = 2
  MaxTimers = 0
INVARIANTS ConnMatchesDemand ReleasedIsIdle FrameworkPendingHasRequest OpenIsBacked NoStaleSubscriber
PROPERTIES OpenAnswered SharesConnections
