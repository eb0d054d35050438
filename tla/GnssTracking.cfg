SPECIFICATION FairSpec
CONSTANTS
  Clients = {c1, c2}
  NoClient = NoClient
  Ids = {1, 2, 3}
  Intervals = {0, 1, 2}
  Modes = {"MSB"}
  NoFix = NoFix
  RestartMayFail = FALSE
  MaxRestarts = 2
INVARIANTS FixIsSmallest AcceptedIsTracked
PROPERTY TrackingResumes
