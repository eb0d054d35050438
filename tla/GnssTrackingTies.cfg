SPECIFICATION Spec
CONSTANTS
  Clients = {c1, c2}
  NoClient = NoClient
  Ids = {1, 2}
  Intervals = {1, 2}
  Modes = {"MSB", "STANDALONE"}
  NoFix = NoFix
  RestartMayFail = FALSE
  MaxRestarts = 1
INVARIANT FixOptionsAreASessions
