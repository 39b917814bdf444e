SPECIFICATION Spec
CONSTANTS
  c1 = c1
  c2 = c2
  NoClient = NoClient
  Client = {c1, c2}
  Sockfds <- MCSockfds
  MaxPorts = 1
  MaxCmds = 1
  MaxDevs = 1
  Scenarios <- MCVanishScenarios
INVARIANT OwnSocket
CHECK_DEADLOCK FALSE
