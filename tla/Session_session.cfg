SPECIFICATION FairSpec
CONSTANTS
  c1 = c1
  c2 = c2
  NoClient = NoClient
  Client = {c1, c2}
  Sockfds <- MCSockfds
  MaxPorts = 1
  MaxCmds = 1
  MaxDevs = 1
  Scenarios <- MCScenarios
INVARIANT StreamInStep
PROPERTY ToolEnds
PROPERTY DeviceServed
CHECK_DEADLOCK FALSE
