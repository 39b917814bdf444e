SPECIFICATION Spec
CONSTANTS
  c1 = c1
  c2 = c2
  NoConn = NoConn
  Conn = {c1, c2}
  HdrLen = 1
  MaxNumber = 2
  CacheSize = 1
  Scenarios <- MCMixedScenarios
INVARIANT DirectionRestored
CHECK_DEADLOCK FALSE
