SPECIFICATION FairSpec
CONSTANTS
  c1 = c1
  c2 = c2
  NoConn = NoConn
  Conn = {c1, c2}
  HdrLen = 2
  MaxNumber = 2
  CacheSize = 2
  Scenarios <- MCScenarios
INVARIANT CommandsInOrder
PROPERTY CommandsForwarded
PROPERTY InterruptStops
CHECK_DEADLOCK FALSE
