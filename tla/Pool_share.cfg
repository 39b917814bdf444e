SPECIFICATION Spec
CONSTANTS
  c1 = c1
  c2 = c2
  NoConn = NoConn
  Conn = {c1, c2}
  HdrLen = 2
  MaxNumber = 2
  CacheSize = 1
  Scenarios <- MCShareScenarios
INVARIANT AnswersWhole
INVARIANT OneReader
CHECK_DEADLOCK FALSE
