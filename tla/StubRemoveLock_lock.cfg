SPECIFICATION FairSpec
CONSTANTS
  q1 = q1
  q2 = q2
  q3 = q3
  Remover = Remover
  Req = {q1, q2, q3}
  Kinds = {"power", "start", "pnp", "io"}
INVARIANT Protected
PROPERTY RemovalEnds
CHECK_DEADLOCK FALSE
