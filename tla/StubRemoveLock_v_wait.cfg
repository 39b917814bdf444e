SPECIFICATION Spec
CONSTANTS
  q1 = q1
  q2 = q2
  q3 = q3
  Remover = Remover
  Req = {q1}
  Kinds = {"pnp"}
INVARIANT WaitedForAll
CHECK_DEADLOCK FALSE
