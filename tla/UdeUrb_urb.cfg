SPECIFICATION FairSpec
CONSTANTS
  u1 = u1
  u2 = u2
  u3 = u3
  r1 = r1
  r2 = r2
  NoReq = NoReq
  Urb = {u1, u2}
  Reads = {r1}
  EpOf <- MCEpOf
  Scenarios <- MCScenarios
INVARIANT NoStrandedUrb
INVARIANT InOrder
PROPERTY ServiceSpec
PROPERTY UrbServed
CHECK_DEADLOCK FALSE
