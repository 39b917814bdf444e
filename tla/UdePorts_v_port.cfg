SPECIFICATION Spec
CONSTANTS
  c1 = c1
  c2 = c2
  c3 = c3
  NoClient = NoClient
  Creating = Creating
  Client = {c1, c2, c3}
  Usb30 = {c3}
  N20 = 1
  N30 = 1
  MaxCancels = 2
INVARIANT AlwaysAPort
CHECK_DEADLOCK FALSE
