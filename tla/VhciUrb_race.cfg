SPECIFICATION Spec
CONSTANTS
  u1 = u1
  u2 = u2
  r1 = r1
  r2 = r2
  pipe = pipe
  NoIrp = NoIrp
  NoPipe = NoPipe
  Urb = {u1, u2}
  Reads = {r1}
  Pipe = {pipe}
  PipeOf <- MCPipeOf
  Kinds = {"in", "out", "bad"}
  HdrLens = {"hdr"}
  Cancellable = {u1, r1}
  AbortPipes = {pipe}
  MayUnplug = TRUE
INVARIANT CompletedOnce
INVARIANT NoStrandedUrb
PROPERTY ServiceSpec
CHECK_DEADLOCK FALSE
