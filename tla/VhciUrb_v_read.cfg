SPECIFICATION Spec
CONSTANTS
  u1 = u1
  u2 = u2
  r1 = r1
  r2 = r2
  pipe = pipe
  NoIrp = NoIrp
  NoPipe = NoPipe
  Urb = {u1, u2}
  Reads = {r1}
  Pipe = {pipe}
  PipeOf <- MCPipeOf
  Kinds = {"in", "bad"}
  HdrLens = {"hdr"}
  Cancellable = {r1}
  AbortPipes = {}
  MayUnplug = FALSE
INVARIANT WaitingReadIsCancellable
CHECK_DEADLOCK FALSE
