SPECIFICATION FairSpec
CONSTANTS
  u1 = u1
  u2 = u2
  r1 = r1
  r2 = r2
  pipe = pipe
  NoIrp = NoIrp
  NoPipe = NoPipe
  Urb = {u1, u2}
  Reads = {r1, r2}
  Pipe = {pipe}
  PipeOf <- MCPipeOf
  Kinds = {"out", "reset"}
  HdrLens = {"hdr", "full"}
  Cancellable = {r1}
  AbortPipes = {}
  MayUnplug = FALSE
INVARIANT InOrder
PROPERTY UrbServed
CHECK_DEADLOCK FALSE
