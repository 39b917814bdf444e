SPECIFICATION FairSpec
CONSTANTS
  s1 = s1
  s2 = s2
  s3 = s3
  NoRes = NoRes
  Submits = {s1, s2}
  Kinds = {"data", "ctrl", "reset", "unsup"}
  HDR = 1
  Payloads = {0, 1}
  ReadLens = {1, 2}
  MayLackMemory = TRUE
  MayCancelRead = TRUE
INVARIANT WaitsForNothing
INVARIANT Framed
INVARIANT SentOnce
INVARIANT UnlinkedIsSilent
PROPERTY TransferAnswered
CHECK_DEADLOCK FALSE
