SPECIFICATION Spec
CONSTANTS
  s1 = s1
  s2 = s2
  s3 = s3
  NoRes = NoRes
  Submits = {s1}
  Kinds = {"data"}
  HDR = 1
  Payloads = {0, 1}
  ReadLens = {1}
  MayLackMemory = FALSE
  MayCancelRead = TRUE
INVARIANT CancelledMatches
CHECK_DEADLOCK FALSE
