SPECIFICATION FairSpec
CONSTANTS
  s1 = s1
  s2 = s2
  s3 = s3
  NoRes = NoRes
  Submits = {s1, s2}
  Kinds = {"data", "reset"}
  HDR = 1
  Payloads = {0, 1}
  ReadLens = {2}
  MayLackMemory = FALSE
  MayCancelRead = FALSE
PROPERTY ResetAnswered
CHECK_DEADLOCK FALSE
