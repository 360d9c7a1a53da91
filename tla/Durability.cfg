SPECIFICATION DSpec
CONSTANTS
  v1 = v1
  v2 = v2
  NoVal = NoVal
  Absent = Absent
  Keys = {1, 2}
  Values = {v1, v2}
  KSize <- SmallKeys
  VSize <- LargeValues
  Word = 8
  Threads = {t1, t2}
  Requests <- SyncRequests
  IntMax = 1000000
  StdioBuf = 4096
  CrashAt <- CrashesOutsideGc
  FreshDir = TRUE
  MaxOps = 2
  MaxCrashes = 2
SYMMETRY Symmetric
PROPERTIES
  SyncedSurvives
