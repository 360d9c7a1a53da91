SPECIFICATION DSpec
CONSTANTS
  v1 = v1
  v2 = v2
  NoVal = NoVal
  Absent = Absent
  Keys = {1, 2}
  Values = {v1, v2}
  KSize <- SmallKeys
  VSize <- LargeValues
  Word = 8
  Threads = {t1}
  Requests <- GcRequests
  IntMax = 1000000
  StdioBuf = 4096
  CrashAt = {"idle"}
  FreshDir = FALSE
  MaxOps = 3
  MaxCrashes = 1
PROPERTIES
  NothingSyncedLost
