SPECIFICATION FairSpec
CONSTANTS
  v1 = v1
  v2 = v2
  NoVal = NoVal
  Absent = Absent
  Keys = {1, 2}
  Values = {v1, v2}
  KSize <- SmallKeys
  VSize <- SmallValues
  Word = 8
  Threads = {t1, t2}
  Requests <- RecoveryRequests
  IntMax = 1000000
  StdioBuf = 4096
  CrashAt <- KillsOutsideSwitch
  FreshDir = FALSE
  MaxOps = 2
  MaxCrashes = 2
INVARIANTS
  NoFault
  IndexSound
  OffsetIsFileEnd
  LogRecoverable
PROPERTIES
  ImplementsKVStore
  RecoveryExact
  EveryCallReturns
  RecoveryEnds
