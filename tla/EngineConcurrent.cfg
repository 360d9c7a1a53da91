SPECIFICATION Spec
CONSTANTS
  v1 = v1
  v2 = v2
  NoVal = NoVal
  Absent = Absent
  Keys = {1, 2}
  Values = {v1, v2}
  KSize <- SmallKeys
  VSize <- SmallValues
  Word = 8
  Threads = {t1, t2}
  Requests <- ConcurrentRequests
  IntMax = 1000000
  StdioBuf = 4096
  CrashAt = {}
  FreshDir = FALSE
  MaxOps = 3
  MaxCrashes = 0
SYMMETRY Symmetric
INVARIANTS
  TypeOK
  Exclusion
  NoFault
  IndexSound
  OffsetIsFileEnd
  GetOffsetFresh
  LogRecoverable
PROPERTIES
  ImplementsKVStore
  GcCompacts
