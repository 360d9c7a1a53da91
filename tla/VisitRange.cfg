SPECIFICATION Spec
CONSTANTS
  v1 = v1
  v2 = v2
  NoVal = NoVal
  Absent = Absent
  Keys = {1, 2}
  Values = {v1, v2}
  KSize <- SmallKeys
  VSize <- SmallValues
  Word = 8
  Threads = {t1}
  Requests <- VisitRequests
  IntMax = 1000000
  StdioBuf = 4096
  CrashAt = {}
  FreshDir = FALSE
  MaxOps = 2
  MaxCrashes = 0
INVARIANTS
  VisitsDocumentedRange
