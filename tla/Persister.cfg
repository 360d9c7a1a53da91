SPECIFICATION Spec
CONSTANTS
    Paths = {a}
    Buffers <- Bytes
    MaxOpens = 3
    MaxSize = 2
VIEW Live
INVARIANTS SameFiles CrashLeavesSynced
PROPERTY MockMatchesReal
CHECK_DEADLOCK FALSE
