SPECIFICATION Spec
CONSTANTS
    Scale = 100
    RandLimit = 3
    Values = {v1, v2}
    NoVal = NoVal
    WarmVal = warm
    Keys = {0, 1, 2, 3}
    SuffixNr = 2
    AllThreads = {1, 2, 3}
    Programs <- AllPrograms
INVARIANTS NoCheckFails OracleAgrees CountsWhatRan OvershootBounded
PROPERTY AllJoined
