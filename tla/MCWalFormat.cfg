CONSTANTS
    k1 = k1
    v1 = v1
    Key <- MCKey
    Val <- MCVal
    Calls <- MCCalls
    Tomb = Tomb
    Torn = Torn
    NoRecord = NoRecord
    MaxIndex = 2

SPECIFICATION FairSpec

INVARIANTS
    TypeOK
    NothingDamagedReplayed
    ErrnoNamesFailure

PROPERTIES
    CrashIsNotCorruption
    LossCalledCorruption
    CallsReturn
    ImplementsWal
