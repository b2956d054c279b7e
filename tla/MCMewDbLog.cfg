CONSTANTS
    k1 = k1
    k2 = k2
    v1 = v1
    v2 = v2
    Key <- MCKey
    Val <- MCVal
    Tomb = Tomb
    Absent = Absent
    NoFile = NoFile
    Torn = Torn
    NoRecord = NoRecord
    KeyLen <- MCKeyLen
    ValLen <- MCValLen
    Limit = 6
    MaxIndex = 3
    MaxTables = 2

SPECIFICATION Spec

INVARIANTS
    MemIsReplay
    SizeCoversLive
