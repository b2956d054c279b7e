CONSTANTS
    Key = {k1, k2}
    Val = {v1}
    Tomb = Tomb
    Absent = Absent
    NoFile = NoFile
    Torn = Torn
    NoRecord = NoRecord
    KeyLen <- MCKeyLen
    ValLen <- MCValLen
    Limit = 4
    MaxIndex = 2
    MaxTables = 3

SPECIFICATION FairSpec

PROPERTIES
    ImplementsDurableMap
    KeepsServing
