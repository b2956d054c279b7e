CONSTANTS
    Key = {k1, k2}
    Val = {v1}
    Tomb = Tomb
    Absent = Absent
    NoFile = NoFile
    Torn = Torn
    NoRecord = NoRecord
    KeyLen <- MCKeyLen
    ValLen <- MCValLen
    Limit = 4
    MaxIndex = 2
    MaxTables = 4

SPECIFICATION Spec

SYMMETRY Keys

INVARIANTS
    TypeOK
    ListedTablesComplete
    WritesFreshFile
    NoEmptyTable
    PowerLossTakesUnsyncedOnly
    ScansAgreeWithGets

PROPERTIES
    ListedTablesNeverChange
