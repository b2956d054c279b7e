CONSTANTS
    NoFile = NoFile
    Torn = Torn
    MaxTables = 4

SPECIFICATION Spec

INVARIANTS
    TypeOK
    NeverTorn
    NextAboveListed
    CachedNextIsCurrent
    ListAscending
