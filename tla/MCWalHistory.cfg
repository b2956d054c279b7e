CONSTANTS
    Key = {k1}
    Val = {v1}
    Tomb = Tomb
    Torn = Torn
    NoRecord = NoRecord
    MaxIndex = 3

SPECIFICATION HistorySpec

INVARIANT
    IndexGrows
