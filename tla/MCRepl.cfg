CONSTANTS
    Str <- MCStr
    Letters <- MCLetters
    Key <- MCKey
    Val <- MCVal
    Absent = Absent
    Tomb = Tomb
    NoRequest = NoRequest
    NoLine = NoLine
    MaxDoubt = 1

SPECIFICATION Spec

INVARIANTS
    TypeOK
    UserKnows
    ListingsAreExact
