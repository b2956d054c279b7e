CONSTANTS
    Str <- MCStr
    Letters <- MCLetters
    Key <- MCKey
    Val = {v1}
    Tomb = Tomb
    NotFound = NotFound
    Throws = Throws
    Partial = Partial
    RecordsPerBlock = 2
    BitsPerByte = 4
    HashMod = 16
    H1 <- MCH1
    H2 <- MCH2
    BytesFor <- MCBytesFor
    HashesFor <- MCHashesFor

SPECIFICATION Spec

INVARIANTS
    TypeOK
    LookupFindsWritten
    ScanReturnsWritten
    PartsReturnWritten
    NoSilentLoss

\* It stops when the file is written.
CHECK_DEADLOCK FALSE
