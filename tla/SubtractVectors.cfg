CONSTANT
    MaxValue = 6

SPECIFICATION Spec

INVARIANTS
    ReturnsDifference
    DecidedSoFar

\* It stops when it has returned.
CHECK_DEADLOCK FALSE
