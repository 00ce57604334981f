CONSTANTS
    Callers = {c1, c2}
    MaxCmds = 3
    ErrLimit = 1
    Nobody = nobody
SPECIFICATION AtSpec
CHECK_DEADLOCK FALSE
INVARIANTS
    LineSound
    OwnAnswer
PROPERTIES
    CallReturns
