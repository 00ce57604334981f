CONSTANTS
    Requests = {q1, q2, q3}
    Reports = {x1, x2}
    Capacity = 2
    NoRequest = none
SPECIFICATION RemoteSpec
CHECK_DEADLOCK FALSE
INVARIANTS
    RingsSound
PROPERTIES
    RecordsLeave
