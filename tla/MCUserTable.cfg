SPECIFICATION Spec
CONSTANTS
    Names <- MCNames
    UserMax = 3
    CacheMax = 2
    MaxTime = 1
    MaxFaults = 1
CHECK_DEADLOCK FALSE
INVARIANTS
    ListSound
PROPERTIES
    SeenKept
    KeepsPromise
