SPECIFICATION Spec
CONSTANTS
    Sites <- MCSites
    Callers = {api, rule}
    Api = {api}
    ScanLimit = 3
    MaxSets = 2
    MaxFails = 1
    MaxInputs <- MCInputs
CHECK_DEADLOCK FALSE
INVARIANTS
    CountersSound
    RecordTrue
    SeenTrue
