CONSTANTS
    NumSets = 2
    Callers = {c1, c2}
    Task = task
    SetDelays = {1}
    SetWidth = 3
    Values = {0, 1, 2}
    MaxCalls = 3
    Members <- MCMembers
    MaxTimeOuts = 1
SPECIFICATION Spec
INVARIANTS
    LockSound
    StartsSound
PROPERTIES
    StartsBegin
    EverySetEnds
