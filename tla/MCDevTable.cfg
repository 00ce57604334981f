SPECIFICATION Spec
CONSTANTS
    NumTypes = 2
    MaxDevs = 3
    MaxOf <- MCMaxOf
    Addrs = {a1, a2}
    Installed <- MCInstalled
    Workers = {api, events}
    Events = events
    PerBlock = 2
    MaxOps = 2
    MaxCrashes = 1
CHECK_DEADLOCK FALSE
INVARIANTS
    LocksReturn
    TableSound
    AddressAgrees
PROPERTIES
    RestoreExact
