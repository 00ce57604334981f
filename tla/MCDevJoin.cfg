SPECIFICATION Spec
CONSTANTS
    Models = {"sw", "plug"}
    Parts <- MCParts
    Mode <- MCMode
    Addrs = {a1, a2}
    MaxRecs = 3
    MaxParts = 3
    MaxJoins = 3
    MaxMishaps = 2
    MaxReports = 1
CHECK_DEADLOCK FALSE
INVARIANTS
    AddressesSound
    PartsSound
    ReportsOwn
PROPERTIES
    Settles
