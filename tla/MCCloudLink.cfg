SPECIFICATION Spec
CONSTANTS
    Fields = {"portalservices", "dhcp", "uzipmac", "databasever"}
    Writers = {"api", "zigbee"}
    Versions = {0, 1}
    MaxWrites = 2
    MaxCrashes = 1
    MaxMsgs = 2
    MaxParts = 3
    MaxSends = 2
    MaxDown = 2
    MaxTalks = 1
CHECK_DEADLOCK FALSE
INVARIANTS
    FramesSound
    UpgradeFirst
    
PROPERTIES
    RecordKept
    Connects
