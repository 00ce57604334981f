SPECIFICATION MCSpec
CONSTANTS
    local = local
    cloud = cloud
    d1 = d1
    d2 = d2
    Clients = {local, cloud}
    Engines = {executor}
    Users = {u1}
    NoUser = nobody
    SuperUser = super
    BufMax = 3
    PartsMax = 3
    Devs = {d1, d2}
    Groups = {1}
    Scenes = {1}
    MemberMax = 2
    ListMax = 3
    ActionMax = 2
    MaxOps = 2
    MaxFaults = 1
SYMMETRY Symmetry
CHECK_DEADLOCK FALSE
INVARIANTS
    ListsSound
    AnswerWhole
    OnlyUsersAct
PROPERTIES
    ScenesSound
