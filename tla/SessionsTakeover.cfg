SPECIFICATION Spec
CONSTANTS
    MaxConn = 3
    MaxRooms = 1
    Capacity = 2
    MaxViolations = 1
    Accounts = {a1}
    InitUsers = {a1}
    NoId = noid
    Keys = {k1}
    NoKey = nokey
    Failures = {}
    LookupsFail = FALSE
INVARIANTS
    TypeOK
    Pairing
PROPERTIES
    RestoresAreTakeovers
    IdFixedInRoom
    KickIsFinal
CHECK_DEADLOCK FALSE
