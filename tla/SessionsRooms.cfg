SPECIFICATION Spec
CONSTANTS
    MaxConn = 2
    MaxRooms = 2
    Capacity = 2
    MaxViolations = 1
    Accounts = {a1}
    InitUsers = {}
    NoId = noid
    Keys = {k1}
    NoKey = nokey
    Failures = {}
    LookupsFail = TRUE
INVARIANTS
    MembershipExact
    OutsideGameNoRoom
    
PROPERTY ImplementsPresence
CHECK_DEADLOCK FALSE
