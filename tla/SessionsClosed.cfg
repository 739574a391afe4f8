SPECIFICATION FairSpec
CONSTANTS
    MaxConn = 1
    MaxRooms = 1
    Capacity = 2
    MaxViolations = 1
    Accounts = {a1}
    InitUsers = {a1}
    NoId = noid
    Keys = {k1}
    NoKey = nokey
    Failures = {"fin"}
    LookupsFail = FALSE
PROPERTY ClosedClientLeaves
CHECK_DEADLOCK FALSE
