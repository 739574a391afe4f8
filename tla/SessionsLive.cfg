SPECIFICATION FairSpec
CONSTANTS
    MaxConn = 2
    MaxRooms = 1
    Capacity = 2
    MaxViolations = 1
    Accounts = {a1}
    InitUsers = {a1}
    NoId = noid
    Keys = {k1}
    NoKey = nokey
    Failures = {"fin", "reset"}
    LookupsFail = FALSE
PROPERTIES
    TimedOutLeaves
    LostPlayerLeaves
CHECK_DEADLOCK FALSE
