SPECIFICATION FairSpec
CONSTANTS
    Nobody = Nobody
    MaxRooms = 2
    Players = {p1}
PROPERTY ExitTerminates
CHECK_DEADLOCK FALSE
