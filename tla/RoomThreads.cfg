SPECIFICATION FairSpec
CONSTANTS
    Nobody = Nobody
    MaxRooms = 3
    Players = {p1, p2}
INVARIANTS
    TypeOK
    ListedRoomsLive
    StoppedAfterExit
PROPERTIES
    SettledStays
    HangCauses
CHECK_DEADLOCK FALSE
