SPECIFICATION FairSpec
CONSTANTS
    Players = {p1, p2}
    End = End
    Freed = Freed
    Capacity = 2
    Wrap = 6
    Shutdown = 2
    MaxRound = 1
    MaxSettings = 1
INVARIANTS
    TypeOK
    EndsAfterEmptiness
    StrandedJoinedLate
    EveryoneUpdated
PROPERTIES
    DelayIsTime
    EmptyRoomEnds
CHECK_DEADLOCK FALSE
