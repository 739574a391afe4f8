SPECIFICATION Spec
CONSTANTS
    GridX = 3
    GridY = 2
    Offset = 1
    Players = {p1, p2}
    Nobody = Nobody
    Outside = Outside
SYMMETRY Symmetry
CONSTRAINT CleanOnly
INVARIANTS
    TypeOK
    GridExact
    ToldComplete
    ToldOnlyMembers
CHECK_DEADLOCK FALSE
