SPECIFICATION FairSpec
CONSTANTS
    Players = {p1, p2}
    Objects = {o1, o2}
    Nobody = Nobody
    Nothing = Nothing
    Views = {{o1}, {o2}}
    Edible = {o1}
    Delay = 1
    MaxLate = 0
    InitialSize = 3
    FoodGain = 1
    ReduceIncome = 4
    StopIncome = 5
INVARIANTS
    TypeOK
    FoodConserved
    PopsWhatItTook
    FoodKnown
    NoGhostFood
    SizesBounded
PROPERTY FoodComesBack
CHECK_DEADLOCK FALSE
