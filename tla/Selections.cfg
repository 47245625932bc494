SPECIFICATION Spec
CONSTANTS
    Step = 4
    Grid = {4, 8, 12, 16, 20}
    Spots = {8, 9, 10, 11, 12, 13, 14, 15, 16}
    Count = 1
    Today = {1, 2, 3, 4, 5, 6, 7}
    Dates = {1, 2, 3, 4, 5, 6, 7, 8, 9, 11, 12, 14, 15, 17}
INVARIANTS
    TypeOK
    AtmIsNearest
    StrangleSurroundsSpot
    HedgeIsOrdered
    SafeExpiryAvoidsWeek
CHECK_DEADLOCK FALSE
