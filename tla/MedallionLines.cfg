SPECIFICATION Spec
CONSTANTS
    Order <- Orders
    Sku <- Menu
    Created <- CreatedAt
    Items <- TwoItems
    DayLength = 4
    Offset = 1
    NewOffset = 2
    Shift = 8
    Modes <- T1
    BackfillDays = 2
    Selections <- Everything
    Faults <- NoFaults
    FirstTime = 6
    LastTime = 6
    MaxObjects = 1
    MaxBuilds = 2
    MaxSeeds = 1
INVARIANTS
    LineItemsPassTests
CHECK_DEADLOCK FALSE
