SPECIFICATION Spec
CONSTANTS
    Order <- Orders
    Sku <- Menu
    Created <- CreatedAt
    Items <- OneItem
    DayLength = 4
    Offset = 1
    NewOffset = 2
    Shift = 8
    Modes <- BothModes
    BackfillDays = 2
    Selections <- Everything
    Faults <- NoFaults
    FirstTime = 6
    LastTime = 14
    MaxObjects = 3
    MaxBuilds = 2
    MaxSeeds = 1
PROPERTIES
    BronzeReachesSilver
CHECK_DEADLOCK FALSE
