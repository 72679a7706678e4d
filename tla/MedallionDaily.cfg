SPECIFICATION Spec
CONSTANTS
    Order <- Orders
    Sku <- Menu
    Created <- CreatedAt
    Items <- OneItem
    DayLength = 4
    Offset = 1
    NewOffset = 2
    Shift = 8
    Modes <- T1
    BackfillDays = 2
    Selections <- SilverOrEverything
    Faults <- AllFaults
    FirstTime = 6
    LastTime = 14
    MaxObjects = 3
    MaxBuilds = 3
    MaxSeeds = 1
INVARIANTS
    TypeOK
    ObjectsAreComplete
PROPERTIES
    BronzeReachesSilver
    T1IsLastClosedDay
CHECK_DEADLOCK FALSE
