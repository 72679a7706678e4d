SPECIFICATION Spec
CONSTANTS
    Order <- Orders
    Sku <- Menu
    Created <- CreatedAt
    Items <- TwoItems
    DayLength = 4
    Offset = 1
    NewOffset = 2
    Shift = 8
    Modes <- BothModes
    BackfillDays = 2
    Selections <- SilverOrEverything
    Faults <- AllFaults
    FirstTime = 6
    LastTime = 14
    MaxObjects = 3
    MaxBuilds = 2
    MaxSeeds = 2
INVARIANTS
    GoldUnique
    GoldFollowsSilver
    PartitionedByLocalDay
CHECK_DEADLOCK FALSE
