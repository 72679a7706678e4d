SPECIFICATION Spec
CONSTANTS
    ana = ana
    ben = ben
    NoRow = NoRow
    NoOne = NoOne
    Session <- Two
    FirstPages <- OpenedPages
    Sku <- Menu
    Rows <- Grid2
    Typed <- Amounts
    Storable <- SmallAmounts
    FirstSteps <- SeededSteps
    Faults <- AllFaults
    MaxConnections = 1
    MaxRequests = 3
    MaxSyncs = 2
INVARIANTS
    TypeOK
    SavesAreWhole
    SavedRowsAreStored
    IdleHoldsNoConnection
    StepsAreEarned
    RepeatsWereCut
PROPERTIES
    ScriptsEnd
    WizardSettles
CHECK_DEADLOCK FALSE
