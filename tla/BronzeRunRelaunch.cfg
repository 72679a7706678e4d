SPECIFICATION Spec
CONSTANTS
    w1 = w1
    w2 = w2
    Worker <- OneWorker
    Merchant <- OwnerOnly
    Days = 2
    MaxPolls = 2
    SeedCreds <- NoCreds
    Faults <- AllFaults
    MaxLaunches = 2
    MaxClock = 0
INVARIANTS
    TypeOK
    SuccessMeansComplete
    ExitZeroMeansAllDaysLoaded
    FailSoft
PROPERTIES
    ContractSpec
CHECK_DEADLOCK FALSE
