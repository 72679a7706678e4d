SPECIFICATION Spec
CONSTANTS
    w1 = w1
    w2 = w2
    Worker <- TwoWorkers
    Merchant <- OwnerOnly
    Days = 1
    MaxPolls = 2
    SeedCreds <- NoCreds
    Faults = {"secrets", "bootstrap", "otter", "s3", "insert", "job", "ambiguous", "crash"}
    MaxLaunches = 1
    MaxClock = 1
INVARIANTS
    StartedRowsAreAlive
    FailuresAreAlerted
    ObjectsAreKept
PROPERTIES
    ContractSpec
    LaunchesEnd
CHECK_DEADLOCK FALSE
