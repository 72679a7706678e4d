SPECIFICATION Spec
CONSTANTS
    p1 = p1
    p2 = p2
    Proc <- TwoProcesses
    MaxRetries = 3
    Lifetime = 3
    Threshold = 1
    Margin = 1
    Latency = 1
    RefreshInReply <- Always
    Operations <- AllOperations
    Seeds <- AllSeeds
    Faults <- StorageFaults
    MaxTime = 4
    MaxGrants = 4
SYMMETRY Symmetry
VIEW View
INVARIANTS
    TypeOK
    RefreshTokenUsable
    ExpiryIsConservative
