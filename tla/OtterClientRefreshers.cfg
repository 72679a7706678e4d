SPECIFICATION Spec
CONSTANTS
    p1 = p1
    p2 = p2
    Proc <- TwoProcesses
    MaxRetries = 3
    Lifetime = 4
    Threshold = 2
    Margin = 1
    Latency = 1
    RefreshInReply <- Always
    Operations <- Resource
    Seeds <- WithToken
    Faults <- RefreshFaults
    MaxTime = 5
    MaxGrants = 4
INVARIANTS
    RecoveryLosesOnlyRaces
PROPERTIES
    FreshTokensAreKept
