SPECIFICATION Spec
CONSTANTS
    p1 = p1
    p2 = p2
    Proc <- OneProcess
    MaxRetries = 3
    Lifetime = 4
    Threshold = 1
    Margin = 1
    Latency = 1
    RefreshInReply = {TRUE, FALSE}
    Operations <- Resource
    Seeds <- WithToken
    Faults = {"403", "429", "5xx", "unreachable"}
    MaxTime = 16
    MaxGrants = 16
INVARIANTS
    ExpiredTokenIsRecovered
    CallBudget
PROPERTIES
    RefreshTokenIsNotForgotten
    OperationsEnd
