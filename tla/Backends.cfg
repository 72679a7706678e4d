SPECIFICATION Spec
CONSTANTS
    k = k
    NoKey = NoKey
    NoToken = NoToken
    NotFound = NotFound
    Raised = Raised
    Environment <- Environments
    Key <- OneKey
    Days = 2
    MaxTokens = 3
INVARIANTS
    TypeOK
    BootstrapsOnce
    FailFast
    ExitZeroIsLogged
PROPERTIES
    PortSpec
    ProcessesEnd
