SPECIFICATION Spec
CONSTANTS
    Names <- SomeNames
    Lower <- SomeLower
    Files <- SeveralFiles
    Hostname <- BoxName
    MaxHosts = 2
    NULL = NULL
    Faults = {"memory"}
INVARIANTS
    TypeOK
    Precedence
    EveryModule
    HostSettings
    UnsafeReadsConfined
CHECK_DEADLOCK FALSE
