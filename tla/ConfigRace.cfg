SPECIFICATION Spec
CONSTANTS
    Names <- SomeNames
    Lower <- SomeLower
    Files <- OneFile
    Hostname <- BoxName
    MaxHosts = 2
    NULL = NULL
    Faults = {}
INVARIANTS
    InfoRight
CHECK_DEADLOCK FALSE
