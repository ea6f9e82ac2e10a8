SPECIFICATION Spec
CONSTANTS
    registry = registry
    slack = slack
    token = token
    None = None
    Names = {registry, slack}
    ValidNames = {registry, slack}
    Keys = {token}
    Services <- OfferedServices
    Callers = {c1, c2}
    MaxCalls = 2
    Files <- ConfigFiles
    StoreEnabled = TRUE
INVARIANTS
    CleanExit
    HandlesMatchMetrics
    AuditPrecedesReturn
    DrainedBeforeTeardown
    RefusalIsFinal
PROPERTY
    StopEnds
CHECK_DEADLOCK FALSE
