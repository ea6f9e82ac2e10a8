SPECIFICATION Spec
CONSTANTS
    Vars <- MCVars
    NoPath = NoPath
    NoBody = NoBody
    NoSchema = NoSchema
    None = None
    First1 <- Base
    Documents <- MCDocuments
    Requests <- MCRequests
    Suites <- MCSuites
    MaxVersions = 3
INVARIANTS
    CheckedChainKeepsRequests
    ChecksCompose
    EmbeddedFindsNoMore
    MockAnswersConform
    FixturesConform
    SafeDeploysKeepConsumers
CHECK_DEADLOCK FALSE
