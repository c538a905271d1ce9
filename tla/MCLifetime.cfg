SPECIFICATION FairSpec
CONSTANTS
    Images <- MCImages
    Hosts <- MCHosts
    DbNames <- MCDbNames
    NodePorts <- MCNodePorts
    RoutesAvailable = TRUE
    Absent = Absent
    Specs <- SsoSpecs
    FirstSpec <- sso
    GivenSecrets <- NoSecrets
    LaggingKinds <- NoKind
    Bounds <- Lifetime
INVARIANTS
    ReadyHasUrls
PROPERTIES
    Settles
    DeletionCleansUp
CHECK_DEADLOCK FALSE
