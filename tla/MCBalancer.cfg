SPECIFICATION FairSpec
CONSTANTS
    Images <- MCImages
    Hosts <- MCHosts
    DbNames <- MCDbNames
    NodePorts <- MCNodePorts
    RoutesAvailable = FALSE
    Absent = Absent
    Specs <- BalancedSpecs
    FirstSpec <- leanBalanced
    GivenSecrets <- NoSecrets
    LaggingKinds <- NoKind
    Bounds <- Calm
PROPERTIES
    BalancerServed
