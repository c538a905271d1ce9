SPECIFICATION CarefulSpec
CONSTANTS
    Images <- MCImages
    Hosts <- MCHosts
    DbNames <- MCDbNames
    NodePorts <- MCNodePorts
    RoutesAvailable = TRUE
    Absent = Absent
    Specs <- HardSpecs
    FirstSpec <- openshift
    GivenSecrets <- NoSecrets
    LaggingKinds <- StaleServices
    Bounds <- EditFault
INVARIANTS
    ReadyHasUrls
    DependenciesFirst
PROPERTIES
    ImplementsKeeper
