SPECIFICATION Spec
CONSTANTS
    Images <- MCImages
    Hosts <- MCHosts
    DbNames <- MCDbNames
    NodePorts <- MCNodePorts
    RoutesAvailable = TRUE
    Absent = Absent
    Specs <- OpenShiftSpecs
    FirstSpec <- edge
    GivenSecrets <- TlsSecret
    LaggingKinds <- NoKind
    Bounds <- EditTwice
INVARIANTS
    QuietObjects
    QuietStatus
