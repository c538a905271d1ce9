SPECIFICATION Spec
CONSTANTS
    Images <- MCImages
    Hosts <- MCHosts
    DbNames <- MCDbNames
    NodePorts <- MCNodePorts
    RoutesAvailable = FALSE
    Absent = Absent
    Specs <- TroubleSpecs
    FirstSpec <- lean
    GivenSecrets <- BadSecret
    LaggingKinds <- NoKind
    Bounds <- EditTrouble
INVARIANTS
    QuietObjects
    QuietStatus
