SPECIFICATION Spec
CONSTANTS
    Images <- MCImages
    Hosts <- MCHosts
    DbNames <- MCDbNames
    NodePorts <- MCNodePorts
    RoutesAvailable = FALSE
    Absent = Absent
    Specs <- LeanSpecs
    FirstSpec <- lean
    GivenSecrets <- GoodSecrets
    LaggingKinds <- StaleSecrets
    Bounds <- EditOnce
INVARIANTS
    TypeOK
    QuietObjects
    QuietStatus
    DependenciesFirst
PROPERTIES
    SecretsKept
