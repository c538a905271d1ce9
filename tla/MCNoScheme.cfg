SPECIFICATION Spec
CONSTANTS
    Images <- MCImages
    Hosts <- MCHosts
    DbNames <- MCDbNames
    NodePorts <- MCNodePorts
    RoutesAvailable = TRUE
    Absent = Absent
    Specs <- UnschemedSpecs
    FirstSpec <- noScheme
    GivenSecrets <- NoSecrets
    LaggingKinds <- NoKind
    Bounds <- Calm
PROPERTIES
    NoPanic
