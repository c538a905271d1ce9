SPECIFICATION Spec
CONSTANTS
    Images <- MCImages
    Hosts <- MCHosts
    DbNames <- MCDbNames
    NodePorts <- MCNodePorts
    RoutesAvailable = TRUE
    Absent = Absent
    Specs <- JavaSpecs
    FirstSpec <- plainJava
    GivenSecrets <- TlsSecret
    LaggingKinds <- NoKind
    Bounds <- EditOnce
INVARIANTS
    ReadyAsWanted
