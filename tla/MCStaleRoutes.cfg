SPECIFICATION Spec
CONSTANTS
    Images <- MCImages
    Hosts <- MCHosts
    DbNames <- MCDbNames
    NodePorts <- MCNodePorts
    RoutesAvailable = TRUE
    Absent = Absent
    Specs <- StaleSpecs
    FirstSpec <- openshift
    GivenSecrets <- TlsSecret
    LaggingKinds <- StaleRoutes
    Bounds <- EditOnce
INVARIANTS
    QuietObjects
    QuietStatus
PROPERTIES
    NoPanic
