SPECIFICATION FairSpec
CONSTANTS
    KcUsers = {"kc", "sso"}
    DbNames = {"keycloak", "sso"}
    Specs <- MCSpecs
    Given = {"app"}
    Absent = Absent
    Scenarios <- MCScenarios
INVARIANTS
    TypeOK
    Agreement
PROPERTIES
    Served
