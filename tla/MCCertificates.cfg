SPECIFICATION FairSpec
CONSTANTS
    Owners = {a, b}
    Early = {a}
    Operators = {p, q}
    Main = p
    Keys <- MCKeys
    Absent = Absent
    Scenarios <- MCScenarios
INVARIANTS
    TypeOK
    SavedCa
PROPERTIES
    AllComplete
CHECK_DEADLOCK FALSE
