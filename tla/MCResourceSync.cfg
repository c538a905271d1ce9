SPECIFICATION FairSpec
CONSTANTS
    Contents <- MCContents
    Accepts <- MCAccepts
    Absent = Absent
    Graceful = TRUE
    MaxLag = 2
    Bounds <- OneOfEach
INVARIANTS
    TypeOK
    QuietStatus
PROPERTIES
    Follows
    Served
