SPECIFICATION FairSpec
CONSTANTS
    NumUids = 2
    Locked = TRUE
    MaxScans = 3
    MaxCrashes = 1
INVARIANTS
    TypeOK
    AlwaysValidIndex
PROPERTIES
    ReportsOwn
    ScanEnds
