SPECIFICATION Spec
CONSTANTS
    NumUids = 2
    Locked = TRUE
    MaxScans = 1
    MaxCrashes = 0
PROPERTIES
    TimeoutFindsScan
