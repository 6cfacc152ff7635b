SPECIFICATION Spec
CONSTANTS
    Sender = tx
    Reclaimer = rx
    N = 8
    Starts <- MCStarts
    MaxFrames = 12
    MaxSegs = 1
    Locked = TRUE
INVARIANTS
    OpModeAgrees
PROPERTIES
    RefinesTxPipe
