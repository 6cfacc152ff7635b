SPECIFICATION FairSpec
CONSTANTS
    Sender = tx
    Reclaimer = rx
    N = 8
    Starts <- MCStarts
    MaxFrames = 11
    MaxSegs = 6
    Locked = TRUE
INVARIANTS
    TypeOK
    RingFilled
    FlushedEmpty
PROPERTIES
    Resumed
    FlushReturns
