SPECIFICATION FairSpec
CONSTANTS
    Size = 12
    Claim = 3
    Post = 1
    Chunk = 2
    Batch = 3
    Atomic = TRUE
INVARIANTS
    TypeOK
    BatchAvailable
    ClaimBacked
    Accounted
    NeverStarved
PROPERTIES
    ServedIfAsleep
