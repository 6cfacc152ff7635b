SPECIFICATION FairSpec
CONSTANTS
    s = s
    t = t
    Senders = {s}
    Worker = Worker
    Transport = Transport
    Counts = FALSE
    Width = 4
    MaxFrames = 3
    MaxStops = 1
    MaxFailures = 1
INVARIANTS
    TypeOK
    NoneDropped
PROPERTIES
    NoneHangs
