SPECIFICATION FairSpec
CONSTANTS
    Threads = {g, f}
    Gated = {g}
    Serialized = TRUE
    Window = 2
    Wrap = 4
    MaxCalls = 2
    MaxAsync = 1
    MaxFaults = 1
    g = g
    f = f
INVARIANTS
    TypeOK
    GatedResponseToLiveCall
    NeverBusy
PROPERTIES
    AnsweredOnSuccess
    AnswerReturns
