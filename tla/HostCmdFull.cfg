SPECIFICATION Spec
CONSTANTS
    Threads = {g}
    Gated = {g}
    Serialized = TRUE
    Window = 2
    Wrap = 4
    MaxCalls = 2
    MaxAsync = 1
    MaxFaults = 0
    g = g
    f = f
INVARIANTS
    SyncHasRoom
