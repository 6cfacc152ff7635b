SPECIFICATION FairSpec
CONSTANTS
    a1 = a1
    a2 = a2
    S1 = S1
    S2 = S2
    Bss = {a1, a2}
    Ssids = {S1, S2}
    SsidOf <- MCSsidOf
    None = None
    MaxTries = 2
    MaxConnects = 2
    ClockRuns = FALSE
PROPERTIES
    RequestIsSent
