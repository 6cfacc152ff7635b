SPECIFICATION FairSpec
CONSTANTS
    tx_pending = tx_pending
    rx = rx
    wake = wake
    t1 = t1
    workloop = workloop
    Systq = Systq
    Tasklets <- MCTasklets
    Threads <- MCThreads
    Schedules <- MCSchedules
    Kills <- MCKills
CHECK_DEADLOCK FALSE
INVARIANTS
    TypeOK
    ListSound
PROPERTIES
    CorruptByStuckBit
    ScheduledRuns
