SPECIFICATION DSpec
CONSTANTS
    d1 = d1
    d2 = d2
    w1 = w1
    t1 = t1
    Worker = Worker
    Workloop = Workloop
    Head = Head
    Poison = Poison
    Works <- MCWorks
    Delayed <- MCDelayed
    Threads <- MCThreads
    Submits <- MCSubmits
    ModFrom <- AsCalled
INVARIANTS
    OneQueueing
