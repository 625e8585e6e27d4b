SPECIFICATION Spec
CONSTANTS
    t1 = t1
    t2 = t2
    a1 = a1
    u1 = u1
    u2 = u2
    Absent = Absent
    Url <- OneUrl
    Task <- TwoTasks
    Batch <- OneBatch
    Admin <- OneAdmin
    Score <- WithOverflow
    Faults <- AllFaults
    MaxScore = 100
    Ttl = 1
    HourTicks = 1
    NonceWindow = 1
    MaxTime = 2
    MaxReads = 0
INVARIANT IInv
INVARIANT CachedIsAccountedFor
