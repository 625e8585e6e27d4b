SPECIFICATION Spec
CONSTANTS
    t1 = t1
    t2 = t2
    a1 = a1
    u1 = u1
    u2 = u2
    Absent = Absent
    Url <- OneUrl
    Task <- TwoTasks
    Batch <- OneBatch
    Admin <- NoAdmin
    Score <- OneInRange
    Faults <- AllFaults
    MaxScore = 100
    Ttl = 2
    HourTicks = 2
    NonceWindow = 1
    MaxTime = 4
    MaxReads = 1
INVARIANT RecentSiteId
INVARIANT TelemetryAccounts
