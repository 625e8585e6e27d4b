SPECIFICATION FairSpec
CONSTANTS
    t1 = t1
    t2 = t2
    a1 = a1
    u1 = u1
    u2 = u2
    Absent = Absent
    Url <- OneUrl
    Task <- TwoTasks
    Batch <- OneBatch
    Admin <- OneAdmin
    Score <- OneInRange
    Faults <- AllFaults
    MaxScore = 100
    Ttl = 1
    HourTicks = 1
    NonceWindow = 1
    MaxTime = 1
    MaxReads = 0
PROPERTY UsesCacheAsSpecified
PROPERTY EveryHandshakeEnds
PROPERTY UnregisteredPageLeaves
