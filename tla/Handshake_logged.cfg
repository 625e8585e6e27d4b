SPECIFICATION Spec
CONSTANTS
    t1 = t1
    t2 = t2
    a1 = a1
    u1 = u1
    u2 = u2
    Absent = Absent
    Url <- OneUrl
    Task <- OneTask
    Batch <- NoBatch
    Admin <- NoAdmin
    Score <- WithOverflow
    Faults <- NoFaults
    MaxScore = 100
    Ttl = 1
    HourTicks = 1
    NonceWindow = 1
    MaxTime = 1
    MaxReads = 0
INVARIANT AnsweredIsLogged
