SPECIFICATION FairSpec
CONSTANTS
    u1 = u1
    u2 = u2
    c1 = c1
    c2 = c2
    page = page
    Absent = Absent
    Url <- MCUrl
    Caller <- MCCaller
    Payload <- MCPayload
    Ttl = 1
    MaxTime = 3
PROPERTY SweepSparesFresh
PROPERTY StaleReclaimed
