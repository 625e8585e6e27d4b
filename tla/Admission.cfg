SPECIFICATION MCSpec
CONSTANTS
    i1 = i1
    i2 = i2
    NoEntry = NoEntry
    Absent = Absent
    Request <- Requests
    Address <- OneIp
    MaxRequests = 2
    RateWindow = 2
    MaxInstant = 4
    Caller <- FourCallers
    Careless <- FourCallers
    Ip <- TwoIps
    MaxPerIp = 2
    MaxGlobal = 2
    Word = 16
    Window = 1
    MaxTime = 1
    MaxRelease = 2
INVARIANT BoundedBurst
INVARIANT LimitedForCause
INVARIANT NeverTooMany
INVARIANT SlotsHeld
PROPERTY IdleForgotten
