SPECIFICATION MCSpec
CONSTANTS
    p1 = p1
    p2 = p2
    p3 = p3
    Logger = {"l1", "l2"}
    MaxEvents = 4
    RingSize = 2
    PerPage = 1
    User = {"admin"}
    Password <- MCPassword
    Nobody = Nobody
    KeyName = {"key"}
    Request = {1, 2, 3}
    MaxFailures = 1
    Publisher = {"p1", "p2"}
    Listener = {"l1", "l2"}
    Connection = {"c1"}
    Topic = {"a.opt", "b.opt"}
    Global = "all"
    MaxUpdates = 2
    Capacity = 1
    Recorder = {1, 2, 3}
    Site = {"s1", "s2"}
    Score = {60, 90}
    HistoryCap = 2
    TopCap = 1
INVARIANT RingHoldsLast
INVARIANT PagingMissesOnlyTies
INVARIANT SucceededChangeHolds
INVARIANT AnswersAreKept
INVARIANT NothingMissed
INVARIANT ReportIsWhole
CHECK_DEADLOCK FALSE
