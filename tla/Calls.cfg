SPECIFICATION MCSpec
CONSTANTS
    srv = srv
    tool = tool
    x = x
    X = X
    com = com
    core = core
    big = big
    c1 = c1
    Process <- MCProcess
    Name <- MCName
    Lower <- MCLower
    OptName <- MCOptName
    Core <- MCCore
    Oversized <- MCOversized
    Client <- MCClient
    Server = srv
    BadText = BadText
    BadJson = BadJson
    Absent = Absent
    NoFile = NoFile
    Torn = Torn
    NoCall = NoCall
    MaxCount = 1
    MaxUnits = 3
    MaxUnread = 1
    d1 = d1
    d2 = d2
    Domains <- MCDomains
    Config <- MCConfig
    Timeout = 2
    Window = 9
    MaxStart = 0
    MaxTime = 11
INVARIANT KeysAreFound
INVARIANT ReadableUnlessCutShort
INVARIANT AcceptedIsSent
INVARIANT ChunksAreThePayload
INVARIANT AnswersItsRequest
INVARIANT AnswerWasCurrent
INVARIANT RetriesStayFresh
INVARIANT WorkIsBounded
PROPERTY SavedIsCurrent
PROPERTY EveryCallEnds
PROPERTY BatchReturns
CHECK_DEADLOCK FALSE
