SPECIFICATION MCSpec
CONSTANTS
    short = short
    long = long
    command = command
    redacted = redacted
    halfway = halfway
    empty = empty
    Text <- MCText
    TextLen <- MCTextLen
    Clean <- MCClean
    Joined <- MCJoined
    Swallows <- MCSwallows
    Wide <- MCWide
    Unlisted = Unlisted
    NoText = NoText
    MaxRuns = 4
    Repeats <- MCRepeats
    Path <- MCPath
    Contents <- MCContents
    Unreadable = Unreadable
    Absent = Absent
    Domain <- MCDomain
    Opt = "opt"
    NoCore = NoCore
    MaxBatch = 2
    MaxEdited = 1
    MaxHour = 1
    File <- MCFile
    Name <- MCName
    Stem <- MCStem
    Gone = Gone
    MaxWrites = 2
    MaxMoves = 1
    MaxStarts = 2
INVARIANT AnswersFollowQuestions
INVARIANT WalkOrderIrrelevant
INVARIANT SignedInOneHour
INVARIANT AllOrNothing
INVARIANT PipelineAgrees
INVARIANT QuiescentFresh
INVARIANT DeletedLeavesItsScan
PROPERTY GrowthNeverLowersScore
PROPERTY ChangeGetsOut
CHECK_DEADLOCK FALSE
