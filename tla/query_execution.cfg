CONSTANTS
    Sessions <- MCSessions
    FirstPool <- MCPool
    FirstDbs <- MCDbs
    FirstHeap <- MCHeap
    FirstFiles <- MCFiles
    GoodImages <- MCGoodImages
    LongTexts <- MCLongTexts
    StaleCounts <- MCStaleCounts
    BigImages <- MCBigImages
    ReadAs <- MCReadAs
    NoSizes <- MCNoSizes
    SyncOutcomes = {TRUE, FALSE}
    OpenOutcomes = {TRUE, FALSE}
    Junk = 0
    IdRange = 256
    ImageRange = 2
SPECIFICATION Spec
INVARIANTS
    QueriesMeanWhatTheySay
    FailuresKeepPrefix
    OrdinaryQueriesRun
CHECK_DEADLOCK FALSE
