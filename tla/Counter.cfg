CONSTANTS
    t1 = t1
    t2 = t2
    t3 = t3
    None = None
    Thread <- ThreeThreads
    Increments = 2
    Strategies <- Strategy
    Unit <- ThreeThreads
    MaxDocs = 2
    FailsOn <- SecondFails
    NoUnit = None
    CacheKey <- TwoKeys
    Caller <- ThreeThreads
    Capacity = 1
    Ttl = 1
    MaxVersion = 1
    Nobody = None
    BlobDoc = {1, 2, 3, 4}
    Content = {"x", "y"}
    ContentOf <- SameBytes
    MaxOpen = 3
    RawDoc = {1, 2, 3, 4}
    Stamp = {1, 2, 3}
    MaxRuns = 3
    EventId = {1, 2, 3, 4, 5}
    BatchSize = 2
    IndexDoc = {1, 2, 3, 4}
    Restricted = {1, 3}
    PageSize = 2
    MaxEdits = 1
SPECIFICATION LabSpec
INVARIANTS LabTypeOK NothingLostQuietly LossesAreAnnounced AllOrNothing CacheIsSound BlobsAreSound CursorsAreSound OrphansFellInTheGap DeletionReachesEveryPath
PROPERTIES CountsOnce CounterFinishes
CHECK_DEADLOCK FALSE
