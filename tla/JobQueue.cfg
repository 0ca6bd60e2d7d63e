CONSTANTS
    w1 = w1
    w2 = w2
    w3 = w3
    None = None
    Worker <- ThreeWorkers
    Lease = 1
    SweepWait = 2
    Killed <- FirstJob
    LeaseModes = {TRUE, FALSE}
    Fencing = TRUE
    InitialJobs = 1
    MaxJobs = 3
    MaxTime = 5
    MaxSweeps = 1
    QueueItem = {1, 2, 3, 4, 5, 6}
    Poison <- ThreePoison
    ForeverCap = 5
    Tokens <- Lengths
    Chunks <- PromptPieces
    MaxBatch = 2
    MaxSeq = 2
    LastDay = 3
    ReleaseDay <- ThreeReleases
    CanaryDays <- SecondCanaried
    ReskillDay = 2
    Retries = 2
    Record = {"a"}
    Setting <- Settings
    Stranger = {"typo"}
    Raw = {"", "true", "false", "0", "30", "info"}
    TypeOf <- Types
    InFile <- FileConfig
    DefaultOf <- Defaults
    Package <- Packages
    DepsOf <- Deps
    Pinned <- Pins
    Direct <- RequirementsFile
    MaxRelease = 2
SPECIFICATION LabSpec
INVARIANTS LabTypeOK FencedWrites NeighboursAreServed EventsAreAccountable DeploysSayWhatTheyRun
PROPERTIES KeepsEachResultOnce 
CHECK_DEADLOCK FALSE
