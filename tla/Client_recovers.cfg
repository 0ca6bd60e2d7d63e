CONSTANTS
    c1 = c1
    c2 = c2
    c3 = c3
    Client <- TwoClients
    Tries = 2
    UseBreaker = TRUE
    UseBudget = FALSE
    Threshold = 2
    Cooldown = 1
    Probes = 1
    RetryNum = 1
    RetryDen = 2
    MinCalls = 2
    MaxCalls = 0
    MaxErrors = 0
    HitCap = 0
    EpisodeCap = 0
    Logical = {1, 2}
    Layers = 3
    LayerTries = 3
    Window = 2
    AdmitLimit = 2
    LastTick = 5
    PerTick = 3
    Attempts = 4
SPECIFICATION LabSpec
INVARIANTS LabTypeOK LoadIsPredictable
PROPERTIES BreakerIsNoTrap
CHECK_DEADLOCK FALSE
