CONSTANTS
    c1 = c1
    c2 = c2
    c3 = c3
    Client <- ThreeClients
    Tries = 1
    UseBreaker = TRUE
    UseBudget = FALSE
    Threshold = 2
    Cooldown = 1
    Probes = 1
    RetryNum = 1
    RetryDen = 2
    MinCalls = 2
    MaxCalls = 0
    MaxErrors = 0
    HitCap = 0
    EpisodeCap = 0
SPECIFICATION Spec
INVARIANTS ProbesBounded
CHECK_DEADLOCK FALSE
