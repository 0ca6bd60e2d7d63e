CONSTANTS
    c1 = c1
    c2 = c2
    c3 = c3
    Client <- ThreeClients
    Tries = 3
    UseBreaker = TRUE
    UseBudget = TRUE
    Threshold = 2
    Cooldown = 1
    Probes = 1
    RetryNum = 1
    RetryDen = 2
    MinCalls = 2
    MaxCalls = 7
    MaxErrors = 1
    HitCap = 11
    EpisodeCap = 4
SPECIFICATION Spec
SYMMETRY Symmetry3
INVARIANTS LoadWithinBudget BreakerShields
CHECK_DEADLOCK FALSE
