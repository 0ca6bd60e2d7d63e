CONSTANTS
    k1 = k1
    k2 = k2
    docA = docA
    docB = docB
    docC = docC
    Request <- FiveRequests
    KeyOf <- Keys5
    DocOf <- Docs5
    Fails <- FailingC
    Policies <- WaitPolicy
    N01 = docA
    MaxCrashes = 1
SPECIFICATION FairSpec
PROPERTIES ClaimedKeyResolves
CHECK_DEADLOCK FALSE
