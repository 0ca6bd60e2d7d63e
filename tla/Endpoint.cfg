CONSTANTS
    k1 = k1
    k2 = k2
    docA = docA
    docB = docB
    docC = docC
    Request <- FiveRequests
    KeyOf <- Keys5
    DocOf <- Docs5
    Fails <- FailingC
    Policies <- AllPolicies
    N01 = docA
    MaxCrashes = 1
    Units = 8
    FlushEvery = {1, 3}
    Absorbed = 2
    StreamDoc = {1, 2}
    Deltas = 3
    ValidDoc <- FirstOnly
    Tenant = {"a", "b"}
    TenantDoc = {"a1", "a2", "b1"}
    OwnerOf <- Owners
    Vectors = 4
    NeighbourLists <- OneOrTwo
    CandidateSizes <- SearchSizes
    TopK = 2
    Term = {"t1", "t2", "t3"}
    Other = "other"
    Places = 6
SPECIFICATION LabSpec
INVARIANTS LabTypeOK WritesOnce AnswersAreHonest WhatIsServedIsWhole TenantsReadTheirOwn
PROPERTIES ResolvesUnlessRestarted
CHECK_DEADLOCK FALSE
