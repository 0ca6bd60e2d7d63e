CONSTANTS
    k1 = k1
    k2 = k2
    docA = docA
    docB = docB
    docC = docC
    Request <- FiveRequests
    KeyOf <- Keys5
    DocOf <- FailedDocs5
    Fails <- FailingC
    Policies <- WaitPolicy
    N01 = docA
    MaxCrashes = 0
SPECIFICATION Spec
INVARIANTS SuccessCarriesAnEvent
CHECK_DEADLOCK FALSE
