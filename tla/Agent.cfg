CONSTANTS
    d1 = d1
    d2 = d2
    d3 = d3
    Doc <- ThreeDocs
    Quality <- OnlyFirstValid
    Resume <- ThirdCold
    MaxCalls = 8
    MaxCost = 11
    ClassifyCost = 1
    Estimate = 3
    ExtractCost = 2
    MaxKills = 2
    LoopDoc <- ThreeDocs
    LoopQuality <- OnlyFirstValid
    MaxSteps = 6
    LoopCalls = 4
    LoopCost = 7
    CallCost = 2
    CallEstimate = 3
    NoDoc = NoDoc
SPECIFICATION LabSpec
INVARIANTS LabTypeOK ResumeIsSound SpendIsBounded ClaimsAreValidated
PROPERTIES ResumedDocumentsSettle
