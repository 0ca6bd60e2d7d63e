CONSTANTS
    d1 = d1
    d2 = d2
    d3 = d3
    d4 = d4
    r1 = r1
    None = None
    Doc <- FourDocs
    Relayer <- OneRelayer
    OrderOf <- Orders
    MaxCrashes = 2
    PayDoc = {"p1", "p2"}
    MaxCorrections = 1
    MaxPayloads = 3
    Source = {"s1"}
    Texts <- BodyTexts
    Values <- Extracted
    Actor = {"a", "b", "c", "d"}
    NoLink = NoLink
    Item = {"i1", "i2"}
    Form = {"x", "y"}
    Probes = {"x", "y"}
SPECIFICATION LabSpec
INVARIANTS LabTypeOK OrdersKeepTheirPromise  IdsReload 
PROPERTIES EverythingIsScheduled
CHECK_DEADLOCK FALSE
