SPECIFICATION Spec
CONSTANTS
    None = None
    s1 = s1
    s2 = s2
    main = main
    master = master
    worker = worker
    Swaps = {s1}
    API = worker
    BG = master
    MaxSends = 2
    Others = {foreign}
    Required = {1}
    Amounts <- OneAmount
    ToCoin <- OneCoin
    AdminTargets <- SomeTargets
    Faults <- FaultKinds
    Sweepers <- BothSweepers
INVARIANTS
    StatusColumnAgrees
    NoUnbackedPayout
    CompletedMeansPaid
