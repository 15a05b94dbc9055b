SPECIFICATION Spec
SYMMETRY Symmetry
CONSTANTS
    None = None
    s1 = s1
    s2 = s2
    main = main
    master = master
    worker = worker
    Swaps = {s1, s2}
    API = main
    BG = main
    MaxSends = 2
    Others = {}
    Required = {0, 1}
    Amounts <- OneAmount
    ToCoin <- OneCoin
    AdminTargets <- OnlyCancel
    Faults <- NoFaults
    Sweepers <- ThreadOnly
INVARIANTS
    TypeOK
    PaidAtMostOnce
    PaidIsRecorded
    CacheCoherent
    ActiveRowIsServed
    DepositHasAWayOn
PROPERTIES
    ImplementsLedger
