SPECIFICATION FairSpec
CONSTANTS
    None = None
    s1 = s1
    s2 = s2
    main = main
    master = master
    worker = worker
    Swaps = {s1, s2}
    API = main
    BG = main
    MaxSends = 2
    Others = {}
    Required = {1}
    Amounts <- TwoAmounts
    ToCoin <- OneCoin
    AdminTargets <- NoStatuses
    Faults <- NoFaults
    Sweepers <- ThreadOnly
PROPERTIES
    SwapsComeToAnEnd
    HoldIsReleased
