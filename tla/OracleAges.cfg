SPECIFICATION Spec
SYMMETRY Symmetry
CONSTANTS
    None = none
    Threads = {t1, t2}
    Procs = {p1}
    Pairs = {x}
    TTL = 2
    MaxAge = 1
    Gap = 1
    Latency = 1
    Stall = 1
    MaxNow = 6
INVARIANTS
    TypeOK
PROPERTIES
    QuotesRestOnRecentData
    SamplesRestOnRecentData
    RequestsAreSpaced
