SPECIFICATION Spec
SYMMETRY Symmetry
CONSTANTS
    r1 = r1
    r2 = r2
    t1 = t1
    t2 = t2
    w1 = w1
    oxc = oxc
    Runners = {r1, r2}
    Tables = {t1, t2}
    Changes = {w1}
    Coins = {oxc}
    KeepCount = 1
    MaxTime = 2
    Nobody = Nobody
INVARIANTS
    TypeOK
    
PROPERTIES
    NewestArchivesStay
    ArchivesAreBounded
    UndisturbedBackupIsFresh
