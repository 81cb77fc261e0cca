SPECIFICATION Spec
CONSTANTS
    p1 = p1
    p2 = p2
    t1 = t1
    t2 = t2
    t3 = t3
    t4 = t4
    k1 = k1
    k2 = k2
    Procs = {p1, p2}
    Threads = {t1, t2, t3, t4}
    Keys = {k1, k2}
    NoKey = noKey
    ProcOf <- PairProcOf
    KeyProc <- PairKeyProc
    Uses <- PairUses
    NumHandles = 1
    Loaded = {k1}
    Generators = {t4}
    Deleters = {t1, t2, t3}
    Openers = {t4}
    Restarters = {t4}
    MaxRetries = 1
    MaxResets = 2
    MaxErrors = 1
SYMMETRY PairSymmetry
INVARIANTS
    TypeOK
    StampedHandlesHold
    EpochsOrdered
    OnlyInversionLocks
PROPERTY
    EpochsGrow
