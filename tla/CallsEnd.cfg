SPECIFICATION FairSpec
CONSTANTS
    p1 = p1
    p2 = p2
    t1 = t1
    t2 = t2
    t3 = t3
    t4 = t4
    k1 = k1
    k2 = k2
    Procs = {p1}
    Threads = {t1, t2}
    Keys = {k2}
    NoKey = noKey
    ProcOf <- SoloProcOf
    KeyProc <- SoloKeyProc
    Uses <- SoloUses
    NumHandles = 1
    Loaded = {k2}
    Generators = {}
    Deleters = {t1}
    Openers = {}
    Restarters = {}
    MaxRetries = 2
    MaxResets = 1
    MaxErrors = 0
PROPERTY
    CallsEnd
CHECK_DEADLOCK FALSE
