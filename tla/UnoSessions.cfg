SPECIFICATION Spec
CONSTANTS
    Tasks = {t1, t2}
    MaxSessions = 2
    NumIds = 3
    NumFp = 2
    Ops = {"pending", "promote", "open", "reopen", "close", "bulk", "delete", "disable", "clear"}
    MaxCommands = 5
    MaxFaults = 2
SYMMETRY Symmetry
INVARIANTS
    TypeOK
    HandlesNameTheirKey
    EngineKeysReserved
    BulkKeysHaveSession
CHECK_DEADLOCK FALSE
