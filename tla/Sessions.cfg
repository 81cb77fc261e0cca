SPECIFICATION Spec
CONSTANTS
    Io = {io1, io2}
    CuSlots = 2
    KeyId = {k1, k2, k3}
    NoKey = NoKey
    NoIo = NoIo
    Roles = {"CO", "CU"}
    MaxCommands = 4
    MaxLost = 1
SYMMETRY Symmetry
CHECK_DEADLOCK FALSE
INVARIANTS
    TypeOK
    SessionKeysOwned
    RoleBySlot
    NoUnreportedSession
    OneRotationPerSession
PROPERTY
    EvictsOldestPending
