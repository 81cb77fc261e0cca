SPECIFICATION Spec
CONSTANTS
    Io = {io1, io2}
    CuSlots = 0
    KeyId = {k1, k2}
    NoKey = NoKey
    NoIo = NoIo
    Roles = {"CO"}
    MaxCommands = 7
    MaxLost = 0
SYMMETRY Symmetry
CHECK_DEADLOCK FALSE
INVARIANT
    OneRotationPerSchedule
