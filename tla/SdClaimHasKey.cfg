SPECIFICATION Spec
CONSTANTS
    Io = {io1}
    KeyId = {k1, k2, k3, k4, k5}
    CoSess = co
    CuSess = {}
    Psk = {p1}
    DefaultPsk = pskDefault
    Absent = absent
    Present = present
    NoIo = noIo
    Ops = {"SdCreate"}
    Starts = {"provisioned"}
    MaxCommands = 2
    MaxLost = 0
INVARIANT
    SdClaimHasKey
CHECK_DEADLOCK FALSE
