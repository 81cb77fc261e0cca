SPECIFICATION Spec
CONSTANTS
    Io = {io1, io2}
    KeyId = {k1}
    CoSess = co
    CuSess = {cu1, cu2}
    Psk = {p1}
    DefaultPsk = pskDefault
    Absent = absent
    Present = present
    NoIo = noIo
    Ops = {"PskChange"}
    Starts = {"fresh"}
    MaxCommands = 2
    MaxLost = 1
INVARIANT
    AckedRotationStands
CHECK_DEADLOCK FALSE
