SPECIFICATION FairSpec
CONSTANTS
    Io = {io1, io2}
    KeyId = {k1, k2, k3, k4, k5, k6}
    CoSess = co
    CuSess = {cu1}
    Psk = {p1, p2}
    DefaultPsk = pskDefault
    Absent = absent
    Present = present
    NoIo = noIo
    Ops = {"PartInit", "PartFinal", "SdCreate", "UnwrapKey", "PskChange"}
    Starts = {"fresh", "rotated", "provisioned"}
    MaxCommands = 2
    MaxLost = 2
INVARIANTS
    TypeOK
    AckedSdStands
    AckedInitStands
    SoftDeletedIsOwned
    PublishedKeysLive
    SoloUndoIsExact
PROPERTY
    EveryCommandEnds
CHECK_DEADLOCK FALSE
