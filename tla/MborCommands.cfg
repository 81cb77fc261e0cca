SPECIFICATION Spec
CONSTANTS
    Tasks = {t1, t2}
    MaxSessions = 2
    NumIds = 4
    Pins = {p1, p2}
    NoPin = NoPin
    MaxCommands = 8
SYMMETRY Symmetry
INVARIANTS
    TypeOK
    NonceUnspent
    PinInForce
    MaskingKeyLives
    SessionKeysReachable
CHECK_DEADLOCK FALSE
