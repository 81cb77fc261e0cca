SPECIFICATION Spec
CONSTANTS
    Act = {create, disable}
    Disable = {disable}
    Byte = {b1, b2}
    MaxLen = 2
    NoBytes = NoBytes
    EntrySize = 2
    Size = 7
    Zero = Zero
    HalfRange = 8
CHECK_DEADLOCK FALSE
INVARIANTS
    TypeOK
PROPERTY
    ImplementsStack
