SPECIFICATION Spec
CONSTANTS
    t1 = t1
    t2 = t2
    t3 = t3
    t4 = t4
    NoTask = NoTask
    Tasks <- MCTasks
    SpecificCalls <- MCSpecificCalls
    ENGINES = 2
    DEPTH = 2
    CursorMod = 4
    MaxCommands = 2
INVARIANTS
    TypeOK
    EngineAccounted
    HandedOverQuiet
    NoIdleEngineWhileQueued
    ServedInOrder
    WokenIffReady
PROPERTIES
    WaitersServed
    ImplementsPool
