CONSTANTS
    N = 2
    IdxMod = 4
    Sectors = {s1}
    Vals = {v1}
    Modes = {"rw"}
SPECIFICATION SysSpec
INVARIANTS
    KeepsRunning
    ContextKept
    CriticalSection
PROPERTIES
    SysImplementsStore
    RequestsComplete
