CONSTANTS
    N = 2
    IdxMod = 4
    Sectors = {s1}
    Vals = {v1, v2}
    Modes = {"rw", "ro", "snapshot"}
SPECIFICATION VBFair
INVARIANTS
    VBTypeOK
    LineFollowsStatus
    NoLostInterrupt
    UsedHasInterrupt
    RingsNotOverrun
PROPERTIES
    ImplementsStore
    EveryRequestAnswered
