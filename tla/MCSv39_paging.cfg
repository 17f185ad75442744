CONSTANTS
    Idx = {0, 1}
    Tops = {0, 2, 6, 16386}
    PaTop = 4
    PtrTop = 16384
    BaseTop = 2
    Ram <- MCRam
    Root <- MCRoot
    Edits <- MCEdits
    Requests <- MCRequests
SPECIFICATION SFair
INVARIANTS
    STypeOK
    WalkAgrees
PROPERTIES
    StoresTracked
    DemandPagingEnds
