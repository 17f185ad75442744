CONSTANTS
    NPC = 4
    DataAddrs = {3}
    Firmwares <- PagingFirmwares
    Guest <- PagingGuest
    CsrVals <- PagingCsr
SPECIFICATION Spec
INVARIANTS
    ExceptionsPrecise
    FaultAddressVisible
    SupervisorOnlyDelegated
