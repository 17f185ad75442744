CONSTANTS
    NPC = 4
    DataAddrs = {3}
    Firmwares <- ManualFirmwares
    Guest <- ManualGuest
    CsrVals <- ManualCsr
SPECIFICATION FairSpec
PROPERTY EpcOfFaultingInstruction
