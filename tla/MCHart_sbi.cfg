CONSTANTS
    NPC = 4
    DataAddrs = {3}
    Firmwares <- SbiFirmwares
    Guest <- SbiGuest
    CsrVals <- SbiCsr
SPECIFICATION FairSpec
INVARIANTS
    NeverAborts
PROPERTIES
    TimerTrapsDue
    TimerNotStarved
