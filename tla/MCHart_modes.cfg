CONSTANTS
    NPC = 4
    DataAddrs = {3}
    Firmwares <- ModesFirmwares
    Guest <- ModesGuest
    CsrVals <- ModesCsr
SPECIFICATION Spec
INVARIANTS
    TypeOK
    MppBelowMachine
PROPERTIES
    MachineEnteredByTrap
