CONSTANTS
    MaxDescs = 3
    IntLimit = 4
SPECIFICATION CopySpec
INVARIANTS
    CopyExact
    SizesSuffice
PROPERTIES
    CopyReturns
