CONSTANTS
    XLEN = 8
    WLEN = 4
    ILEN = 3
    DPREC = 5
    Lefts <- MCLefts
    Rights <- MCRights
    Stale = {77}
SPECIFICATION AluSpec
INVARIANTS
    AluExact
