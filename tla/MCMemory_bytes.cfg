CONSTANTS
    NCells = 4
    StoreLimit = 24
    ByteMod = 4
    CmpCell = 1
    TimeCell = 2
    Clock <- MCClock
    Values <- MCValues
    Image <- MCImage
    Chars <- MCChars
    MaxTurns = 2
SPECIFICATION MSpec
PROPERTIES
    ImplementsBytes
    TimerMoves
