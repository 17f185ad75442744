CONSTANTS
    Threads <- MCThreads
    Pages = {"shared", "own"}
    Cells = {"c1", "c2", "c3"}
    Frame <- MCFrame
    BaseCell = "c3"
    Yield = {"W", "D"}
SPECIFICATION ASpec
PROPERTIES
    ScExclusive
    ScTellsTruth
