CONSTANTS
    NBlocks = 3
    BlockSize = 4
    ClusterSize = 2
    CacheMax = 2
    Prefetch <- MCPrefetch
    Image <- MCImage
    Vals <- MCVals
    Junk = junk
    Requests <- All
SPECIFICATION NetFair
INVARIANTS
    NTypeOK
    DownloadsValid
    ResumeExact
    WritesKept
    ReadsExact
PROPERTIES
    RequestEnds
