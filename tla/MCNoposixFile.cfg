SPECIFICATION Spec
CONSTANTS
    big = big
    small = small
    FANOUT = 2
    CHUNK = 2
    Fds <- MCFds
    Paths <- MCPaths
    FileLength <- MCFileLength
    WORD = 32
    Sizes <- MCSizes
    Offsets <- MCOffsets
    Seeks <- MCSeeks
    Openings <- MCOpenings
    MaxOpens = 2
    MaxMmaps = 3
    MaxHits = 1
INVARIANTS
    TypeOK
    TreesApart
    BytesAreTheFiles
    OnlyLeavesLeak
PROPERTIES
    ImplementsCache
