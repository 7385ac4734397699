SPECIFICATION BFairSpec
CONSTANTS
    N = 2
    ROUNDS = 2
    FANOUT = 5
    CHUNK = 4
    FILE_SIZE = 20
    FileSizes = {20}
    FILE_LENGTH = 15
    START_SIZE = 2
    Selectable = {"read", "pread", "write", "pwrite"}
    file = file
INVARIANTS
    ReadsOwnShare
    WarmUpMapsAll
    ErrorsExplained
    CountsNeverHigh
PROPERTIES
    BenchEnds
