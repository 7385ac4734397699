SPECIFICATION FairSpec
CONSTANTS
    N = 3
    ROUNDS = 3
    START_SIZE = 1
    FileSizes = {5, 12}
INVARIANTS
    MainPreparesAlone
    SameSize
    NoStaleFinish
PROPERTIES
    RingAnswered
    ImplementsFairForkJoin
