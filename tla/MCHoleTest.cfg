SPECIFICATION FairSpec
CONSTANTS
    THREADS = 2
    PAGES = 2
    Options <- Accepted
    Kernels <- AllKernels
INVARIANTS
    NoFalseAlarm
    LossReported
PROPERTIES
    Ends
