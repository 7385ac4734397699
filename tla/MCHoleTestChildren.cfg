SPECIFICATION Spec
CONSTANTS
    THREADS = 2
    PAGES = 1
    Options <- PrivateChildren
    Kernels <- Lossy
INVARIANTS
    ErrorsAreReported
