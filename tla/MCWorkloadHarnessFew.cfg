SPECIFICATION Spec
CONSTANTS
    TC = 2
    Options <- TooFew
    Word = 4
    MaxLoop = 3
INVARIANTS
    EnoughOperations
CHECK_DEADLOCK FALSE
