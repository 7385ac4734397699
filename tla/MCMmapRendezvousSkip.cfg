SPECIFICATION Spec
CONSTANTS
    N = 2
    START_SIZE = 2
    END_SIZE = 4
    FILE_SIZE = 4
INVARIANTS
    NobodySkipped
