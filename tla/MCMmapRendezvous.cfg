SPECIFICATION FairSpec
CONSTANTS
    N = 2
    START_SIZE = 128
    END_SIZE = 256
    FILE_SIZE = 512
INVARIANTS
    NoLostShare
    NoLostWakeup
    OneBehindAtMost
    ShareInsidePiece
    SharesStoredWhole
PROPERTIES
    AllTransfersEnd
