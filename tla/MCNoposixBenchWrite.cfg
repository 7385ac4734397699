SPECIFICATION BSpec
CONSTANTS
    N = 2
    ROUNDS = 2
    FANOUT = 4
    CHUNK = 4
    FILE_SIZE = 16
    FileSizes = {16}
    FILE_LENGTH = 16
    START_SIZE = 2
    Selectable = {"write"}
    file = file
INVARIANTS
    NothingMappedWhenTimed
