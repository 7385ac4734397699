SPECIFICATION Spec
CONSTANTS
    Page = 2
    EndSize = 4
    MaxFile = 6
    Records = 2
    Commands <- MCCommands
    MaxRuns = 2
INVARIANTS
    WrittenIsReadBack
    SilenceMeansPattern
    RandomPassWritesAll
    AckedSurvives
    BusErrorsExplained
    ExitsOnlyAfterError
CHECK_DEADLOCK FALSE
