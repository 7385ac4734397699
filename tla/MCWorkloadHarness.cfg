SPECIFICATION FairSpec
CONSTANTS
    TC = 3
    Options <- Working
    Word = 4
    MaxLoop = 4
INVARIANTS
    ResultsCountOperations
    OperationsAreTimed
    StopsPromptly
    KilledOnlyByRace
    NegativeTimeMeansNoOperations
PROPERTIES
    Ends
