SPECIFICATION FairSpec
CONSTANTS
    N = 3
    JOINS = 5
    MaxSpurious = 2
INVARIANTS
    Separation
    CountsWaiters
PROPERTIES
    ImplementsPhases
    AllPass
