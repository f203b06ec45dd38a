SPECIFICATION Spec
CONSTANTS
    MaximumAttempts = 3
    MaxGeneration = 6
    Null = Null
INVARIANTS
    TypeOK
    SingleFlight
    ProbingGoesOn
    VerdictIsBacked
    RestartIsKept
PROPERTIES
    OnlyCurrentCounts
    RestartIsServed
    ProbingEnds
CHECK_DEADLOCK FALSE
