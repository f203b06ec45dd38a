SPECIFICATION Spec
CONSTANTS
    Skew <- MCSkew
    Counts = {0, 1, 2}
    ProbeTimeout = 1
    MaxProbes <- MCProbes
    MaxTime = 3
    MaxDuplicates = 1
    Null = Null
INVARIANTS
    VerdictComesFirst
    OffsetIsBounded
    TimersAreOwned
    AnsweredOnce
PROPERTY
    ProbingStops
CHECK_DEADLOCK FALSE
