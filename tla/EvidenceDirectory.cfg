SPECIFICATION Spec
CONSTANTS
    MinStats = 2
    MaxStats = 3
    MinProbes = 1
    MaxDuration = 4
    ClockEpsilon = 0
    Tenth = 2
    Numbers <- MCNumbers
    Derive <- MCDerive
    ReadBack <- MCReadBack
    Endpoints <- MCEndpoints
    MaxEdits = 2
    MaxRuns = 2
    Null = Null
INVARIANTS
    ValidMeansPaired
    PairedVerifies
PROPERTY
    ManifestFixesFiles
CHECK_DEADLOCK FALSE
