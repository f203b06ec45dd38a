SPECIFICATION Spec
CONSTANTS
    a1 = a1
    b1 = b1
    Null = Null
    Sessions <- MCSessions
    RoleOf <- MCRoleOf
    MaxCandidates <- MCMaxCandidates
    MaxObservations <- MCMaxObservations
    MaxFaults = 1
INVARIANTS
    CandidatesAreKept
    NegotiationsNeverOverlap
    OneObservationPerExport
    
PROPERTIES
    SetupCompletes
CHECK_DEADLOCK FALSE
