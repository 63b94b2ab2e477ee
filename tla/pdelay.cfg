SPECIFICATION FairSpec
CONSTANTS
    Seqs = 4
    AllowedLost = 1
    LateTimestamps = FALSE
    MaxFaults = 3
INVARIANTS
    MeasurementMatches
    CapableIsRecent
PROPERTIES
    BecomesCapable
CHECK_DEADLOCK FALSE
