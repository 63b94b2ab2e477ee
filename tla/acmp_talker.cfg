SPECIFICATION FairSpec
CONSTANTS
    Addresses = {a1, a2}
    NoAddress = none
    MaxFailures = 2
    MaxConflicts = 2
INVARIANTS
    StreamReserved
PROPERTIES
    ImplementsSource
    Declares
CHECK_DEADLOCK FALSE
