SPECIFICATION FairSpec
CONSTANTS
    Systems = {1, 2, 3}
    Ends <- MCEnds
    Nets <- MCNets
    Ranks <- MCRanks
    NotCapable = 3
    MaxSteps = 3
    MaxPath = 3
INVARIANTS
    SlaveFollowsGm
    HostTold
PROPERTY Converges
CHECK_DEADLOCK FALSE
