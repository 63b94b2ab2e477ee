CONSTANTS
    s1 = s1  s2 = s2  v1 = v1  v2 = v2
    Ports = {1, 2, 3}
    VIDs = {v1, v2}
    MaxVlans = 2
    MaxRef = 2
    Streams = {s1, s2}
    Vid <- MCVid
    Slope <- MCSlope
    Limit = 4
    MaxStreams = 2
    Configs <- MCConfigs
    Prompt = TRUE
    DisableUp = FALSE
SPECIFICATION Spec
INVARIANTS BandwidthAccounted ForwardingReserved DeclarationsAreReal
           DeclarationsFollow StatusAgrees VlanUsersCounted FilterFollows
CHECK_DEADLOCK FALSE
