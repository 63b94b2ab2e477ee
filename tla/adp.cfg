SPECIFICATION FairSpec
CONSTANTS
    e1 = e1  e2 = e2
    Entities = {e1, e2}
    Ports = {1, 2}
    Slots = {1, 2}
    None = None
    IndexMod = 3
    Configs <- MCConfigs
INVARIANTS
    ControllerView
    ExpiresOnlyOnFault
    RebootNoticed
PROPERTY Tracks
CHECK_DEADLOCK FALSE
