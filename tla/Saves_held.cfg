SPECIFICATION FairSpec
CONSTANTS
    p1 = p1
    p2 = p2
    s1 = s1
    s2 = s2
    Order <- MCOrder
    Snapshot = {s1, s2}
    Abrupt = FALSE
    None = None
    MaxSaves = 1
    MaxAsks = 2
    MaxBreaks = 1
INVARIANTS TypeOK HoldsAccounted KeptWhileUsed AgreedWorlds
PROPERTIES UploadsEnd
CHECK_DEADLOCK FALSE
