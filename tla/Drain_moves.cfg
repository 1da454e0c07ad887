SPECIFICATION FairSpec
CONSTANTS
    None = None
    MaxTurns = 2
    MaxStops = 2
    MaxFails = 2
INVARIANTS TypeOK TurnsKept HasItsWorld
PROPERTIES MovesOver
CHECK_DEADLOCK FALSE
