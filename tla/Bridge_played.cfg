SPECIFICATION FairSpec
CONSTANTS
    Log <- MCLog
    Interval = 2
    LinkSize = 2
    OutboxLimit = 2
    HeldLimit = 1
    None = None
    MaxWorlds = 1
    MaxLosses = 1
INVARIANTS TypeOK NothingRefused ReadyMeansLoaded ReportsOfThisWorld
PROPERTIES IsPlaying
CHECK_DEADLOCK FALSE
