SPECIFICATION FairSpec
CONSTANTS
    Client = {c1, c2}
    Speeds = {0, 1}
    InputDelay = 1
    MaxAhead = 0
    Responsive = {c1}
    LosesTurns = FALSE
    None = None
    QueueLimit = 1
    MaxStep = 3
    MaxWorlds = 1
    MaxCrashes = 1
INVARIANTS TypeOK PaceBound LoadingHolds NeverAccused
PROPERTIES RoomGoesOn
