SPECIFICATION Spec
CONSTANTS
    h1 = h1
    h2 = h2
    h3 = h3
    c1 = c1
    c2 = c2
    Client = {c1}
    HistoryId = {h1, h2}
    FirstHistory = h1
    KeepsWorlds = FALSE
    ResumeWindow = 2
    CompactAt = 1
    AppendsFail = TRUE
    None = None
    MaxTurns = 2
    MaxEvents = 2
    MaxSteps = 1
SYMMETRY MCSymmetry
INVARIANTS TypeOK AlwaysRecoverable Lockstep NothingLostWithoutTheDisk
CHECK_DEADLOCK FALSE
