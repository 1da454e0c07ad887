SPECIFICATION Spec
CONSTANTS
    h1 = h1
    h2 = h2
    h3 = h3
    c1 = c1
    c2 = c2
    Client = {c1}
    HistoryId = {h1, h2, h3}
    FirstHistory = h1
    KeepsWorlds = TRUE
    ResumeWindow = 2
    CompactAt = 9
    AppendsFail = FALSE
    None = None
    MaxTurns = 2
    MaxEvents = 2
    MaxSteps = 0
SYMMETRY MCSymmetry
INVARIANTS Lockstep NeverFails
CHECK_DEADLOCK FALSE
