SPECIFICATION Spec
CONSTANTS
    c1 = c1
    c2 = c2
    c3 = c3
    Seats <- MCPair
    Faulty = {}
    OnMac = {c2}
    World = {w1, w2}
    Own = Own
    None = None
    MinReports = 2
    OpenLimit = 1
    KeptLimit = 1
    QueueLimit = 1
    MaxStep = 2
    MaxSaves = 1
    MaxRestarts = 1
SYMMETRY MCSymmetry
INVARIANTS TypeOK ComparesLikeWithLike NobodyUntold
