SPECIFICATION Spec
CONSTANTS
    Client = {c1, c2}
    WorldId = {w1, w2, w3}
    Own = Own
    None = None
    QueueLimit = 1
    MaxStep = 1
    MaxRestarts = 0
SYMMETRY MCSymmetry
INVARIANTS OneWorld
