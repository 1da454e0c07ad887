SPECIFICATION Spec
CONSTANTS
    Client = {c1, c2}
    WorldId = {w1, w2}
    Own = Own
    None = None
    QueueLimit = 1
    MaxStep = 1
    MaxRestarts = 1
SYMMETRY MCSymmetry
INVARIANTS TypeOK Together RoomKnows NeverStranded

