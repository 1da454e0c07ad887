SPECIFICATION ServedSpec
CONSTANTS
    Client = {c1, c2}
    WorldId = {w1}
    Own = Own
    None = None
    QueueLimit = 1
    MaxStep = 0
    MaxRestarts = 0
PROPERTIES Served
