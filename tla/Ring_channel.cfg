SPECIFICATION FairSpec
CONSTANTS
    empty = empty
    small = small
    full = full
    huge = huge
    Message <- MCMessage
    Size <- MCSize
    Capacity = 8
    Wrap = 16
    Prefix = 2
    MaxMessage = 6
    None = None
    MaxSent = 5
INVARIANTS TypeOK NeverTorn WritesOnlyFreeBytes
PROPERTIES IsChannel
CHECK_DEADLOCK FALSE
