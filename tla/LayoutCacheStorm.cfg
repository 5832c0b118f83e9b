CONSTANTS
    Nodes = {n1}
    Loads = {q1}
    L1TTL = 1
    L2TTL = 2
    MaxMessages = 1
    MaxClock = 4
SPECIFICATION AfterUpdate
PROPERTY InvalidationEnds
CHECK_DEADLOCK FALSE
