SPECIFICATION Spec
CONSTANTS
    IterMod = 4
    QueueSize = 2
    Mack = 2
    Start = "GROUP_START"
    Sizes = {0}
    MaxMsgs = 3
    MaxTries = 1
    MaxLapses = 0
INVARIANTS
    NeverTwice
CHECK_DEADLOCK FALSE
