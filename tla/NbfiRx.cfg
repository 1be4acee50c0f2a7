SPECIFICATION Spec
CONSTANTS
    IterMod = 4
    QueueSize = 2
    Mack = 1
    Start = "GROUP_START"
    Sizes = {0, 1, 2, 3}
    MaxMsgs = 3
    MaxTries = 1
    MaxLapses = 1
INVARIANTS
    TypeOK
    NoMixInLap
    HandedOnce
    ConfirmedIsHanded
    NewestKept
PROPERTIES
    ServiceSpec
CHECK_DEADLOCK FALSE
