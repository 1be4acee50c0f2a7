SPECIFICATION Spec
CONSTANTS
    LowMod = 2
    Epochs = 3
    ScanDepth = 1
    ShortRoot = "peer"
    Aloha = TRUE
    MaxUl = 6
    MaxFrames = 8
    MaxDelay = 2
    MaxResets = 1
    MaxSwitches = 0
INVARIANTS
    TypeOK
    KeysFollow
    WindowAccepted
    HandedOnce
    ReuseBounded
CHECK_DEADLOCK FALSE
