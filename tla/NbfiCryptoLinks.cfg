SPECIFICATION Spec
CONSTANTS
    LowMod = 2
    Epochs = 3
    ScanDepth = 1
    ShortRoot = "peer"
    Aloha = FALSE
    MaxUl = 6
    MaxFrames = 5
    MaxDelay = 2
    MaxResets = 0
    MaxSwitches = 2
INVARIANTS
    KeysFollow
    WindowAccepted
CHECK_DEADLOCK FALSE
