SPECIFICATION Spec
CONSTANTS
    TxSize = 7
    IterMod = 6
    IdMod = 8
    Mack = 2
    MaxRetry = 1
    MaxSent = 3
    StatSize = 5
    MaxMsgs = 2
    MaxPayload = 8
    Lengths = {4, 14}
    FlagSets <- Plain
    Mode = "CRX"
    Handshake = TRUE
    SendOnStart = FALSE
    LossPolicies = {"keep"}
    MaxHb = 0
    MaxDl = 0
    MaxNaps = 0
INVARIANTS
    AckedIsHeard
    Covered
    QuietHasRoom
PROPERTIES
    LostAfterAllTries
CHECK_DEADLOCK FALSE
