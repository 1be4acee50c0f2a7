SPECIFICATION Spec
CONSTANTS
    TxSize = 5
    IterMod = 4
    IdMod = 8
    Mack = 1
    MaxRetry = 1
    MaxSent = 3
    StatSize = 4
    MaxMsgs = 4
    MaxPayload = 8
    Lengths = {4, 8}
    FlagSets <- AllFlags
    Mode = "NRX"
    Handshake = TRUE
    SendOnStart = TRUE
    LossPolicies = {"keep"}
    MaxHb = 0
    MaxDl = 0
    MaxNaps = 0
INVARIANTS
    SendComplete
    InOrder
CHECK_DEADLOCK FALSE
