SPECIFICATION Spec
CONSTANTS
    TxSize = 7
    IterMod = 4
    IdMod = 8
    Mack = 1
    MaxRetry = 1
    MaxSent = 3
    StatSize = 4
    MaxMsgs = 1
    MaxPayload = 8
    Lengths = {14}
    FlagSets <- Plain
    Mode = "CRX"
    Handshake = TRUE
    SendOnStart = FALSE
    LossPolicies = {"keep"}
    MaxHb = 0
    MaxDl = 0
    MaxNaps = 0
INVARIANTS
    DeliveredIsComplete
CHECK_DEADLOCK FALSE
