SPECIFICATION FairSpec
CONSTANTS
    TxSize = 5
    IterMod = 3
    IdMod = 8
    Mack = 1
    MaxRetry = 1
    MaxSent = 2
    StatSize = 2
    MaxMsgs = 2
    MaxPayload = 8
    Lengths = {4}
    FlagSets <- Plain
    Mode = "CRX"
    Handshake = TRUE
    SendOnStart = FALSE
    LossPolicies = {"keep"}
    MaxHb = 0
    MaxDl = 1
    MaxNaps = 0
PROPERTIES
    EventuallyDecided
CHECK_DEADLOCK FALSE
