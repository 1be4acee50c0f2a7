SPECIFICATION Spec
CONSTANTS
    TxSize = 5
    IterMod = 3
    IdMod = 8
    Mack = 1
    MaxRetry = 1
    MaxSent = 3
    StatSize = 4
    MaxMsgs = 3
    MaxPayload = 8
    Lengths = {4}
    FlagSets <- Plain
    Mode = "CRX"
    Handshake = TRUE
    SendOnStart = FALSE
    LossPolicies = {"keep"}
    MaxHb = 0
    MaxDl = 1
    MaxNaps = 0
INVARIANTS
    TypeOK
    DeliveredIsComplete
    InOrder
    SendComplete
    NoOrphan
PROPERTIES
    LostAfterAllTries
    ServiceSpec
CHECK_DEADLOCK FALSE
