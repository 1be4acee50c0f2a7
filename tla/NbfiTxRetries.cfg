SPECIFICATION Spec
CONSTANTS
    TxSize = 5
    IterMod = 4
    IdMod = 8
    Mack = 1
    MaxRetry = 2
    MaxSent = 4
    StatSize = 4
    MaxMsgs = 2
    MaxPayload = 8
    Lengths = {4}
    FlagSets <- Mixed
    Mode = "CRX"
    Handshake = TRUE
    SendOnStart = TRUE
    LossPolicies = {"keep", "sync"}
    MaxHb = 1
    MaxDl = 0
    MaxNaps = 1
INVARIANTS
    TriesBounded
    UnconfirmedNeverLost
    ToldOnce
CHECK_DEADLOCK FALSE
