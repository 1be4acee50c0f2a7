SPECIFICATION FairSpec
CONSTANTS
    FirstMode = "DRX"
    OffOnInit = FALSE
    SendOnStart = TRUE
    KeepRxOpen = TRUE
    ResetOnLoss = TRUE
    MaxRetry = 1
    TxMax = 1
    Room = 2
    MaxCalls = 2
    MaxDl = 1
INVARIANTS
    TypeOK
    SleepIsSafe
    NotForgotten
PROPERTIES
    Listens
    CutOnlyBySettings
    Settles
    ReceiverRests
CHECK_DEADLOCK FALSE
