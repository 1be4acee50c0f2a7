SPECIFICATION FairSpec
CONSTANTS
    NumRates = 2
    Plans = {0, 1}
    NoChange = NoChange
    NoSettings = NoSettings
    Board <- SlowBoard
    Alternatives <- TwoAlternatives
    TryAlternatives = TRUE
    LowestOnLoss = TRUE
    PeriodMod = 2
    Homes <- AtAnAlternative
    Choices <- ForeignOrFixed
    Infos <- Answers
    MaxHigh = 2
    MaxCalls = 1
INVARIANT TypeOK
PROPERTIES RaisedIsTold Reunites
CHECK_DEADLOCK FALSE
