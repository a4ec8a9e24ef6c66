SPECIFICATION FairSpec
CONSTANTS
    i1 = i1
    i2 = i2
    c1 = c1
    c2 = c2
    Instruments = {i1}
    Requests = {c1}
    Loop = loop
    RefreshMaps <- RefreshOne
    InitTargets <- KeepOne
    InitHeld <- KeepOne
    MaxShares = 1
    Buttons <- SellPauseFreeze
    ExitNonTargets = TRUE
    LockTimesOut = FALSE
    WindowShuts = FALSE
    Drops = FALSE
PROPERTY PauseStopsTrading
PROPERTY RequestsEnd
