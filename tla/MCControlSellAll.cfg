SPECIFICATION Spec
CONSTANTS
    i1 = i1
    i2 = i2
    c1 = c1
    c2 = c2
    Instruments = {i1}
    Requests = {c1}
    Loop = loop
    RefreshMaps <- NoRefresh
    InitTargets <- KeepOne
    InitHeld <- KeepOne
    MaxShares = 2
    Buttons <- SellButtons
    ExitNonTargets = TRUE
    LockTimesOut = FALSE
    WindowShuts = FALSE
    Drops = FALSE
PROPERTY SellAllNeverBuysAtAll
CHECK_DEADLOCK FALSE
