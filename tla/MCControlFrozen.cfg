SPECIFICATION Spec
CONSTANTS
    i1 = i1
    i2 = i2
    c1 = c1
    c2 = c2
    Instruments = {i1}
    Requests = {c1}
    Loop = loop
    RefreshMaps <- RefreshNone
    InitTargets <- KeepOne
    InitHeld <- KeepOne
    MaxShares = 2
    Buttons <- SellAndFreeze
    ExitNonTargets = TRUE
    LockTimesOut = FALSE
    WindowShuts = FALSE
    Drops = FALSE
PROPERTY SellNotClobbered
CHECK_DEADLOCK FALSE
