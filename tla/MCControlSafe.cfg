SPECIFICATION Spec
CONSTANTS
    i1 = i1
    i2 = i2
    c1 = c1
    c2 = c2
    Instruments = {i1, i2}
    Requests = {c1, c2}
    Loop = loop
    RefreshMaps <- NoRefresh
    InitTargets <- KeepOne
    InitHeld <- HeldFirst
    MaxShares = 1
    Buttons <- OnlySellAll
    ExitNonTargets = TRUE
    LockTimesOut = TRUE
    WindowShuts = TRUE
    Drops = FALSE
SYMMETRY Symmetric
INVARIANT TypeOK
INVARIANT WithinBooks
PROPERTY SellAllNeverBuys
