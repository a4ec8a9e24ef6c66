SPECIFICATION Spec
CONSTANTS
    Instruments = {1, 2}
    Price <- MCPrice
    TargetMaps <- FewMaps
    ExitNonTargets = TRUE
    BufferPercent = 0
    InitHeld <- MCHeld
    InitCash = 1
    Cancels = {}
    Restarts = TRUE
    Days = TRUE
    RacingFillQueued = TRUE
    StatusMidSell = TRUE
PROPERTY OrdersFromRealPosition
CHECK_DEADLOCK FALSE
