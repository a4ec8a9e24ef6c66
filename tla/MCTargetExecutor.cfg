SPECIFICATION Spec
CONSTANTS
    Instruments = {1, 2}
    Price <- MCPrice
    TargetMaps <- MCMaps
    ExitNonTargets = TRUE
    BufferPercent = 0
    InitHeld <- MCHeld
    InitCash = 1
    Cancels = {"BUY", "SELL"}
    Restarts = FALSE
    Days = FALSE
    RacingFillQueued = TRUE
    StatusMidSell = TRUE
INVARIANTS TypeOK NeverOvershoots AchievedIsOnTarget
PROPERTIES BuysWithinCash ImplementsPositionWork
CHECK_DEADLOCK FALSE
