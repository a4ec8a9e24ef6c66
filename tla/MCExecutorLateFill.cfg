SPECIFICATION Spec
CONSTANTS
    Instruments = {1, 2}
    Price <- MCPrice
    TargetMaps <- FewMaps
    ExitNonTargets = TRUE
    BufferPercent = 0
    InitHeld <- MCHeld
    InitCash = 1
    Cancels = {"BUY", "SELL"}
    Restarts = FALSE
    Days = FALSE
    RacingFillQueued = FALSE
    StatusMidSell = TRUE
INVARIANTS NeverOvershoots
CHECK_DEADLOCK FALSE
