SPECIFICATION FairSpec
CONSTANTS
    Instruments = {1, 2}
    Price <- MCPrice
    TargetMaps <- FewMaps
    ExitNonTargets = TRUE
    BufferPercent = 0
    InitHeld <- MCHeld
    InitCash = 1
    Cancels = {"SELL"}
    Restarts = FALSE
    Days = FALSE
    RacingFillQueued = TRUE
    StatusMidSell = TRUE
PROPERTIES NoStarvedBuy NoForgottenSell
CHECK_DEADLOCK FALSE
