SPECIFICATION FairSpec
CONSTANTS
    Instruments = {1, 2}
    Price <- MCPrice
    TargetMaps <- BuyBoth
    ExitNonTargets = TRUE
    BufferPercent = 0
    InitHeld <- HeldNone
    InitCash = 1
    Cancels = {"BUY", "SELL"}
    Restarts = FALSE
    Days = FALSE
    RacingFillQueued = TRUE
    StatusMidSell = TRUE
PROPERTIES NoStarvedBuy
CHECK_DEADLOCK FALSE
