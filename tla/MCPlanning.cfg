SPECIFICATION PartsSpec
CONSTANTS
    s1 = s1
    s2 = s2
    Stocks = {s1, s2}
    MaxShares = 1
    Plans <- SomePlans
    Days = 2
    RefreshAt = {"early", "open"}
    Failures = {"load", "write", "plan", "model"}
    CacheLags = TRUE
    Parts = {"day", "contents", "stops", "loading"}
    PlanStocks = {"a", "b"}
    Flags <- SomeFlags
    MaxAttempts = 2
    Shares = 1
    StopDays = 5
    Prices = {12, 16}
    SignalDays = 4
    Rankings <- SomeRankings
    Positions = 2
    Restarts = 2
INVARIANT TypesOK
INVARIANT InForceIsStored
INVARIANT OneFrozenPlan
INVARIANT SafetyKeepsHoldings
INVARIANT LocalRulesHold
INVARIANT StopsAreTrue
INVARIANT PlanSeesAllSignals
PROPERTY DayGetsTarget
CHECK_DEADLOCK FALSE
