SPECIFICATION Spec
CONSTANTS
    s1 = s1
    s2 = s2
    Stocks = {s1, s2}
    MaxShares = 1
    Plans <- SomePlans
    Days = 2
    RefreshAt = {"early"}
    Failures = {"model"}
    CacheLags = TRUE
INVARIANT BlindKeepsHoldings
