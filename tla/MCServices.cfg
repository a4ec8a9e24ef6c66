SPECIFICATION PartsSpec
CONSTANTS
    Requests = {"c1", "c2"}
    DatabaseFails = TRUE
    Parts = {"switches", "ordering", "page", "asset", "nodes", "poll", "reports", "sync", "returns"}
    OrderRules <- SomeRules
    OrderShares = 6
    Open = 10
    Offset = 1
    CapOffset = 3
    Band = 4
    Notional = 55
    Ladders <- SomeLadders
    Threshold = 1
    Cancels = 3
    PagePrices = {12, 24}
    PageShares = 2
    PageDays = 2
    PageRestarts = 1
    Price = 2
    Shares = 3
    Unsettled = 4
    Fields <- SomeFields
    InitialCash = 1
    Nodes = {"n1", "n2", "n3"}
    Nobody = "nobody"
    Outages = 1
    Changes = 3
    AlertRules <- SomeAlerts
    Events = 3
    Rounds = 2
    Gauges <- SomeGauges
    Own = 2
    Jobs = {"j1", "j2"}
    SyncDays = 2
    Versions = 2
    ReturnDays = 2
    ReturnPrices = {1, 2}
    ReturnShares = 2
    Trades = 2
INVARIANT TypesOK
INVARIANT SwitchesAgree
INVARIANT PauseSurvives
INVARIANT SplitIsBest
INVARIANT AccountIsRead
INVARIANT TradesUnderControl
INVARIANT ReportsAreTrue
INVARIANT SyncIsWhole
INVARIANT ProfitIsReal
PROPERTY ReachesBook
CHECK_DEADLOCK FALSE
