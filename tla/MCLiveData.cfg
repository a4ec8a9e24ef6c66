SPECIFICATION PartsSpec
CONSTANTS
    t1 = t1
    t2 = t2
    e1 = e1
    p1 = p1
    p2 = p2
    None = None
    Requests = {t1, t2, e1, p1}
    Role <- Roled
    Thread <- OneClockThread
    Changes = 2
    FlatAt = {1}
    OpenDays = 3
    OpenRestarts = 2
    WindowDays = 2
    Lags = {0, 1}
    Now = 5
    Prices = {1, 2}
    Volumes <- SomeVolumes
    Window = 2
    Threshold = 1
    Maximum = 2
    Orders = {"b", "s"}
    Starts = 2
    Procs = {"p", "q"}
    Ids = {"a", "b"}
    Restarts = 1
    SnapshotDays = 4
    Parts = {"fetch", "recon", "open", "window", "trend", "records", "export", "snaps"}
INVARIANT TypesOK
INVARIANT Heard
INVARIANT AnswerHeard
INVARIANT FullTickOpenStays
INVARIANT CycleOnlyWhenOpen
INVARIANT TrendIsOfWindow
INVARIANT SuccessMeansStored
INVARIANT ExportIsWhole
INVARIANT SpanStartIsEntry
CHECK_DEADLOCK FALSE
SYMMETRY Interchangeable
