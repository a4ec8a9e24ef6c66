SPECIFICATION Spec
CONSTANTS
    t1 = t1
    t2 = t2
    e1 = e1
    p1 = p1
    p2 = p2
    None = None
    Requests = {t1, e1}
    Role <- Roled
    Thread <- OneClockThread
CHECK_DEADLOCK FALSE
INVARIANT CompletionReported
