SPECIFICATION EndlessSpec
CONSTANTS
    Senders = {s1}
    Submitters = {t1}
    AbortOps = {a1}
    MaxRuns = 2
    AbortMayFail = TRUE
    Free = Free
    Janitor = Janitor
    None = None
INVARIANTS
    ReservationIsolated
    DeadlineExact
PROPERTIES
    CancelNotLost
    ServiceSpec
    RunsEnd
CHECK_DEADLOCK FALSE
