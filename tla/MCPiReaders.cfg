SPECIFICATION ReadersSpec
CONSTANTS
    Senders = {s1}
    Submitters = {t1}
    AbortOps = {}
    MaxRuns = 2
    AbortMayFail = FALSE
    Free = Free
    Janitor = Janitor
    None = None
    Listers = {l1}
    Pollers = {p1}
    MaxEntries = 2
CONSTRAINT OneRequest
PROPERTIES
    NotRunningMeansComplete
    TurnReportsEndedRun
CHECK_DEADLOCK FALSE
