SPECIFICATION Spec
CONSTANTS
    Senders = {s1}
    Submitters = {t1}
    AbortOps = {a1}
    MaxRuns = 2
    AbortMayFail = FALSE
    Free = Free
    Janitor = Janitor
    None = None
PROPERTIES
    DeadlineOutlivesRevocation
CHECK_DEADLOCK FALSE
