SPECIFICATION Spec
CONSTANTS
    Ids = {i1}
    Procs = {p1, p2}
    Attachers = {r1}
    Creators = {}
    Deleters = {d1}
    Purgers = {g1}
    MaxSessions = 2
    None = None
INVARIANTS
    StopLeavesNone
CHECK_DEADLOCK FALSE
