SPECIFICATION FairSpec
CONSTANTS
    Ids = {i1}
    Procs = {p1, p2}
    Attachers = {r1}
    Creators = {c1, c2}
    Deleters = {}
    Purgers = {u1}
    MaxSessions = 2
    None = None
INVARIANTS
    CapacityKept
    ServedByOne
PROPERTIES
    ProcessesOwned
    WaitersWake
    StopEndsProcesses
CHECK_DEADLOCK FALSE
