SPECIFICATION Spec
CONSTANTS
    Created = {c1}
    FollowUps = {}
    Stops = {s1}
    Loops = {l1}
    None = None
    MaxCrashes = 0
    MayShutDown = FALSE
    StoreMayFail = FALSE
    OtherClients = FALSE
INVARIANT
    SilentAfterStop
CHECK_DEADLOCK FALSE
