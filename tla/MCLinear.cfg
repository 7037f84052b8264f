SPECIFICATION FairSpec
CONSTANTS
    Created = {c1}
    FollowUps = {f1}
    Stops = {s1}
    Loops = {l1, l2}
    None = None
    MaxCrashes = 1
    MayShutDown = TRUE
    StoreMayFail = TRUE
    OtherClients = TRUE
INVARIANTS
    PromptAccounted
    RunsExclusive
PROPERTIES
    CutShortReported
    PromptServed
    StopAnswered
CHECK_DEADLOCK FALSE
