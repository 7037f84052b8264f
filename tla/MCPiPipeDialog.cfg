SPECIFICATION FairSpec
CONSTANTS
    Calls = {c1,c2}
    Subs = {s1}
    MaxEvents = 1
    MaxDialogs = 1
    Room = 1
    MayMisbehave = FALSE
    ReadsWhileBlocked = FALSE
    None = None
PROPERTIES
    DialogsAnswered
CHECK_DEADLOCK FALSE
