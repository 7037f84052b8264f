SPECIFICATION PartsSpec
CONSTANTS
    Pickers = {q1, q2, q3}
    Stoppers = {q1, q2}
    Calls = {c1}
    Subs = {s1}
    MaxEvents = 2
    MaxDialogs = 1
    Room = 1
    MayMisbehave = TRUE
    ReadsWhileBlocked = TRUE
    None = None
PROPERTIES
    CatalogServed
    BridgeNeverLeaks
    ProgramsHeld
    CallsReturn
    EventsDelivered
    StopEnds
CHECK_DEADLOCK FALSE
