SPECIFICATION FairSpec
CONSTANTS
    Agents = {a1}
    Reqs = {r1, r2}
    MaxSessions = 1
    Free = Free
    Janitor = Janitor
    None = None
INVARIANTS
    StartsAccounted
    SlotExclusive
    BridgesOwned
PROPERTIES
    SendsEnd
    StopEndsBridges
CHECK_DEADLOCK FALSE
