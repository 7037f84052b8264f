SPECIFICATION PartsSpec
CONSTANTS
    Posters = {p1, p2}
    Callbacks = {b1, b2}
    States = {s1, s2}
    MaxTokens = 4
    NoOne = NoOne
    Deliveries = {d1, d2}
    Anonymous = {d2}
    MaxSkew = 1
    DeliveryTTL = 3
    ResendFor = 1
    MaxTime = 6
    Ids = {i1, i2}
    MaxProcs = 3
    MaxModTime = 2
    SessionIds = {x1}
    Text = {t}
    Unset = Unset
    Gone = Gone
    MaxEntries = 2
    Agents = {a1}
    Words = {w, k}
    KeyWord = k
    NotSet = NotSet
    MaxMessages = 3
    Calls = {c1, c2}
    Subs = {e1}
    MaxEvents = 2
    MaxDialogs = 0
    Room = 1
    MayMisbehave = TRUE
    ReadsWhileBlocked = TRUE
    None = None
INVARIANTS
    EventsInOrder
    CallsCorrelated
    UsedOnce
    InstallKept
    DispatchedOnce
    ListComplete
    AnswersWellFormed
    PromptDeliveredOnce
    TranscriptExact
    CursorAnswerTrue
CHECK_DEADLOCK FALSE
