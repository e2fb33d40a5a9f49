SPECIFICATION KnowledgeSpec
CONSTANTS
    c1 = c1
    c2 = c2
    c3 = c3
    c4 = c4
    c5 = c5
    glm = glm
    mini = mini
    odd = odd
    NoModel = NoModel
    Calls = {c1, c2, c3, c4, c5}
    Allowed = {glm, mini}
    Fallback <- TwoModels
    Asked <- AskedModel
    Pinned = {c2}
    Oversize = {c3}
    ToolProbes = {c5}
    BusyRetries = 1
    ChainRounds = 2
    Ceiling = 1
    f1 = f1
    f2 = f2
    p1 = p1
    p2 = p2
    Fragments = {f1, f2}
    Document <- OneEach
    Passes = {p1, p2}
    Commands <- StartedAs
    Budget = 6
    CallRows = 1
    PromotionFloor = 1
    FailedBefore = {f1}
    Stale = {2}
    MaxClaims = 2
    MaxDecisions = 1
    Nothing = Nothing
    Readers = {r1}
    PerClient = 1
    Subscriber = 2
    KeyCeiling = 1
    WindowLength = 2
    KeptFor = 1
    EpochLength = 9
    DayLength = 2
    MaxClock = 2
    MaxRevision = 1
    MaxKeyChanges = 1
    MaxLost = 1
    Unset = Unset
CHECK_DEADLOCK FALSE
INVARIANTS LedgerCovers PlacedOrGap PromotionStands RevocationLands AnswerIsKept
