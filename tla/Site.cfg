SPECIFICATION SiteSpec
CONSTANTS
    a = a
    b = b
    c = c
    t1 = t1
    t2 = t2
    Release <- ThreeReleases
    Initial = a
    Moves <- Activations
    MaxMoves = 4
    Thread = {t1, t2}
    NoRelease = NoRelease
    NoThread = NoThread
    d1 = d1
    d2 = d2
    d3 = d3
    Dates = {d1, d2, d3}
    Present = {d2, d3}
    Latest = d3
    Yesterday = d2
    Queries = {none, q}
    NoQuery = none
    FirstAddress <- AbsentDate
    Delays = 1
    MaxReloads = 3
    MaxSteps = 3
    Root = Root
    Nothing = Nothing
    Claims = {c1, c2}
    Foreign = {c1}
    Statements = {s1}
    Since <- ImportedFirst
    Ideas = {i1}
    Operators = {o1, o2}
    MaxImports = 1
    MaxChanges = 2
    MaxBuilds = 2
    MaxSwitches = 3
    k1 = k1
    k2 = k2
    u1 = u1
    u2 = u2
    h = h
    Docs = {k1, k2}
    Perimeter = {k1}
    Host <- OneHost
    Parse <- Pages
    Workers = {w1}
    Slots = {u1, u2}
    MaxAttempts = 1
    PerHost = 1
    MaxRung = 1
    MaxEdition = 2
    MaxTime <- Downloads
    MaxFaults = 1
    MaxCommands = 1
SYMMETRY SiteSymmetry
CHECK_DEADLOCK FALSE
INVARIANTS ShowsTheChoice EventsTellActive SucceededHasText
PROPERTIES AnswerCurrent
