SPECIFICATION PubSpec
CONSTANTS
    p1 = p1
    p2 = p2
    b0 = b0
    y = y
    z = z
    w = w
    Proc = {p1, p2}
    Release <- MCRelease
    RequestId <- MCRequestId
    Request <- MCRequest
    Initial = b0
    MaxCrashes = 2
    CrashPlaces <- Place
    FsyncMayFail = TRUE
    MaxFaults = 2
    RunnerMayDie = TRUE
    NoProc = NoProc
    NoRelease = NoRelease
    NoRequest = NoRequest
SYMMETRY Symmetry
INVARIANTS SourceFollowsProduction
PROPERTIES BuildsOnProven ReportedStays
CHECK_DEADLOCK FALSE
