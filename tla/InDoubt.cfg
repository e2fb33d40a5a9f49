SPECIFICATION FairPubSpec
CONSTANTS
    p1 = p1
    p2 = p2
    b0 = b0
    y = y
    z = z
    w = w
    Proc = {p1, p2}
    Release <- MCRelease
    RequestId <- MCRequestId
    Request <- ChainRequest
    Initial = b0
    MaxCrashes = 1
    CrashPlaces <- Place
    FsyncMayFail = TRUE
    MaxFaults = 1
    RunnerMayDie = FALSE
    NoProc = NoProc
    NoRelease = NoRelease
    NoRequest = NoRequest
PROPERTIES InDoubtResolves
CHECK_DEADLOCK FALSE
