SPECIFICATION Spec
CONSTANTS
    p1 = p1
    p2 = p2
    b0 = b0
    y = y
    w = w
    Proc = {p1, p2}
    Release <- MCRelease
    RequestId <- MCRequestId
    Request <- RaceRequest
    Initial = b0
    MaxCrashes = 0
    CrashPlaces <- Place
    FsyncMayFail = TRUE
    NoProc = NoProc
    NoRelease = NoRelease
    NoRequest = NoRequest
SYMMETRY Symmetry
PROPERTIES ErrorAfterActivationRestores
CHECK_DEADLOCK FALSE
