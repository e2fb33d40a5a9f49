SPECIFICATION OperationsSpec
CONSTANTS
    p1 = p1
    p2 = p2
    b0 = b0
    y = y
    w = w
    v = v
    Proc = {p1, p2}
    Release <- RetainedRelease
    RequestId <- ChainIds
    Request <- ChainRequests
    Initial = b0
    MaxCrashes = 0
    CrashPlaces = {}
    FsyncMayFail = FALSE
    NoProc = NoProc
    NoRelease = NoRelease
    NoRequest = NoRequest
    Retention = Retention
    MinimumReleases = 2
    MaxPasses = 1
    e1 = e1
    e2 = e2
    Appender = {p1, p2}
    Event = {e1, e2}
    MaxJournalCrashes = 2
    HostMayCrash = TRUE
    NoAppender = NoAppender
    NoEvent = NoEvent
    Deployments <- TwoApplications
    Bundle <- Migrations
    MaxRuns = 3
    MaxKills = 2
    r1 = r1
    r2 = r2
    r3 = r3
    Reviews = {r1, r2, r3}
    IssueOf <- Issues
    MadeFor <- MadeForNone
    BuildLimit = 1
    MaxRetries = 1
    MaxDaily = 1
    MaxFaults = 1
SYMMETRY OperationsSymmetry
CHECK_DEADLOCK FALSE
INVARIANTS UndoneIsThere ChainIntact AppliedAsApproved
PROPERTIES AckedStays EndsAsAWhole
