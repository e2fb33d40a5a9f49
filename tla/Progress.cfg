SPECIFICATION ProgressSpec
CONSTANTS
    b0 = b0
    x = x
    y = y
    z = z
    Release <- FourReleases
    Candidate <- Candidates
    Initial = b0
    MaxFaults = 3
    FaultPlaces <- Place
    NoRelease = NoRelease
    NoCandidate = NoCandidate
    d1 = d1
    d2 = d2
    s1 = s1
    s2 = s2
    h = h
    w1 = w1
CHECK_DEADLOCK FALSE
INVARIANTS PointersComplete OneAccountsForProduction RolledBackStaysDown
PROPERTIES SucceededStays ImplementsPair ConvergesUnlessTorn QueueDrains
