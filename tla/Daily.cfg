SPECIFICATION DailySpec
CONSTANTS
    b1 = b1
    b2 = b2
    l1 = l1
    l2 = l2
    Builders = {b1, b2}
    Materials = {1, 2, 3, 4, 5}
    Start <- StartCards
    Contents <- FiveContents
    Assets = {{1}, {1, 2}}
    CandidateNames <- ThreeNames
    MaxComposed = 2
    Launchers = {l1, l2}
    Dates = {1, 2}
    NotBefore = 1
    LookbackDays = 2
    Legacy <- TwoVersions
    MaxByHand = 1
    MaxDeaths = 1
    MaxAttempts = 2
    MaxWrites = 1
    MaxRestarts = 1
SYMMETRY DailySymmetry
INVARIANTS SameRows OneOfEach AsDesired
PROPERTIES SameInput IssuesStand
CHECK_DEADLOCK FALSE
