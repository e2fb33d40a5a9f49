SPECIFICATION PipelineSpec
CONSTANTS
    s1 = s1
    s2 = s2
    s3 = s3
    a1 = a1
    a2 = a2
    Dates <- ThreeDates
    Today = 4
    Large <- FirstDate
    Batches = 2
    MaxCalls = 1
    MaxPasses = 2
    MaxReports = 2
    MaxCorrections = 1
    MaxFaults = 1
    Stories = {s1, s2, s3}
    ManualStories = {s1}
    LastDay = 3
    Limit = 1
    LowYield = 0
    MaxStarts = 1
    MaxAborts = 1
    Articles = {a1, a2}
    LastNight = 2
    LlmReady = FALSE
    MaxMaterials = 2
    MaxTries = 2
    MaxDeaths = 1
INVARIANTS ReceiptStands PromiseKept FrontIsAccounted
PROPERTIES ObservedInTheEnd AnalysisStays
CHECK_DEADLOCK FALSE
