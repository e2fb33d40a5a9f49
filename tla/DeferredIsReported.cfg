SPECIFICATION PipelineSpec
CONSTANTS
    s1 = s1
    s2 = s2
    s3 = s3
    a1 = a1
    a2 = a2
    Dates <- ThreeDates
    Today = 4
    Large = {}
    Batches = 1
    MaxCalls = 1
    MaxPasses = 1
    MaxReports = 1
    MaxCorrections = 0
    MaxFaults = 0
    Stories = {s1, s2, s3}
    ManualStories = {}
    LastDay = 3
    Limit = 2
    LowYield = 1
    MaxStarts = 1
    MaxAborts = 0
    Articles = {a1}
    LastNight = 1
    LlmReady = FALSE
    MaxMaterials = 1
    MaxTries = 1
    MaxDeaths = 0
INVARIANTS DeferredIsReported
CHECK_DEADLOCK FALSE
