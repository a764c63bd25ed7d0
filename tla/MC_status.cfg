SPECIFICATION FairSpec
CONSTANTS
    Timeout = 1
    Specs <- SomeSpecs
    AlertLists <- SomeAlerts
    MaxFaultBlockedAttempts = 2
    MaxInstances = 2
    RunLists <- SomeRuns
    MaxEvents = 1
    MaxFaults = 1
INVARIANT WatchedProgressIsClean
PROPERTY TimeoutMeansStuck
PROPERTY NoUnfitHost
PROPERTY StuckIsReported
PROPERTY HealthTold
