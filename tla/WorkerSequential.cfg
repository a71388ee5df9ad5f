SPECIFICATION FairSpec
CONSTANTS
    N = 3
    Interval = 2
    Concurrency = 1
    MaxAttempts = 3
    MaxStalls = 1
    CalcMayFail = TRUE
    MaxFaults = 0
    MaxCrashes = 0
    MaxRequests = 0
    MaxTrouble = 0
PROPERTIES RunSettles ImplementsLifecycle
CHECK_DEADLOCK FALSE
