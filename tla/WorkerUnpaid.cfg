SPECIFICATION Spec
CONSTANTS
    N = 2
    Interval = 2
    Concurrency = 2
    MaxAttempts = 2
    MaxStalls = 1
    CalcMayFail = TRUE
    MaxFaults = 0
    MaxCrashes = 0
    MaxRequests = 0
    MaxTrouble = 0
INVARIANT CompletedMeansPaid
CHECK_DEADLOCK FALSE
