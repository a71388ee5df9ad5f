SPECIFICATION Spec
CONSTANTS
    N = 2
    Interval = 2
    Concurrency = 2
    MaxAttempts = 2
    MaxStalls = 1
    CalcMayFail = FALSE
    MaxFaults = 2
    MaxCrashes = 1
    MaxRequests = 1
    MaxTrouble = 2
INVARIANTS TypeOK WholeUnlessLowered DuplicatesNeedRequests ProgressBacked
CHECK_DEADLOCK FALSE
