SPECIFICATION MCSpec
CONSTANTS
    NumRows = 2
    NumEmails = 2
    MaxInFlight = 2
    UseQueue = TRUE
    MaxAttempts = 2
    MaxStalls = 1
    MaxRequests = 3
    MaxFaults = 1
    MaxCrashes = 1
INVARIANTS OneEachPerAddress RowsTellTheTruth AllocationsAreWhole CompletedIsWhole
PROPERTIES QueuedBatchEnds
CHECK_DEADLOCK FALSE
