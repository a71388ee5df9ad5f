SPECIFICATION PeriodFairSpec
CONSTANTS
    Clients = {c1}
    Runs = {r1, r2}
    Checker = checker
    Closer = closer
    MaxFailures = 1
INVARIANT PeriodTypeOK
PROPERTIES ClosedIsFinal PeriodCatchesUp EligiblePeriodCloses
CHECK_DEADLOCK FALSE
