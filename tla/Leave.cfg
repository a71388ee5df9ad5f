CONSTANTS
    Requests = {r1, r2}
    Unpooled = {}
    NoRequest = NoRequest
    Clients = {e1, e2}
    Staff = {s1, s2}
    LastDay = 2
    LastYear = 2
    Tier <- LeaveTier
    Policies <- LeavePolicies
    CarryoverType = "LIMITED"
    MaxCarryover = 1
    MaxAccrued = 1
    PerPeriod = 1
    Adjustments = {1}
    MaxAdjusted = 1
    MaxCalls = 3
SPECIFICATION Spec
SYMMETRY LeaveSymmetry
INVARIANTS TypeOK LedgerBalanced AwayOnce
PROPERTIES SettledStaysSettled BookingWithinBalance ReallocationKeepsFloor NothingCarriedTwice
