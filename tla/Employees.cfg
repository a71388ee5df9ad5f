SPECIFICATION Spec
CONSTANTS
    Addresses = {a1, a2}
    None = None
    Statuses = {"ACTIVE", "PROBATION"}
    NumInvitations = 2
    Clients = {c1, c2}
    MaxRequests = 4
INVARIANTS TypeOK ManagerHasRole PromisesKept
SYMMETRY Symmetry
CHECK_DEADLOCK FALSE
