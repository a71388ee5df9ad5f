SPECIFICATION Spec
CONSTANTS
    NumPoints = 2
    Clients = {c1, c2}
    WindowEnd = 1
    LastTick = 2
    Intervals = {1}
    Minima = {1}
    MaxScans = 2
    MaxEdits = 3
    MaxFaults = 1
INVARIANTS RoundsAreWalked VerdictsFit
PROPERTIES ExpiredSessionIsClosed
CHECK_DEADLOCK FALSE
