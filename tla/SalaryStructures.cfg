SPECIFICATION Spec
CONSTANTS
    NumStructures = 2
    Types = {t1}
    Bases = {b1, b2}
    MaxDay = 1
    Clients = {c1, c2}
    MaxRequests = 3
INVARIANTS OneInForceIfKept GrossMatchesLines
SYMMETRY Symmetry
CHECK_DEADLOCK FALSE
