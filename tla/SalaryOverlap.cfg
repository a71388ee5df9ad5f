SPECIFICATION Spec
CONSTANTS
    NumStructures = 3
    Types = {}
    Bases = {b1}
    MaxDay = 4
    Clients = {c1}
    MaxRequests = 3
PROPERTIES CreateKeepsApart
CHECK_DEADLOCK FALSE
