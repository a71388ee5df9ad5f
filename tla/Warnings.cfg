SPECIFICATION Spec
CONSTANTS
    Warnings = {w1}
    Admins = {h1, h2}
    Managers = {}
    Employee = staff
    Facts = {f1}
    Texts = {t1, t2}
    NoText = NoText
    Files = {a1}
    MaxInFlight = 2
SYMMETRY Symmetry
INVARIANTS TypeOK NothingUnissuedCounts 
PROPERTY IssuedCasesStand
CHECK_DEADLOCK FALSE
