SPECIFICATION Spec
CONSTANTS
    Clients = {e1, e2}
    Staff = {h1}
    Cron = cron
    DayLength = 3
    LastTick = 4
    MonthEnd = 0
    PeriodEnd = 1
    Shifts <- MCShifts
    NoShift = NoShift
    Offices = {o1}
    Configs <- MCConfigs
    Unset = Unset
    Weekend = {1}
    Times = {2, 4}
    MaxCalls = 2
INVARIANTS TypeOK HoursMatchTimes AbsentOncePerShift SnapshotsAddUp
PROPERTIES NoShowIsRecorded
CHECK_DEADLOCK FALSE
