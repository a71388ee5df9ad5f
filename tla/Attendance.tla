----------------------------- MODULE Attendance -----------------------------
(***************************************************************************)
(* One employee's attendance: clock-ins and clock-outs of the employee and *)
(* of staff, the job that marks no-shows (automations/absent.automation.js)*)
(* excused absences, and the frozen statistics of a month and of a closed  *)
(* pay period (services/employee-attendance-stats.service.js).             *)
(*                                                                         *)
(* Every handler reads first and writes later, by id or by a new row; no   *)
(* unique key backs the reads.  Time is in ticks of DayLength to the day;  *)
(* the server, the tenant and UTC share one midnight.  A tick is longer    *)
(* than the grace period and the 15 minutes of an early arrival.           *)
(***************************************************************************)
EXTENDS Integers, Sequences, FiniteSets

CONSTANTS
    Clients,        \* requests of the employee that may be in flight at once
    Staff,          \* requests of HR that may be in flight at once
    Cron,           \* the monthly snapshot job, a caller of its own
    DayLength,      \* ticks in a day
    LastTick,       \* bound on the clock: ticks are 0..LastTick
    MonthEnd,       \* last day of the month that the snapshot job looks at
    PeriodEnd,      \* last day of the pay period
    Shifts,         \* shifts, as ticks of the day: [start, end]
    NoShift,        \* stands for no shift
    Offices,        \* locations the tenant may configure
    Configs,        \* working days an employee or a company may be given
    Unset,          \* stands for no working-day configuration
    Weekend,        \* tenant.weekendDays
    Times,          \* times HR may type in
    MaxCalls        \* bound on the handlers started, the monthly job's left out

Callers == Clients \cup Staff \cup {Cron}
Day(t) == t \div DayLength
Ticks == 0..LastTick
Days == 0..Day(LastTick)
NoTime == -1
NoHours == -(LastTick + 2)

ASSUME AttendanceAssumption ==
    /\ Clients \cap Staff = {} /\ Cron \notin Clients \cup Staff
    /\ DayLength \in Nat \ {0} /\ {LastTick, MaxCalls} \subseteq Nat
    /\ {MonthEnd, PeriodEnd} \subseteq Days
    /\ Shifts \subseteq [start : 0..(DayLength - 1), end : 0..(DayLength - 1)]
    /\ NoShift \notin Shifts
    /\ Configs \subseteq SUBSET Days /\ Unset \notin Configs
    /\ Weekend \subseteq Days /\ Times \subseteq Ticks

VARIABLES
    now,        \* the clock
    shift,      \* the employee's shift
    own,        \* EmployeeWorkConfig: the employee's working days
    company,    \* CompanyWorkDay: the tenant's working days
    holidays,   \* active Holiday rows
    offices,    \* active Location rows
    early,      \* tenant.earlyClockInMinutes, in ticks
    rows,       \* the Attendance rows, in order of creation
    excused,    \* dates of the active AttendanceException rows
    closed,     \* the pay period is CLOSED
    snapshot,   \* the snapshot rows of the month and of the period
    call,       \* what each caller's handler in flight read, and does next
    calls,      \* handlers started so far
    job,        \* the absent job
    torn        \* history: rows written from a reading that was stale

setup == <<shift, own, company, holidays, offices, early>>
vars == <<now, setup, rows, excused, closed, snapshot, call, calls, job, torn>>

-----------------------------------------------------------------------------
(* Time and shifts                                                         *)

TimeOfDay(t) == t % DayLength
At(d, s) == d * DayLength + s

Crosses(s) == s.end < s.start

ShiftEnded(s, t) ==
    /\ TimeOfDay(t) >= s.end
    /\ Crosses(s) => TimeOfDay(t) < s.start

\* getShiftAttendanceWindow: from and to, as the job sees them at t.
Window(s, t) ==
    IF Crosses(s) THEN [from |-> At(Day(t) - 1, s.start), to |-> At(Day(t), s.end)]
                  ELSE [from |-> At(Day(t), 0), to |-> t]

Within(t, w) == w.from <= t /\ t <= w.to

\* determineAttendanceStatus; a missing clock-in is read as midnight of the epoch.
AttendanceStatus(in, s) ==
    LET late == (IF in = NoTime THEN 0 ELSE TimeOfDay(in)) - s.start
    IN  IF late < 0 THEN "EARLY" ELSE IF late = 0 THEN "ON_TIME" ELSE "LATE"

AdminStatus(in) == IF shift = NoShift THEN "ON_TIME" ELSE AttendanceStatus(in, shift)

\* Mutant: the hours are counted from the start of the shift.
HoursFromShiftStart(in, out) ==
    IF in = NoTime \/ out = NoTime \/ shift = NoShift
    THEN NoHours ELSE out - At(Day(out), shift.start)

\* calculateHours
Hours(in, out) == IF in = NoTime \/ out = NoTime \/ shift = NoShift
                  THEN NoHours ELSE out - in

\* The administrator's handlers count the hours themselves when there is no shift.
AdminHours(in, out) ==
    IF out = NoTime THEN NoHours
    ELSE IF shift # NoShift THEN Hours(in, out)
    ELSE out - (IF in = NoTime THEN 0 ELSE in)

-----------------------------------------------------------------------------
(* Rows and calls                                                          *)

NoRow == [in |-> NoTime, out |-> NoTime, status |-> "ABSENT", hours |-> NoHours,
          made |-> NoTime, win |-> NoTime]
AllTimes == {"in", "out", "status", "hours"}

OnDay(d) == {i \in DOMAIN rows : rows[i].in # NoTime /\ Day(rows[i].in) = d}
Today == OnDay(Day(now))
Latest(S) == {i \in S : \A j \in S : rows[j].in <= rows[i].in}
Earliest(S) == {i \in S : \A j \in S : rows[i].in <= rows[j].in}

NoStats == [expected |-> -1, excused |-> 0, present |-> 0, late |-> 0, absent |-> 0]
Kinds == {"month", "period"}

\* row: the row to write, 0 to insert one; new: what it is to hold in fields.
Idle == [pc |-> "idle", row |-> 0, seen |-> NoRow, fields |-> {}, new |-> NoRow,
         clears |-> FALSE, kind |-> "month", stats |-> NoStats]

NoJob(pc) == [pc |-> pc, shift |-> NoShift, found |-> FALSE]

Init ==
    /\ now = 0
    /\ shift \in Shifts /\ own = Unset /\ company \in Configs
    /\ holidays = {} /\ offices = Offices /\ early = 1
    /\ rows = <<>> /\ excused = {}
    /\ closed = FALSE
    /\ snapshot = [k \in Kinds |-> NoStats]
    /\ call = [c \in Callers |-> Idle] /\ calls = 0
    /\ job = NoJob("due")
    /\ torn = {}

MayStart(c) == call[c].pc = "idle" /\ (c # Cron => calls < MaxCalls)

Starts(c, k) ==
    /\ MayStart(c)
    /\ call' = [call EXCEPT ![c] = k]
    /\ calls' = IF c = Cron THEN calls ELSE calls + 1
    /\ UNCHANGED <<now, setup, rows, excused, closed, snapshot, job, torn>>

Ends(c) == call' = [call EXCEPT ![c] = Idle]

Inserting(row, clears) ==
    [Idle EXCEPT !.pc = "write", !.new = row, !.clears = clears]

Updating(i, fields, row, clears) ==
    [Inserting(row, clears) EXCEPT !.row = i, !.seen = rows[i], !.fields = fields]

Clocked(in, out, status, hours) ==
    [NoRow EXCEPT !.in = in, !.out = out, !.status = status, !.hours = hours]

-----------------------------------------------------------------------------
(* The employee                                                            *)

\* assertCanClockInToday
CanClockInToday == Today = {}

\* ClockInWindow
InClockInWindow == TimeOfDay(now) >= shift.start - early

\* Without a shift the handlers fail before they write.
ClockIn(c) ==
    /\ shift # NoShift /\ CanClockInToday /\ offices # {} /\ InClockInWindow
    /\ Starts(c, Inserting(Clocked(now, NoTime, AttendanceStatus(now, shift), NoHours), TRUE))

ClockInGPS(c) == ClockIn(c)
ClockInWiFi(c) == ClockIn(c)
ClockInQRCode(c) == ClockIn(c)

ClockOut(c) ==
    /\ offices # {}
    /\ \E i \in Latest(Today) :
          Starts(c, Updating(i, {"out", "hours"},
              Clocked(NoTime, now, "ON_TIME", Hours(rows[i].in, now)), FALSE))

ClockOutGPS(c) == ClockOut(c)
ClockOutWiFi(c) == ClockOut(c)
ClockOutQRCode(c) == ClockOut(c)

-----------------------------------------------------------------------------
(* Staff                                                                   *)

AdminClockInToday(c) ==
    /\ Today = {}
    /\ \E t \in Times : Starts(c, Inserting(Clocked(t, NoTime, AdminStatus(t), NoHours), TRUE))

\* The manual clock-outs; a missing clock-in is before every time.
AdminClocksOut(c, i, t) ==
    /\ rows[i].out = NoTime /\ rows[i].in < t
    /\ Starts(c, Updating(i, {"out", "hours"},
           Clocked(NoTime, t, "ON_TIME", AdminHours(rows[i].in, t)), FALSE))

AdminClockOutToday(c) ==
    \E i \in Earliest(Today), t \in Times : AdminClocksOut(c, i, t)

ManualClockOut(c) == \E i \in DOMAIN rows, t \in Times : AdminClocksOut(c, i, t)

CreateAttendance(c) ==
    /\ MayStart(c)
    /\ \E d \in Days, in \in Times, out \in Times \cup {NoTime} :
          LET row == Clocked(in, out, AdminStatus(in), AdminHours(in, out))
          IN  /\ out # NoTime => in < out
              /\ IF OnDay(d) = {} THEN Starts(c, Inserting(row, TRUE))
                 ELSE \E i \in Earliest(OnDay(d)) : Starts(c, Updating(i, AllTimes, row, TRUE))

\* Mutant: the status is left as it was.
AdminUpdateKeepsStatus(c) ==
    \E i \in DOMAIN rows, in \in Times, out \in Times \cup {NoTime} :
       /\ out # NoTime => in < out
       /\ Starts(c, Updating(i, AllTimes, Clocked(in, out, rows[i].status, AdminHours(in, out)), FALSE))

\* Everything is written back, what was only read included.
AdminUpdateAttendanceRecord(c) ==
    /\ MayStart(c)
    /\ \E i \in DOMAIN rows, given \in SUBSET {"in", "out"},
          t \in Times, u \in Times \cup {NoTime} :
          LET in  == IF "in" \in given THEN t ELSE rows[i].in
              out == IF "out" \in given THEN u ELSE rows[i].out
              row == IF given = {} THEN rows[i]
                     ELSE Clocked(in, out, AdminStatus(in), AdminHours(in, out))
          IN  /\ out # NoTime => in < out
              /\ Starts(c, Updating(i, AllTimes, row, in # NoTime /\ row.status # "ABSENT"))

MarkExcusedAbsenceToday(c) ==
    /\ \A t \in excused : Day(t) # Day(now)
    /\ Starts(c, [Idle EXCEPT !.pc = "excuse", !.new.in = now])

\* The settings: each is one write of one column set.
Edits(c) ==
    /\ MayStart(c) /\ calls' = calls + 1
    /\ UNCHANGED <<now, rows, excused, snapshot, call, job, torn>>

CreateOrUpdateEmployeeWorkConfig(c) ==
    /\ Edits(c) /\ \E days \in Configs : own' = days
    /\ UNCHANGED <<shift, company, holidays, offices, early, closed>>

CreateOrUpdateCompanyWorkDay(c) ==
    /\ Edits(c) /\ \E days \in Configs : company' = days
    /\ UNCHANGED <<shift, own, holidays, offices, early, closed>>

UpdateTenantAttendanceSettings(c) ==
    /\ Edits(c) /\ early' = 1 - early
    /\ UNCHANGED <<shift, own, company, holidays, offices, closed>>

CreateTenantLocation(c) ==
    /\ Edits(c) /\ \E o \in Offices : offices' = offices \cup {o}
    /\ UNCHANGED <<shift, own, company, holidays, early, closed>>

UpdateTenantLocation(c) ==
    /\ Edits(c) /\ \E o \in Offices : offices' \in {offices \cup {o}, offices \ {o}}
    /\ UNCHANGED <<shift, own, company, holidays, early, closed>>

DeleteTenantLocation(c) ==
    /\ Edits(c) /\ \E o \in offices : offices' = offices \ {o}
    /\ UNCHANGED <<shift, own, company, holidays, early, closed>>

CreateHoliday(c) ==
    /\ Edits(c) /\ \E d \in Days \ holidays : holidays' = holidays \cup {d}
    /\ UNCHANGED <<shift, own, company, offices, early, closed>>

BulkCreateHolidays(c) ==
    /\ Edits(c) /\ \E D \in SUBSET Days \ {{}} : holidays' = holidays \cup D
    /\ UNCHANGED <<shift, own, company, offices, early, closed>>

UpdateHoliday(c) ==
    /\ Edits(c)
    /\ \E d \in holidays, e \in Days : holidays' \in {(holidays \ {d}) \cup {e}, holidays \ {d}}
    /\ UNCHANGED <<shift, own, company, offices, early, closed>>

DeleteHoliday(c) ==
    /\ Edits(c) /\ \E d \in holidays : holidays' = holidays \ {d}
    /\ UNCHANGED <<shift, own, company, offices, early, closed>>

\* The employee is given another shift, or the shift another time.
UpdateShift(c) ==
    /\ Edits(c) /\ \E s \in Shifts \cup {NoShift} : shift' = s
    /\ UNCHANGED <<own, company, holidays, offices, early, closed>>

\* A period may be closed before its last day.
ClosePeriod(c) ==
    /\ Edits(c) /\ ~closed /\ closed' = TRUE
    /\ UNCHANGED setup

-----------------------------------------------------------------------------
(* The writes of the handlers                                              *)

WriteRow(c) ==
    LET k == call[c]
        made == [k.new EXCEPT !.made = now]
        changed == [f \in DOMAIN NoRow |-> IF f \in k.fields THEN k.new[f] ELSE rows[k.row][f]]
    IN  /\ k.pc = "write"
        /\ IF k.row = 0
           THEN rows' = Append(rows, made) /\ UNCHANGED torn
           ELSE /\ rows' = [rows EXCEPT ![k.row] = changed]
                /\ torn' = IF rows[k.row] # k.seen THEN torn \cup {k.row} ELSE torn
        /\ IF k.clears THEN call' = [call EXCEPT ![c].pc = "clear"] ELSE Ends(c)
        /\ UNCHANGED <<now, setup, excused, closed, snapshot, calls, job>>

\* autoClearExcusedAbsenceForDate
AutoClearExcusedAbsence(c) ==
    /\ call[c].pc = "clear"
    /\ excused' = {t \in excused : Day(t) # Day(call[c].new.in)}
    /\ Ends(c)
    /\ UNCHANGED <<now, setup, rows, closed, snapshot, calls, job, torn>>

CreateException(c) ==
    /\ call[c].pc = "excuse"
    /\ excused' = excused \cup {call[c].new.in}
    /\ Ends(c)
    /\ UNCHANGED <<now, setup, rows, closed, snapshot, calls, job, torn>>

-----------------------------------------------------------------------------
(* Statistics                                                              *)

IsConfiguredWorkday(d) ==
    IF own # Unset THEN d \in own ELSE IF company # Unset THEN d \in company
    ELSE d \notin Weekend

Statuses(d) == {rows[i].status : i \in OnDay(d)}
ExcusedDays == {Day(t) : t \in excused}

\* Mutant: a day that is excused and worked counts as both.
StatsCountExcusedTwice(range) ==
    LET expected == {d \in range : IsConfiguredWorkday(d) /\ d \notin holidays}
        absent   == {d \in expected \ ExcusedDays : Statuses(d) = {} \/ "ABSENT" \in Statuses(d)}
        late     == {d \in expected : "LATE" \in Statuses(d)}
    IN  [expected |-> Cardinality(expected),
         excused  |-> Cardinality(expected \cap ExcusedDays),
         present  |-> Cardinality({d \in expected \ late : Statuses(d) # {}}),
         late     |-> Cardinality(late),
         absent   |-> Cardinality(absent)]

\* computeLiveEmployeeAttendanceStats over the days of range
Stats(range) ==
    LET expected == {d \in range : IsConfiguredWorkday(d) /\ d \notin holidays}
        judged   == expected \ ExcusedDays
        absent   == {d \in judged : Statuses(d) = {} \/ "ABSENT" \in Statuses(d)}
        late     == {d \in judged \ absent : "LATE" \in Statuses(d)}
        observed == {d \in range : OnDay(d) # {}}
        Count(S) == IF observed = {} /\ judged # {} THEN 0 ELSE Cardinality(S)
    IN  [expected |-> Cardinality(expected),
         excused  |-> Cardinality(expected \cap ExcusedDays),
         present  |-> Count(judged \ (absent \cup late)),
         late     |-> Count(late),
         absent   |-> Count(absent)]

Freezes(c, kind, range) ==
    /\ snapshot[kind] = NoStats
    /\ Starts(c, [Idle EXCEPT !.pc = "freeze", !.kind = kind, !.stats = Stats(range)])

\* ensureMonthlyAttendanceSnapshot, for a month that is over
EnsureMonthlySnapshot(c) ==
    /\ Day(now) > MonthEnd
    /\ Freezes(c, "month", 0..MonthEnd)

MonthlySnapshotJob == EnsureMonthlySnapshot(Cron)

\* Statistics of a closed period are not cut off at today.
EmployeeAttendanceStats(c) == closed /\ Freezes(c, "period", 0..PeriodEnd)

EmployeeWorkSummary(c) == EnsureMonthlySnapshot(c) \/ EmployeeAttendanceStats(c)

\* The snapshot is unique: the second of two fails.
SaveSnapshot(c) ==
    LET k == call[c]
    IN  /\ k.pc = "freeze"
        /\ snapshot' = [snapshot EXCEPT ![k.kind] = IF @ = NoStats THEN k.stats ELSE @]
        /\ Ends(c)
        /\ UNCHANGED <<now, setup, rows, excused, closed, calls, job, torn>>

-----------------------------------------------------------------------------
(* The absent job, one run at every tick                                   *)

JobRest == <<now, setup, excused, closed, snapshot, call, calls, torn>>

\* Holidays and approved leave are not looked at.
ShouldWork(d) == IF own # Unset THEN d \in own ELSE company # Unset /\ d \in company

JobStart ==
    /\ job.pc = "due"
    /\ job' = IF /\ shift # NoShift
                 /\ ShouldWork(Day(now))
                 /\ ShiftEnded(shift, now)
              THEN [NoJob("rows") EXCEPT !.shift = shift] ELSE NoJob("idle")
    /\ UNCHANGED <<JobRest, rows>>

\* Mutant: an absence, which has no clock-in, is looked for by its clock-in.
MarkedSinceByClockIn(w) == {i \in DOMAIN rows : rows[i].in >= w.from}

MarkedSince(w) ==
    {i \in DOMAIN rows : /\ rows[i].status = "ABSENT" /\ rows[i].in = NoTime
                         /\ rows[i].made >= w.from}

\* Mutant: every row made since the shift began stands for the shift.
JobFindAnyRow ==
    /\ job.pc = "rows"
    /\ job' = [job EXCEPT !.pc = "excused",
                  !.found = \E i \in DOMAIN rows : rows[i].made >= Window(job.shift, now).from]
    /\ UNCHANGED <<JobRest, rows>>

JobFindAttendance ==
    LET w == Window(job.shift, now)
    IN  /\ job.pc = "rows"
        /\ job' = [job EXCEPT !.pc = "excused",
                      !.found = \/ \E i \in DOMAIN rows : rows[i].in # NoTime /\ Within(rows[i].in, w)
                                \/ MarkedSince(w) # {}]
        /\ UNCHANGED <<JobRest, rows>>

JobFindExcuse ==
    /\ job.pc = "excused"
    /\ job' = IF job.found \/ \E t \in excused : Within(t, Window(job.shift, now))
              THEN NoJob("idle") ELSE [job EXCEPT !.pc = "mark"]
    /\ UNCHANGED <<JobRest, rows>>

JobMarkAbsent ==
    /\ job.pc = "mark"
    /\ rows' = Append(rows, [NoRow EXCEPT !.made = now, !.win = Window(job.shift, now).from])
    /\ job' = NoJob("idle")
    /\ UNCHANGED JobRest

\* A tick is longer than a run of the job and than a request.
Tick ==
    /\ now + 1 \in Ticks /\ job.pc = "idle"
    /\ \A c \in Callers : call[c].pc = "idle"
    /\ now' = now + 1
    /\ job' = NoJob("due")
    /\ UNCHANGED <<setup, rows, excused, closed, snapshot, call, calls, torn>>

-----------------------------------------------------------------------------

EmployeeActs(c) ==
    \/ ClockInGPS(c) \/ ClockInWiFi(c) \/ ClockInQRCode(c)
    \/ ClockOutGPS(c) \/ ClockOutWiFi(c) \/ ClockOutQRCode(c)

StaffActs(c) ==
    \/ AdminClockInToday(c) \/ AdminClockOutToday(c) \/ ManualClockOut(c)
    \/ CreateAttendance(c) \/ AdminUpdateAttendanceRecord(c) \/ MarkExcusedAbsenceToday(c)
    \/ EmployeeAttendanceStats(c) \/ EmployeeWorkSummary(c)

StaffEdits(c) ==
    \/ CreateOrUpdateEmployeeWorkConfig(c) \/ CreateOrUpdateCompanyWorkDay(c)
    \/ UpdateTenantAttendanceSettings(c) \/ UpdateShift(c) \/ ClosePeriod(c)
    \/ CreateTenantLocation(c) \/ UpdateTenantLocation(c) \/ DeleteTenantLocation(c)
    \/ CreateHoliday(c) \/ BulkCreateHolidays(c) \/ UpdateHoliday(c) \/ DeleteHoliday(c)

Writes(c) ==
    WriteRow(c) \/ AutoClearExcusedAbsence(c) \/ CreateException(c) \/ SaveSnapshot(c)

JobStep == JobStart \/ JobFindAttendance \/ JobFindExcuse \/ JobMarkAbsent

Next ==
    \/ \E c \in Clients : EmployeeActs(c)
    \/ \E c \in Staff : StaffActs(c) \/ StaffEdits(c)
    \/ \E c \in Callers : Writes(c)
    \/ MonthlySnapshotJob
    \/ JobStep
    \/ Tick

\* The cron fires as long as the server runs; clients owe nothing.
Fairness == WF_vars(JobStep)

Spec == Init /\ [][Next]_vars /\ Fairness

-----------------------------------------------------------------------------

Rows == [in : Ticks \cup {NoTime}, out : Ticks \cup {NoTime},
         status : {"ON_TIME", "LATE", "EARLY", "ABSENT"}, hours : Int,
         made : Ticks, win : Int]

\* The state stays in its types, and a row is ABSENT only without a clock-in:
\* statistics, which look at clocked-in rows only, never meet one.
TypeOK ==
    /\ now \in Ticks /\ shift \in Shifts \cup {NoShift}
    /\ own \in Configs \cup {Unset} /\ company \in Configs \cup {Unset}
    /\ holidays \subseteq Days /\ offices \subseteq Offices /\ early \in {0, 1}
    /\ rows \in Seq(Rows)
    /\ \A i \in DOMAIN rows : rows[i].status = "ABSENT" => rows[i].in = NoTime
    /\ excused \subseteq Ticks
    /\ \A c \in Callers : call[c].pc \in {"idle", "write", "clear", "excuse", "freeze"}
    /\ job.pc \in {"idle", "due", "rows", "excused", "mark"}
    /\ torn \subseteq DOMAIN rows

\* The hours of a row are the time between its clock-in and its clock-out, for
\* whoever wrote them, unless a handler wrote from a reading that was stale.
HoursMatchTimes ==
    \A i \in DOMAIN rows \ torn :
       LET r == rows[i]
       IN  r.in # NoTime /\ r.hours # NoHours => r.out # NoTime /\ r.hours = r.out - r.in

\* A no-show is marked once: whatever is clocked, excused, edited or given
\* another shift between two runs, the job finds the mark of the same shift,
\* unless a handler put an old reading of it back.
AbsentOncePerShift ==
    \A i, j \in DOMAIN rows \ torn :
       i < j /\ {rows[i].status, rows[j].status} = {"ABSENT"} => rows[i].made < rows[j].win

\* A frozen snapshot accounts for every expected day exactly once: present,
\* late, absent or excused; or it says that nothing was observed.
SnapshotsAddUp ==
    \A k \in Kinds :
       LET s == snapshot[k]
       IN  s # NoStats => s.present + s.late + s.absent \in {0, s.expected - s.excused}

Recorded(w) ==
    \/ \E i \in DOMAIN rows : rows[i].in # NoTime /\ Within(rows[i].in, w)
    \/ MarkedSince(w) # {}
    \/ \E t \in excused : Within(t, w)

Owed(t, s) == now = t /\ shift = s /\ ShouldWork(Day(t))

\* A shift that is over leaves a trace before the clock moves on: a clock-in,
\* an excuse or a mark, unless it is taken back while the job is looking.
NoShowIsRecorded ==
    \A s \in Shifts : \A t \in {u \in Ticks : ShiftEnded(s, u)} :
       Owed(t, s) /\ job.pc = "due" ~> now = t /\ (Recorded(Window(s, t)) \/ ~Owed(t, s))
=============================================================================
