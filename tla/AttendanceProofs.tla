-------------------------- MODULE AttendanceProofs --------------------------
(***************************************************************************)
(* Attendance, for any number of requests in flight, any length of the day *)
(* and of the history, any shifts and any settings.  A handler writes what *)
(* it worked out from a row it read earlier: the invariant says what it    *)
(* will make of that row if nobody has written it meanwhile, and what the  *)
(* absent job, once it has looked for a mark, still knows of the rows.     *)
(***************************************************************************)
EXTENDS Attendance, TLAPS, FiniteSetTheorems

StatusValues == {"ON_TIME", "LATE", "EARLY", "ABSENT"}

\* A row as a handler holds it: a new one has no time of creation yet.
Held == [in : Ticks \cup {NoTime}, out : Ticks \cup {NoTime}, status : StatusValues,
         hours : Int, made : Ticks \cup {NoTime}, win : Int]

Counts == [expected : Int, excused : Nat, present : Nat, late : Nat, absent : Nat]

Calls == [pc : {"idle", "write", "clear", "excuse", "freeze"}, row : Nat, seen : Held,
          fields : SUBSET AllTimes, new : Held, clears : BOOLEAN, kind : Kinds, stats : Counts]

Jobs == [pc : {"idle", "due", "rows", "excused", "mark"}, shift : Shifts \cup {NoShift},
         found : BOOLEAN]

-----------------------------------------------------------------------------
(* The inductive invariant                                                 *)

Types ==
    /\ TypeOK
    /\ snapshot \in [Kinds -> Counts]
    /\ call \in [Callers -> Calls]
    /\ job \in Jobs
    /\ job.pc \in {"rows", "excused", "mark"} => job.shift \in Shifts

Matches(r) == r.in # NoTime /\ r.hours # NoHours => r.out # NoTime /\ r.hours = r.out - r.in

AddsUp(s) == s.present + s.late + s.absent \in {0, s.expected - s.excused}

\* What a write makes of the row it finds.
Changed(r, k) == [f \in DOMAIN NoRow |-> IF f \in k.fields THEN k.new[f] ELSE r[f]]

\* What a handler may be about to write when there are n rows and those in T
\* were written from a stale reading: an insert matches its times and is no
\* absence; an update makes a matching row of the one that was read, and an
\* absence only of an absence.
WriteFits(k, n, T) ==
    /\ k.new.status = "ABSENT" => k.new.in = NoTime
    /\ k.row = 0 => Matches(k.new) /\ k.new.status # "ABSENT"
    /\ k.row # 0 =>
          /\ k.row <= n /\ k.fields \in {AllTimes, {"out", "hours"}}
          /\ k.row \notin T => Matches(Changed(k.seen, k))
          /\ "status" \in k.fields /\ k.new.status = "ABSENT" => k.seen.status = "ABSENT"

Fits(k, n, T) ==
    /\ k.pc = "write" => WriteFits(k, n, T)
    /\ k.pc = "excuse" => k.new.in \in Ticks
    /\ k.pc = "freeze" => AddsUp(k.stats)

CallsFit == \A c \in Callers : Fits(call[c], Len(rows), torn)

\* The job that found no mark: every absence is older than the shift.
JobFits ==
    /\ job.pc = "mark" => ~job.found
    /\ job.pc \in {"excused", "mark"} /\ ~job.found =>
          \A i \in DOMAIN rows \ torn :
             rows[i].status = "ABSENT" => rows[i].made < Window(job.shift, now).from

SnapshotsFit == \A k \in Kinds : snapshot[k] # NoStats => AddsUp(snapshot[k])

AttendanceInv ==
    /\ Types
    /\ CallsFit
    /\ JobFits
    /\ HoursMatchTimes
    /\ AbsentOncePerShift
    /\ SnapshotsFit

-----------------------------------------------------------------------------
(* Values                                                                  *)

LEMMA TickFacts ==
    /\ Ticks \subseteq Int /\ NoTime \notin Ticks /\ NoTime \in Int /\ NoHours \in Int
    /\ LastTick \in Nat /\ Times \subseteq Ticks
    /\ \A t \in Ticks : t >= 0 /\ t <= LastTick
  BY AttendanceAssumption DEF Ticks, NoTime, NoHours

LEMMA StatusFits ==
    ASSUME NEW in, NEW s
    PROVE  /\ AttendanceStatus(in, s) \in StatusValues \ {"ABSENT"}
           /\ AdminStatus(in) \in StatusValues \ {"ABSENT"}
  BY DEF AttendanceStatus, AdminStatus, StatusValues

\* What was counted is the time between the two, and never looks like nothing.
LEMMA HoursFit ==
    ASSUME NEW in \in Ticks \cup {NoTime}, NEW out \in Ticks \cup {NoTime}
    PROVE  /\ Hours(in, out) \in Int /\ AdminHours(in, out) \in Int
           /\ Hours(in, out) # NoHours => out # NoTime /\ Hours(in, out) = out - in
           /\ in # NoTime /\ AdminHours(in, out) # NoHours =>
                 out # NoTime /\ AdminHours(in, out) = out - in
  BY TickFacts DEF Hours, AdminHours

LEMMA WindowFits ==
    ASSUME NEW s \in Shifts, NEW t \in Ticks
    PROVE  Window(s, t).from \in Int
<1>1. s.start \in Int /\ s.end \in Int
  BY AttendanceAssumption
<1>2. DayLength \in Nat \ {0} /\ t \in Int
  BY AttendanceAssumption, TickFacts
<1>3. t \div DayLength \in Int
  BY <1>2
<1>4. \A d \in Int : At(d, s.start) \in Int /\ At(d, s.end) \in Int /\ At(d, 0) \in Int
  BY <1>1, <1>2 DEF At
<1>5. At(Day(t) - 1, s.start) \in Int /\ At(Day(t), 0) \in Int
  BY <1>3, <1>4 DEF Day
<1> QED
  BY <1>5 DEF Window

\* Blank values, and what the handlers put together.
LEMMA BlanksFit ==
    /\ NoRow \in Held /\ NoStats \in Counts /\ Idle \in Calls
    /\ Idle.pc = "idle" /\ Idle.row = 0 /\ DOMAIN NoRow = {"in", "out", "status", "hours", "made", "win"}
<1>1. NoRow \in Held
  BY TickFacts DEF NoRow, Held, StatusValues
<1>2. NoStats \in Counts
  BY DEF NoStats, Counts
<1>3. "month" \in Kinds
  BY DEF Kinds
<1> QED
  BY <1>1, <1>2, <1>3 DEF NoRow, Idle, Calls

LEMMA ClockedFits ==
    ASSUME NEW in \in Ticks \cup {NoTime}, NEW out \in Ticks \cup {NoTime},
           NEW status \in StatusValues, NEW hours \in Int
    PROVE  LET row == Clocked(in, out, status, hours)
           IN  /\ row \in Held
               /\ row.in = in /\ row.out = out /\ row.status = status /\ row.hours = hours
  BY TickFacts DEF Clocked, NoRow, Held

LEMMA InsertingFits ==
    ASSUME NEW row \in Held, NEW clears \in BOOLEAN
    PROVE  LET k == Inserting(row, clears)
           IN  k \in Calls /\ k.pc = "write" /\ k.row = 0 /\ k.new = row
  BY BlanksFit DEF Inserting, Idle, Calls

LEMMA UpdatingFits ==
    ASSUME NEW i \in Nat, NEW fields \in SUBSET AllTimes, NEW row \in Held,
           NEW clears \in BOOLEAN, rows[i] \in Held
    PROVE  LET k == Updating(i, fields, row, clears)
           IN  /\ k \in Calls /\ k.pc = "write" /\ k.row = i /\ k.new = row
               /\ k.fields = fields /\ k.seen = rows[i]
<1>1. Inserting(row, clears) \in Calls /\ Inserting(row, clears).pc = "write"
      /\ Inserting(row, clears).new = row
  BY InsertingFits
<1> QED
  BY <1>1 DEF Updating, Calls

-----------------------------------------------------------------------------
(* What steps leave as it is                                               *)

\* What a handler may write, it may write when more rows were made and more of
\* them are stale.
LEMMA FitsKept ==
    ASSUME NEW k \in Calls, NEW n \in Nat, NEW m \in Nat, n <= m,
           NEW T, NEW U, T \subseteq U, Fits(k, n, T)
    PROVE  Fits(k, m, U)
  BY DEF Fits, WriteFits, Calls

LEMMA IdleFits == \A n, T : Fits(Idle, n, T)
  BY BlanksFit DEF Fits

LEMMA RowsFit ==
    ASSUME Types
    PROVE  /\ rows \in Seq(Rows) /\ Len(rows) \in Nat /\ DOMAIN rows = 1..Len(rows)
           /\ Rows \subseteq Held /\ \A i \in DOMAIN rows : rows[i] \in Rows
<1>1. rows \in Seq(Rows)
  BY DEF Types, TypeOK
<1>2. Rows \subseteq Held
  BY DEF Rows, Held, StatusValues
<1> QED
  BY <1>1, <1>2

LEMMA InitFits == Init => AttendanceInv
<1> SUFFICES ASSUME Init PROVE AttendanceInv
  OBVIOUS
<1>1. TypeOK
  BY AttendanceAssumption, TickFacts, BlanksFit
     DEF Init, TypeOK, NoJob, Ticks, Days
<1>2. Types
  BY <1>1, BlanksFit DEF Init, Types, NoJob, Jobs
<1>3. CallsFit
  BY IdleFits DEF Init, CallsFit
<1>4. JobFits /\ HoursMatchTimes /\ AbsentOncePerShift /\ SnapshotsFit
  BY DEF Init, JobFits, HoursMatchTimes, AbsentOncePerShift, SnapshotsFit, NoJob
<1> QED
  BY <1>2, <1>3, <1>4 DEF AttendanceInv

\* A handler begins, holding what fits the rows it read.
LEMMA StartsKeeps ==
    ASSUME AttendanceInv, NEW c \in Callers, NEW k \in Calls, Starts(c, k),
           Fits(k, Len(rows), torn)
    PROVE  AttendanceInv'
<1>1. call' = [call EXCEPT ![c] = k]
      /\ UNCHANGED <<now, setup, rows, excused, closed, snapshot, job, torn>>
  BY DEF Starts
<1>2. call \in [Callers -> Calls]
  BY DEF AttendanceInv, Types
<1>3. call' \in [Callers -> Calls]
  BY <1>1, <1>2
<1>4. \A d \in Callers : call'[d] = IF d = c THEN k ELSE call[d]
  BY <1>1, <1>2
<1>5. CallsFit'
  BY <1>1, <1>4 DEF AttendanceInv, CallsFit
<1>6. Types'
  BY <1>1, <1>3 DEF AttendanceInv, Types, TypeOK, Calls, setup
<1>7. (JobFits /\ HoursMatchTimes /\ AbsentOncePerShift /\ SnapshotsFit)'
  BY <1>1 DEF AttendanceInv, JobFits, HoursMatchTimes, AbsentOncePerShift, SnapshotsFit
<1> QED
  BY <1>5, <1>6, <1>7 DEF AttendanceInv

\* Every handler of the employee and of staff, and the monthly job.
LEMMA ClockInKeeps == ASSUME AttendanceInv, NEW c \in Callers, ClockIn(c) PROVE AttendanceInv'
<1> DEFINE row == Clocked(now, NoTime, AttendanceStatus(now, shift), NoHours)
<1>1. now \in Ticks
  BY DEF AttendanceInv, Types, TypeOK
<1>2. row \in Held /\ row.hours = NoHours /\ row.status # "ABSENT"
  BY <1>1, TickFacts, StatusFits, ClockedFits
<1>3. PICK k : k = Inserting(row, TRUE)
  OBVIOUS
<1>4. k \in Calls /\ k.pc = "write" /\ k.row = 0 /\ k.new = row
  BY <1>2, <1>3, InsertingFits
<1>5. Fits(k, Len(rows), torn)
  BY <1>2, <1>4 DEF Fits, WriteFits, Matches
<1>6. Starts(c, k)
  BY <1>3 DEF ClockIn
<1> QED
  BY <1>4, <1>5, <1>6, StartsKeeps

\* A clock-out writes the hours since the clock-in that was read.
LEMMA ClockingOutKeeps ==
    ASSUME AttendanceInv, NEW c \in Callers, NEW i \in DOMAIN rows, NEW t \in Ticks,
           NEW hours \in {Hours(rows[i].in, t), AdminHours(rows[i].in, t)},
           Starts(c, Updating(i, {"out", "hours"}, Clocked(NoTime, t, "ON_TIME", hours), FALSE))
    PROVE  AttendanceInv'
<1> DEFINE row == Clocked(NoTime, t, "ON_TIME", hours)
<1>1. /\ Len(rows) \in Nat /\ i \in 1..Len(rows) /\ rows[i] \in Held
      /\ rows[i].in \in Ticks \cup {NoTime}
  BY RowsFit DEF AttendanceInv, Held
<1>2. /\ hours \in Int
      /\ rows[i].in # NoTime /\ hours # NoHours => hours = t - rows[i].in
  BY <1>1, HoursFit
<1>3. row \in Held /\ row.out = t /\ row.hours = hours /\ row.status = "ON_TIME"
  BY <1>2, TickFacts, ClockedFits DEF StatusValues
<1>4. PICK k : k = Updating(i, {"out", "hours"}, row, FALSE)
  OBVIOUS
<1>5. /\ k \in Calls /\ k.pc = "write" /\ k.row = i /\ k.new = row
      /\ k.fields = {"out", "hours"} /\ k.seen = rows[i]
  <2>1. {"out", "hours"} \subseteq AllTimes /\ i \in Nat
    BY <1>1 DEF AllTimes
  <2> HIDE DEF row
  <2>2. Inserting(row, FALSE) \in Calls /\ Inserting(row, FALSE).pc = "write"
        /\ Inserting(row, FALSE).new = row
    BY <1>3, BlanksFit DEF Inserting, Idle, Calls
  <2> QED
    BY <1>1, <1>4, <2>1, <2>2 DEF Updating, Calls
<1>6. Matches(Changed(k.seen, k))
  <2>1. /\ Changed(k.seen, k).in = rows[i].in /\ Changed(k.seen, k).out = t
        /\ Changed(k.seen, k).hours = hours
    BY <1>3, <1>5, BlanksFit DEF Changed
  <2>2. t # NoTime
    BY TickFacts
  <2> QED
    BY <1>2, <2>1, <2>2 DEF Matches
<1>7. Fits(k, Len(rows), torn)
  BY <1>1, <1>3, <1>5, <1>6 DEF Fits, WriteFits
<1>8. Starts(c, k)
  BY <1>4
<1> QED
  BY <1>5, <1>7, <1>8, StartsKeeps

LEMMA ClockOutsKeep ==
    ASSUME AttendanceInv, NEW c \in Callers,
           ClockOut(c) \/ AdminClockOutToday(c) \/ ManualClockOut(c)
    PROVE  AttendanceInv'
<1>1. now \in Ticks /\ Times \subseteq Ticks
  BY TickFacts DEF AttendanceInv, Types, TypeOK
<1>2. \A S : S \subseteq DOMAIN rows => Latest(S) \subseteq DOMAIN rows /\ Earliest(S) \subseteq DOMAIN rows
  BY DEF Latest, Earliest
<1>3. Latest(Today) \subseteq DOMAIN rows /\ Earliest(Today) \subseteq DOMAIN rows
  BY <1>2 DEF Today, OnDay
<1>4. CASE ClockOut(c)
  BY <1>1, <1>3, <1>4, ClockingOutKeeps DEF ClockOut
<1>5. ASSUME NEW i \in DOMAIN rows, NEW t \in Times, AdminClocksOut(c, i, t)
      PROVE  AttendanceInv'
  BY <1>1, <1>5, ClockingOutKeeps DEF AdminClocksOut
<1> QED
  BY <1>3, <1>4, <1>5 DEF AdminClockOutToday, ManualClockOut

\* A row typed in by staff matches its times.
LEMMA TypedRowFits ==
    ASSUME NEW in \in Ticks \cup {NoTime}, NEW out \in Ticks \cup {NoTime}
    PROVE  LET row == Clocked(in, out, AdminStatus(in), AdminHours(in, out))
           IN  row \in Held /\ Matches(row) /\ row.status # "ABSENT"
<1> DEFINE row == Clocked(in, out, AdminStatus(in), AdminHours(in, out))
<1>1. AdminStatus(in) \in StatusValues \ {"ABSENT"} /\ AdminHours(in, out) \in Int
  BY StatusFits, HoursFit
<1>2. row \in Held /\ row.in = in /\ row.out = out /\ row.status # "ABSENT"
      /\ row.hours = AdminHours(in, out)
  BY <1>1, ClockedFits
<1> QED
  BY <1>2, HoursFit DEF Matches

\* An insert of a row that matches its times, and is no absence.
LEMMA InsertionKeeps ==
    ASSUME AttendanceInv, NEW c \in Callers, NEW row \in Held, Matches(row),
           row.status # "ABSENT", Starts(c, Inserting(row, TRUE))
    PROVE  AttendanceInv'
<1>1. PICK k : k = Inserting(row, TRUE)
  OBVIOUS
<1>2. k \in Calls /\ k.pc = "write" /\ k.row = 0 /\ k.new = row
  BY <1>1, InsertingFits
<1>3. Fits(k, Len(rows), torn)
  BY <1>2 DEF Fits, WriteFits
<1> QED
  BY <1>1, <1>2, <1>3, StartsKeeps

\* A correction writes every column: those of a row that matches its times, or
\* those that were read.
LEMMA CorrectionKeeps ==
    ASSUME AttendanceInv, NEW c \in Callers, NEW i \in DOMAIN rows, NEW row \in Held,
           NEW clears \in BOOLEAN, Starts(c, Updating(i, AllTimes, row, clears)),
           row = rows[i] \/ (Matches(row) /\ row.status # "ABSENT")
    PROVE  AttendanceInv'
<1>1. Len(rows) \in Nat /\ i \in 1..Len(rows) /\ rows[i] \in Held
  BY RowsFit DEF AttendanceInv
<1>2. PICK k : k = Updating(i, AllTimes, row, clears)
  OBVIOUS
<1>3. /\ k \in Calls /\ k.pc = "write" /\ k.row = i /\ k.new = row
      /\ k.fields = AllTimes /\ k.seen = rows[i]
  BY <1>1, <1>2, UpdatingFits
<1>4. /\ Changed(k.seen, k).in = row.in /\ Changed(k.seen, k).out = row.out
      /\ Changed(k.seen, k).hours = row.hours
  BY <1>3, BlanksFit DEF Changed, AllTimes
<1>5. i \notin torn => Matches(row)
  BY DEF AttendanceInv, HoursMatchTimes, Matches
<1>6. row.status = "ABSENT" => row.in = NoTime /\ rows[i].status = "ABSENT"
  BY DEF AttendanceInv, Types, TypeOK
<1>7. i \notin torn => Matches(Changed(k.seen, k))
  BY <1>4, <1>5 DEF Matches
<1>8. Fits(k, Len(rows), torn)
  BY <1>1, <1>3, <1>6, <1>7 DEF Fits, WriteFits
<1> QED
  BY <1>2, <1>3, <1>8, StartsKeeps

LEMMA ManualEntriesKeep ==
    ASSUME AttendanceInv, NEW c \in Callers,
           AdminClockInToday(c) \/ CreateAttendance(c) \/ AdminUpdateAttendanceRecord(c)
    PROVE  AttendanceInv'
<1>1. /\ Times \subseteq Ticks /\ \A i \in DOMAIN rows : rows[i] \in Held
      /\ \A i \in DOMAIN rows : {rows[i].in, rows[i].out} \subseteq Ticks \cup {NoTime}
  BY TickFacts, RowsFit DEF AttendanceInv, Held
<1>2. CASE AdminClockInToday(c)
  <2>1. PICK t \in Times : Starts(c, Inserting(Clocked(t, NoTime, AdminStatus(t), NoHours), TRUE))
    BY <1>2 DEF AdminClockInToday
  <2>2. PICK row : row = Clocked(t, NoTime, AdminStatus(t), NoHours)
    OBVIOUS
  <2>3. row \in Held /\ row.hours = NoHours /\ row.status # "ABSENT"
    BY <1>1, <2>2, TickFacts, StatusFits, ClockedFits
  <2> QED
    BY <2>1, <2>2, <2>3, InsertionKeeps DEF Matches
<1>3. CASE CreateAttendance(c)
  <2>1. PICK d \in Days, in \in Times, out \in Times \cup {NoTime} :
           LET row == Clocked(in, out, AdminStatus(in), AdminHours(in, out))
           IN  IF OnDay(d) = {} THEN Starts(c, Inserting(row, TRUE))
               ELSE \E i \in Earliest(OnDay(d)) : Starts(c, Updating(i, AllTimes, row, TRUE))
    BY <1>3 DEF CreateAttendance
  <2> DEFINE row == Clocked(in, out, AdminStatus(in), AdminHours(in, out))
  <2>2. row \in Held /\ Matches(row) /\ row.status # "ABSENT"
    BY <1>1, TypedRowFits
  <2>3. Earliest(OnDay(d)) \subseteq DOMAIN rows
    BY DEF Earliest, OnDay
  <2> QED
    BY <2>1, <2>2, <2>3, InsertionKeeps, CorrectionKeeps
<1>4. CASE AdminUpdateAttendanceRecord(c)
  <2>1. PICK i \in DOMAIN rows, given \in SUBSET {"in", "out"},
             t \in Times, u \in Times \cup {NoTime} :
           LET in  == IF "in" \in given THEN t ELSE rows[i].in
               out == IF "out" \in given THEN u ELSE rows[i].out
               row == IF given = {} THEN rows[i]
                      ELSE Clocked(in, out, AdminStatus(in), AdminHours(in, out))
           IN  Starts(c, Updating(i, AllTimes, row, in # NoTime /\ row.status # "ABSENT"))
    BY <1>4 DEF AdminUpdateAttendanceRecord
  <2> DEFINE in  == IF "in" \in given THEN t ELSE rows[i].in
             out == IF "out" \in given THEN u ELSE rows[i].out
             typed == Clocked(in, out, AdminStatus(in), AdminHours(in, out))
             row == IF given = {} THEN rows[i] ELSE typed
  <2>2. in \in Ticks \cup {NoTime} /\ out \in Ticks \cup {NoTime}
    BY <1>1
  <2>3. typed \in Held /\ Matches(typed) /\ typed.status # "ABSENT"
    BY <2>2, TypedRowFits
  <2>4. row \in Held /\ (row = rows[i] \/ (Matches(row) /\ row.status # "ABSENT"))
    BY <1>1, <2>3
  <2>5. Starts(c, Updating(i, AllTimes, row, in # NoTime /\ row.status # "ABSENT"))
    BY <2>1
  <2> HIDE DEF in, row
  <2> QED
    BY <2>4, <2>5, CorrectionKeeps
<1> QED
  BY <1>2, <1>3, <1>4

LEMMA MarkExcusedKeeps ==
    ASSUME AttendanceInv, NEW c \in Callers, MarkExcusedAbsenceToday(c)
    PROVE  AttendanceInv'
<1>1. PICK k : k = [Idle EXCEPT !.pc = "excuse", !.new.in = now]
  OBVIOUS
<1>2. now \in Ticks
  BY DEF AttendanceInv, Types, TypeOK
<1>3. Idle.new \in Held
  BY BlanksFit DEF Calls
<1>4. k \in Calls /\ k.pc = "excuse" /\ k.new.in = now
  BY <1>1, <1>2, <1>3, BlanksFit DEF Calls, Held
<1>5. Fits(k, Len(rows), torn)
  BY <1>2, <1>4 DEF Fits
<1> QED
  BY <1>1, <1>4, <1>5, StartsKeeps DEF MarkExcusedAbsenceToday

\* What a frozen snapshot says: the days that are judged are absent, late or
\* present, and never two of them.
LEMMA StatsFit ==
    ASSUME NEW range, IsFiniteSet(range)
    PROVE  Stats(range) \in Counts /\ AddsUp(Stats(range))
<1> DEFINE expected == {d \in range : IsConfiguredWorkday(d) /\ d \notin holidays}
           judged   == expected \ ExcusedDays
           absent   == {d \in judged : Statuses(d) = {} \/ "ABSENT" \in Statuses(d)}
           late     == {d \in judged \ absent : "LATE" \in Statuses(d)}
           present  == judged \ (absent \cup late)
           observed == {d \in range : OnDay(d) # {}}
           Count(S) == IF observed = {} /\ judged # {} THEN 0 ELSE Cardinality(S)
<1>1. IsFiniteSet(expected) /\ Cardinality(expected) \in Nat
  BY FS_Subset, FS_CardinalityType
<1>2. /\ IsFiniteSet(judged) /\ Cardinality(judged) \in Nat
      /\ Cardinality(expected \cap ExcusedDays) \in Nat
      /\ Cardinality(judged) = Cardinality(expected) - Cardinality(expected \cap ExcusedDays)
  <2> HIDE DEF expected
  <2>1. IsFiniteSet(expected \cap ExcusedDays)
    BY <1>1, FS_Subset
  <2> QED
    BY <1>1, <2>1, FS_Difference, FS_CardinalityType
<1>3. absent \cup late \subseteq judged /\ absent \cap late = {} /\ absent \subseteq judged
  OBVIOUS
<1>4. /\ Cardinality(present) \in Nat /\ Cardinality(late) \in Nat /\ Cardinality(absent) \in Nat
      /\ Cardinality(present) + Cardinality(late) + Cardinality(absent) = Cardinality(judged)
  <2> HIDE DEF judged, absent, late
  <2>1. IsFiniteSet(absent) /\ IsFiniteSet(late) /\ IsFiniteSet(absent \cup late)
    BY <1>2, <1>3, FS_Subset
  <2>2. Cardinality(absent \cup late) = Cardinality(absent) + Cardinality(late)
    <3>1. Cardinality(absent \cap late) = 0
      BY <1>3, FS_EmptySet
    <3>2. Cardinality(absent \cup late)
            = Cardinality(absent) + Cardinality(late) - Cardinality(absent \cap late)
      BY <2>1, FS_Union
    <3>3. Cardinality(absent) \in Nat /\ Cardinality(late) \in Nat
      BY <2>1, FS_CardinalityType
    <3> QED
      BY <3>1, <3>2, <3>3
  <2>3. Cardinality(present) = Cardinality(judged) - Cardinality(judged \cap (absent \cup late))
    BY <1>2, FS_Difference
  <2>4. judged \cap (absent \cup late) = absent \cup late /\ IsFiniteSet(present)
    BY <1>2, <1>3, FS_Difference
  <2>5. /\ Cardinality(absent) \in Nat /\ Cardinality(late) \in Nat
        /\ Cardinality(present) \in Nat
    BY <2>1, <2>4, FS_CardinalityType
  <2>6. Cardinality(present) = Cardinality(judged) - (Cardinality(absent) + Cardinality(late))
    BY <2>2, <2>3, <2>4
  <2> HIDE DEF present
  <2> QED
    BY <1>2, <2>5, <2>6
<1>5. Stats(range) = [expected |-> Cardinality(expected),
                      excused  |-> Cardinality(expected \cap ExcusedDays),
                      present  |-> Count(present), late |-> Count(late), absent |-> Count(absent)]
  BY DEF Stats
<1> HIDE DEF expected, judged, absent, late, present, observed
<1>6. Stats(range) \in Counts
  BY <1>1, <1>2, <1>4, <1>5 DEF Counts
<1>7. CASE observed = {} /\ judged # {}
  <2>1. Stats(range).present = 0 /\ Stats(range).late = 0 /\ Stats(range).absent = 0
    BY <1>5, <1>7
  <2> QED
    BY <1>6, <2>1 DEF AddsUp
<1>8. CASE ~(observed = {} /\ judged # {})
  <2>1. /\ Stats(range).present = Cardinality(present) /\ Stats(range).late = Cardinality(late)
        /\ Stats(range).absent = Cardinality(absent)
        /\ Stats(range).expected = Cardinality(expected)
        /\ Stats(range).excused = Cardinality(expected \cap ExcusedDays)
    BY <1>5, <1>8
  <2> QED
    BY <1>2, <1>4, <1>6, <2>1 DEF AddsUp
<1> QED
  BY <1>6, <1>7, <1>8

LEMMA FreezingKeeps ==
    ASSUME AttendanceInv, NEW c \in Callers,
           EnsureMonthlySnapshot(c) \/ EmployeeAttendanceStats(c)
    PROVE  AttendanceInv'
<1>1. PICK kind \in Kinds, last \in {MonthEnd, PeriodEnd} : Freezes(c, kind, 0..last)
  BY DEF EnsureMonthlySnapshot, EmployeeAttendanceStats, Kinds
<1>2. last \in Int
  BY AttendanceAssumption DEF Days
<1>3. Stats(0..last) \in Counts /\ AddsUp(Stats(0..last))
  BY <1>2, FS_Interval, StatsFit
<1>4. PICK k : k = [Idle EXCEPT !.pc = "freeze", !.kind = kind, !.stats = Stats(0..last)]
  OBVIOUS
<1>5. k \in Calls /\ k.pc = "freeze" /\ k.stats = Stats(0..last)
  BY <1>3, <1>4, BlanksFit DEF Calls
<1>6. Fits(k, Len(rows), torn)
  BY <1>3, <1>5 DEF Fits
<1> QED
  BY <1>1, <1>4, <1>5, <1>6, StartsKeeps DEF Freezes

-----------------------------------------------------------------------------
(* The settings                                                            *)

\* A setting is not looked at by what is in flight.
LEMMA EditsKeep ==
    ASSUME AttendanceInv, NEW c \in Callers, Edits(c),
           shift' \in Shifts \cup {NoShift}, own' \in Configs \cup {Unset},
           company' \in Configs \cup {Unset}, holidays' \subseteq Days,
           offices' \subseteq Offices, early' \in {0, 1}
    PROVE  AttendanceInv'
<1>1. UNCHANGED <<now, rows, excused, snapshot, call, job, torn>>
  BY DEF Edits
<1>2. Types'
  BY <1>1 DEF AttendanceInv, Types, TypeOK
<1> QED
  BY <1>1, <1>2 DEF AttendanceInv, CallsFit, JobFits, HoursMatchTimes, AbsentOncePerShift, SnapshotsFit

LEMMA SettingsKeep == ASSUME AttendanceInv, NEW c \in Callers, StaffEdits(c) PROVE AttendanceInv'
<1>1. /\ Edits(c)
      /\ shift \in Shifts \cup {NoShift} /\ own \in Configs \cup {Unset}
      /\ company \in Configs \cup {Unset} /\ holidays \subseteq Days
      /\ offices \subseteq Offices /\ early \in {0, 1}
  BY DEF StaffEdits, CreateOrUpdateEmployeeWorkConfig, CreateOrUpdateCompanyWorkDay,
     UpdateTenantAttendanceSettings, UpdateShift, ClosePeriod, CreateTenantLocation,
     UpdateTenantLocation, DeleteTenantLocation, CreateHoliday, BulkCreateHolidays,
     UpdateHoliday, DeleteHoliday, AttendanceInv, Types, TypeOK
<1>2. CASE \/ CreateOrUpdateEmployeeWorkConfig(c) \/ CreateOrUpdateCompanyWorkDay(c)
           \/ UpdateTenantAttendanceSettings(c) \/ UpdateShift(c) \/ ClosePeriod(c)
  BY <1>1, <1>2, EditsKeep DEF CreateOrUpdateEmployeeWorkConfig, CreateOrUpdateCompanyWorkDay,
     UpdateTenantAttendanceSettings, UpdateShift, ClosePeriod, setup
<1>3. CASE CreateTenantLocation(c) \/ UpdateTenantLocation(c) \/ DeleteTenantLocation(c)
  BY <1>1, <1>3, EditsKeep DEF CreateTenantLocation, UpdateTenantLocation, DeleteTenantLocation
<1>4. CASE CreateHoliday(c) \/ BulkCreateHolidays(c) \/ UpdateHoliday(c) \/ DeleteHoliday(c)
  <2>1. /\ UNCHANGED <<shift, own, company, offices, early>>
        /\ holidays' \subseteq Days
    BY <1>1, <1>4 DEF CreateHoliday, BulkCreateHolidays, UpdateHoliday, DeleteHoliday
  <2> QED
    BY <1>1, <2>1, EditsKeep
<1> QED
  BY <1>2, <1>3, <1>4 DEF StaffEdits

-----------------------------------------------------------------------------
(* The writes of the handlers                                              *)

\* A write that makes no absence but of an absence.
LEMMA RowsChange ==
    ASSUME AttendanceInv, rows' \in Seq(Rows), Len(rows) <= Len(rows'),
           torn \subseteq torn', torn' \subseteq DOMAIN rows',
           \A i \in DOMAIN rows' : rows'[i].status = "ABSENT" => rows'[i].in = NoTime,
           \A i \in DOMAIN rows' \ torn' : Matches(rows'[i]),
           \A i \in DOMAIN rows' \ torn' : rows'[i].status = "ABSENT" =>
              /\ i \in DOMAIN rows /\ rows[i].status = "ABSENT"
              /\ rows'[i].made = rows[i].made /\ rows'[i].win = rows[i].win,
           call' \in [Callers -> Calls],
           \A c \in Callers : call'[c] # call[c] => call'[c].pc \in {"clear", "idle"},
           UNCHANGED <<now, setup, excused, closed, snapshot, job>>
    PROVE  AttendanceInv'
<1>1. Types'
  BY DEF AttendanceInv, Types, TypeOK, setup, Calls
<1>2. CallsFit'
  <2> SUFFICES ASSUME NEW c \in Callers PROVE Fits(call'[c], Len(rows'), torn')
    BY DEF CallsFit
  <2>1. Len(rows) \in Nat /\ Len(rows') \in Nat
    BY RowsFit DEF AttendanceInv
  <2>2. PICK k : k = call'[c]
    OBVIOUS
  <2>3. CASE k = call[c]
    BY <2>1, <2>2, <2>3, FitsKept DEF AttendanceInv, CallsFit
  <2>4. CASE k # call[c]
    BY <2>2, <2>4 DEF Fits
  <2> QED
    BY <2>3, <2>4
<1>3. HoursMatchTimes'
  BY DEF HoursMatchTimes, Matches
<1>4. AbsentOncePerShift'
  <2> SUFFICES ASSUME NEW i \in DOMAIN rows' \ torn', NEW j \in DOMAIN rows' \ torn', i < j,
                      rows'[i].status = "ABSENT", rows'[j].status = "ABSENT"
               PROVE  rows'[i].made < rows'[j].win
    BY DEF AbsentOncePerShift
  <2>1. i \in DOMAIN rows \ torn /\ j \in DOMAIN rows \ torn
    OBVIOUS
  <2>2. rows[i].made < rows[j].win
    BY <2>1 DEF AttendanceInv, AbsentOncePerShift
  <2> QED
    BY <2>2
<1>5. JobFits'
  <2> SUFFICES ASSUME job.pc \in {"excused", "mark"}, ~job.found,
                      NEW i \in DOMAIN rows' \ torn', rows'[i].status = "ABSENT"
               PROVE  rows'[i].made < Window(job.shift, now).from
    BY DEF AttendanceInv, JobFits, Window, At, Day, Crosses
  <2>1. i \in DOMAIN rows \ torn /\ rows[i].status = "ABSENT"
    OBVIOUS
  <2> QED
    BY <2>1 DEF AttendanceInv, JobFits
<1>6. SnapshotsFit'
  BY DEF AttendanceInv, SnapshotsFit
<1> QED
  BY <1>1, <1>2, <1>3, <1>4, <1>5, <1>6 DEF AttendanceInv

LEMMA WriteRowKeeps == ASSUME AttendanceInv, NEW c \in Callers, WriteRow(c) PROVE AttendanceInv'
<1>1. PICK k \in Calls : k = call[c]
  BY DEF AttendanceInv, Types
<1>2. /\ rows \in Seq(Rows) /\ Len(rows) \in Nat /\ DOMAIN rows = 1..Len(rows)
      /\ Rows \subseteq Held /\ \A i \in DOMAIN rows : rows[i] \in Rows
      /\ torn \subseteq DOMAIN rows /\ now \in Ticks
  BY RowsFit DEF AttendanceInv, Types, TypeOK
<1>3. k.pc = "write" /\ WriteFits(k, Len(rows), torn)
  BY <1>1 DEF WriteRow, AttendanceInv, CallsFit, Fits
<1>4. /\ call' \in [Callers -> Calls]
      /\ \A d \in Callers : call'[d] # call[d] => call'[d].pc \in {"clear", "idle"}
  <2>1. call \in [Callers -> Calls]
    BY DEF AttendanceInv, Types
  <2>2. call' = [call EXCEPT ![c] = Idle] \/ call' = [call EXCEPT ![c].pc = "clear"]
    BY DEF WriteRow, Ends
  <2>3. [call[c] EXCEPT !.pc = "clear"] \in Calls
    BY <2>1 DEF Calls
  <2> QED
    BY <2>1, <2>2, <2>3, BlanksFit DEF Calls
<1>5. UNCHANGED <<now, setup, excused, closed, snapshot, job>>
  BY DEF WriteRow
<1>6. CASE k.row = 0
  <2>1. PICK made : made = [k.new EXCEPT !.made = now]
    OBVIOUS
  <2>2. rows' = Append(rows, made) /\ torn' = torn
    BY <1>1, <1>6, <2>1 DEF WriteRow
  <2>3. /\ made \in Rows /\ made.in = k.new.in /\ made.out = k.new.out
        /\ made.hours = k.new.hours /\ made.status = k.new.status
    BY <1>2, <2>1 DEF Calls, Held, Rows, StatusValues
  <2>4. Matches(made) /\ made.status # "ABSENT"
    BY <1>3, <1>6, <2>3 DEF WriteFits, Matches
  <2>5. /\ rows' \in Seq(Rows) /\ Len(rows') = Len(rows) + 1 /\ DOMAIN rows' = 1..(Len(rows) + 1)
        /\ \A i \in DOMAIN rows : rows'[i] = rows[i]
        /\ rows'[Len(rows) + 1] = made
    BY <1>2, <2>2, <2>3
  <2>6. \A i \in DOMAIN rows' : i \in DOMAIN rows \/ i = Len(rows) + 1
    BY <1>2, <2>5
  <2>7. \A i \in DOMAIN rows' \ torn' : Matches(rows'[i])
    BY <2>2, <2>4, <2>5, <2>6 DEF AttendanceInv, HoursMatchTimes, Matches
  <2>8. \A i \in DOMAIN rows' : rows'[i].status = "ABSENT" =>
           rows'[i].in = NoTime /\ i \in DOMAIN rows /\ rows'[i] = rows[i]
    BY <2>4, <2>5, <2>6 DEF AttendanceInv, Types, TypeOK
  <2>9. Len(rows) <= Len(rows') /\ torn' \subseteq DOMAIN rows'
    BY <1>2, <2>2, <2>5
  <2> QED
    BY <1>4, <1>5, <2>2, <2>5, <2>7, <2>8, <2>9, RowsChange
<1>7. CASE k.row # 0
  <2>1. k.row \in DOMAIN rows /\ k.fields \in {AllTimes, {"out", "hours"}}
    BY <1>2, <1>3, <1>7 DEF WriteFits, Calls
  <2>2. PICK row : row = Changed(rows[k.row], k)
    OBVIOUS
  <2>3. /\ rows' = [rows EXCEPT ![k.row] = row]
        /\ torn' = IF rows[k.row] # k.seen THEN torn \cup {k.row} ELSE torn
    BY <1>1, <1>7, <2>2 DEF WriteRow, Changed
  <2>4. /\ row = [in |-> row.in, out |-> row.out, status |-> row.status,
                  hours |-> row.hours, made |-> row.made, win |-> row.win]
        /\ \A f \in {"in", "out", "status", "hours"} :
              row[f] = IF f \in k.fields THEN k.new[f] ELSE rows[k.row][f]
        /\ row.made = rows[k.row].made /\ row.win = rows[k.row].win
    BY <2>1, <2>2, BlanksFit DEF Changed, AllTimes
  <2>5. row \in Rows
    <3>1. k.new \in Held /\ rows[k.row] \in Rows
      BY <1>2, <2>1 DEF Calls
    <3> QED
      BY <2>1, <2>4, <3>1 DEF Held, Rows, StatusValues, AllTimes
  <2>6. /\ rows' \in Seq(Rows) /\ Len(rows') = Len(rows) /\ DOMAIN rows' = DOMAIN rows
        /\ \A i \in DOMAIN rows : rows'[i] = IF i = k.row THEN row ELSE rows[i]
    BY <1>2, <2>1, <2>3, <2>5
  <2>7. row.status = "ABSENT" => row.in = NoTime
    BY <1>3, <2>1, <2>4 DEF AttendanceInv, Types, TypeOK, WriteFits, AllTimes
  <2>8. k.row \notin torn' => k.row \notin torn /\ rows[k.row] = k.seen
    BY <2>3
  <2>9. k.row \notin torn' => Matches(row)
    BY <1>3, <1>7, <2>2, <2>8 DEF WriteFits
  <2>10. k.row \notin torn' /\ row.status = "ABSENT" => rows[k.row].status = "ABSENT"
    BY <1>3, <1>7, <2>4, <2>8 DEF WriteFits
  <2>11. \A i \in DOMAIN rows' : rows'[i].status = "ABSENT" => rows'[i].in = NoTime
    BY <2>6, <2>7 DEF AttendanceInv, Types, TypeOK
  <2>12. \A i \in DOMAIN rows' \ torn' : Matches(rows'[i])
    BY <2>3, <2>6, <2>9 DEF AttendanceInv, HoursMatchTimes, Matches
  <2>13. \A i \in DOMAIN rows' \ torn' : rows'[i].status = "ABSENT" =>
            /\ i \in DOMAIN rows /\ rows[i].status = "ABSENT"
            /\ rows'[i].made = rows[i].made /\ rows'[i].win = rows[i].win
    BY <2>4, <2>6, <2>10
  <2>14. Len(rows) <= Len(rows') /\ torn \subseteq torn' /\ torn' \subseteq DOMAIN rows'
    BY <1>2, <2>1, <2>3, <2>6
  <2> QED
    BY <1>4, <1>5, <2>6, <2>11, <2>12, <2>13, <2>14, RowsChange
<1> QED
  BY <1>6, <1>7

\* The other writes leave the rows alone.
LEMMA OtherWritesKeep ==
    ASSUME AttendanceInv, NEW c \in Callers,
           AutoClearExcusedAbsence(c) \/ CreateException(c) \/ SaveSnapshot(c)
    PROVE  AttendanceInv'
<1>1. PICK k \in Calls : k = call[c]
  BY DEF AttendanceInv, Types
<1>2. /\ call' = [call EXCEPT ![c] = Idle]
      /\ UNCHANGED <<now, setup, rows, closed, calls, job, torn>>
      /\ Fits(k, Len(rows), torn) /\ call \in [Callers -> Calls]
  BY <1>1 DEF AutoClearExcusedAbsence, CreateException, SaveSnapshot, Ends, AttendanceInv,
     CallsFit, Types
<1>3. call' \in [Callers -> Calls] /\ \A d \in Callers : call'[d] = IF d = c THEN Idle ELSE call[d]
  BY <1>2, BlanksFit
<1>4. CallsFit'
  BY <1>2, <1>3, IdleFits DEF AttendanceInv, CallsFit
<1>5. excused' \subseteq Ticks
  BY <1>1, <1>2 DEF AutoClearExcusedAbsence, CreateException, SaveSnapshot, AttendanceInv, Types,
     TypeOK, Fits
<1>6. snapshot' \in [Kinds -> Counts] /\ SnapshotsFit'
  <2>1. snapshot \in [Kinds -> Counts] /\ SnapshotsFit
    BY DEF AttendanceInv, Types
  <2>2. CASE AutoClearExcusedAbsence(c) \/ CreateException(c)
    BY <2>1, <2>2 DEF AutoClearExcusedAbsence, CreateException, SnapshotsFit
  <2>3. CASE SaveSnapshot(c)
    <3>1. /\ snapshot' = [snapshot EXCEPT ![k.kind] = IF @ = NoStats THEN k.stats ELSE @]
          /\ AddsUp(k.stats) /\ k.kind \in Kinds /\ k.stats \in Counts
      BY <1>1, <1>2, <2>3 DEF SaveSnapshot, Fits, Calls
    <3>2. \A l \in Kinds : snapshot'[l] \in {snapshot[l], k.stats}
      BY <2>1, <3>1
    <3> QED
      BY <2>1, <3>1, <3>2 DEF SnapshotsFit
  <2> QED
    BY <2>2, <2>3
<1>7. Types'
  BY <1>2, <1>3, <1>5, <1>6 DEF AttendanceInv, Types, TypeOK, setup, Calls
<1> QED
  BY <1>2, <1>4, <1>6, <1>7 DEF AttendanceInv, JobFits, HoursMatchTimes, AbsentOncePerShift

-----------------------------------------------------------------------------
(* The absent job and the clock                                            *)

\* Only the job's own record changes.
LEMMA JobKeeps ==
    ASSUME AttendanceInv, UNCHANGED <<now, setup, rows, excused, closed, snapshot, call, calls, torn>>,
           job' \in Jobs, job'.pc \in {"rows", "excused", "mark"} => job'.shift \in Shifts,
           job'.pc = "mark" => ~job'.found,
           job'.pc \in {"excused", "mark"} /\ ~job'.found =>
              \A i \in DOMAIN rows \ torn :
                 rows[i].status = "ABSENT" => rows[i].made < Window(job'.shift, now).from
    PROVE  AttendanceInv'
<1>1. Types'
  BY DEF AttendanceInv, Types, TypeOK, setup, Jobs
<1>2. JobFits'
  BY DEF JobFits
<1> QED
  BY <1>1, <1>2 DEF AttendanceInv, CallsFit, HoursMatchTimes, AbsentOncePerShift, SnapshotsFit

LEMMA JobLooksKeep ==
    ASSUME AttendanceInv, JobStart \/ JobFindAttendance \/ JobFindExcuse
    PROVE  AttendanceInv'
<1>1. /\ UNCHANGED <<now, setup, rows, excused, closed, snapshot, call, calls, torn>>
      /\ job \in Jobs /\ shift \in Shifts \cup {NoShift} /\ now \in Ticks
      /\ job.pc \in {"rows", "excused", "mark"} => job.shift \in Shifts
  BY DEF JobStart, JobFindAttendance, JobFindExcuse, JobRest, AttendanceInv, Types, TypeOK
<1>2. NoJob("idle") \in Jobs /\ NoJob("rows") \in Jobs /\ NoJob("idle").pc = "idle"
  BY DEF NoJob, Jobs
<1>3. CASE JobStart
  <2>1. \/ job' = NoJob("idle")
        \/ shift # NoShift /\ job' = [NoJob("rows") EXCEPT !.shift = shift]
    BY <1>3 DEF JobStart
  <2>2. job' \in Jobs /\ job'.pc \in {"idle", "rows"} /\ (job'.pc = "rows" => job'.shift \in Shifts)
    <3>1. CASE job' = NoJob("idle")
      BY <1>2, <3>1
    <3>2. CASE shift # NoShift /\ job' = [NoJob("rows") EXCEPT !.shift = shift]
      <4>1. shift \in Shifts
        BY <1>1, <3>2
      <4>2. PICK blank \in Jobs : blank = NoJob("rows")
        BY <1>2
      <4>3. blank.pc = "rows" /\ job' = [blank EXCEPT !.shift = shift]
        BY <3>2, <4>2 DEF NoJob
      <4> QED
        BY <4>1, <4>2, <4>3 DEF Jobs
    <3> QED
      BY <2>1, <3>1, <3>2
  <2> QED
    BY <1>1, <2>2, JobKeeps
<1>4. CASE JobFindAttendance
  <2>1. PICK found \in BOOLEAN : /\ job' = [job EXCEPT !.pc = "excused", !.found = found]
                                 /\ MarkedSince(Window(job.shift, now)) # {} => found
    BY <1>4 DEF JobFindAttendance
  <2>2. job.shift \in Shifts /\ job.pc = "rows"
    BY <1>1, <1>4 DEF JobFindAttendance
  <2>3. /\ job' \in Jobs /\ job'.pc = "excused" /\ job'.shift = job.shift
        /\ job'.found = found
    BY <1>1, <2>1 DEF Jobs
  <2>4. PICK from : from = Window(job.shift, now).from
    OBVIOUS
  <2>5. from \in Int
    BY <1>1, <2>2, <2>4, WindowFits
  <2>6. ASSUME ~found, NEW i \in DOMAIN rows \ torn, rows[i].status = "ABSENT"
        PROVE  rows[i].made < from
    <3>1. rows[i].in = NoTime /\ rows[i].made \in Int
      BY <2>6, RowsFit, TickFacts DEF AttendanceInv, Types, TypeOK, Rows
    <3>2. ~(rows[i].made >= from)
      BY <2>1, <2>4, <2>6, <3>1 DEF MarkedSince
    <3> QED
      BY <2>5, <3>1, <3>2
  <2> QED
    BY <1>1, <2>2, <2>3, <2>4, <2>6, JobKeeps
<1>5. CASE JobFindExcuse
  <2>1. CASE job' = NoJob("idle")
    BY <1>1, <1>2, <2>1, JobKeeps
  <2>2. CASE job' # NoJob("idle")
    <3>1. ~job.found /\ job.pc = "excused" /\ job' = [job EXCEPT !.pc = "mark"]
      BY <1>5, <2>2 DEF JobFindExcuse
    <3>2. job' \in Jobs /\ job'.pc = "mark" /\ job'.shift = job.shift /\ job'.found = job.found
      BY <1>1, <3>1 DEF Jobs
    <3> QED
      BY <1>1, <3>1, <3>2, JobKeeps DEF AttendanceInv, JobFits
  <2> QED
    BY <2>1, <2>2
<1> QED
  BY <1>3, <1>4, <1>5

LEMMA JobMarkKeeps == ASSUME AttendanceInv, JobMarkAbsent PROVE AttendanceInv'
<1>1. /\ rows \in Seq(Rows) /\ Len(rows) \in Nat /\ DOMAIN rows = 1..Len(rows)
      /\ torn \subseteq DOMAIN rows /\ now \in Ticks /\ job.pc = "mark" /\ job.shift \in Shifts
  BY RowsFit DEF AttendanceInv, Types, TypeOK, JobMarkAbsent
<1>2. PICK from \in Int : from = Window(job.shift, now).from
  BY <1>1, WindowFits
<1>3. PICK mark : mark = [NoRow EXCEPT !.made = now, !.win = from]
  OBVIOUS
<1>4. /\ mark \in Rows /\ mark.status = "ABSENT" /\ mark.in = NoTime /\ mark.win = from
      /\ Matches(mark)
  BY <1>1, <1>3, BlanksFit, TickFacts DEF NoRow, Rows, Matches
<1>5. /\ rows' = Append(rows, mark) /\ job' = NoJob("idle")
      /\ UNCHANGED <<now, setup, excused, closed, snapshot, call, calls, torn>>
  BY <1>2, <1>3 DEF JobMarkAbsent, JobRest
<1>6. /\ rows' \in Seq(Rows) /\ Len(rows') = Len(rows) + 1 /\ DOMAIN rows' = 1..(Len(rows) + 1)
      /\ \A i \in DOMAIN rows : rows'[i] = rows[i]
      /\ rows'[Len(rows) + 1] = mark
  BY <1>1, <1>4, <1>5
<1>7. \A i \in DOMAIN rows' : i \in DOMAIN rows \/ i = Len(rows) + 1
  BY <1>1, <1>6
<1>8. job' \in Jobs /\ job'.pc = "idle"
  BY <1>5 DEF NoJob, Jobs
<1>9. torn' \subseteq DOMAIN rows' /\ DOMAIN rows \subseteq DOMAIN rows'
  BY <1>1, <1>5, <1>6
<1>10. \A i \in DOMAIN rows' : rows'[i].status = "ABSENT" => rows'[i].in = NoTime
  BY <1>4, <1>6, <1>7 DEF AttendanceInv, Types, TypeOK
<1>11. Types'
  BY <1>5, <1>6, <1>8, <1>9, <1>10 DEF AttendanceInv, Types, TypeOK, setup, Jobs
<1>12. CallsFit'
  <2> SUFFICES ASSUME NEW c \in Callers PROVE Fits(call'[c], Len(rows'), torn')
    BY DEF CallsFit
  <2>1. call'[c] = call[c] /\ call[c] \in Calls /\ Fits(call[c], Len(rows), torn)
    BY <1>5 DEF AttendanceInv, CallsFit, Types
  <2>2. Len(rows) <= Len(rows') /\ Len(rows') \in Nat /\ torn \subseteq torn'
    BY <1>1, <1>5, <1>6
  <2> QED
    BY <1>1, <2>1, <2>2, FitsKept
<1>13. JobFits' /\ SnapshotsFit'
  BY <1>5, <1>8 DEF AttendanceInv, JobFits, SnapshotsFit
<1>14. HoursMatchTimes'
  BY <1>4, <1>5, <1>6, <1>7 DEF AttendanceInv, HoursMatchTimes, Matches
<1>15. AbsentOncePerShift'
  <2> SUFFICES ASSUME NEW i \in DOMAIN rows' \ torn', NEW j \in DOMAIN rows' \ torn', i < j,
                      rows'[i].status = "ABSENT", rows'[j].status = "ABSENT"
               PROVE  rows'[i].made < rows'[j].win
    BY DEF AbsentOncePerShift
  <2>1. i \in DOMAIN rows \ torn /\ rows'[i] = rows[i]
    BY <1>1, <1>5, <1>6, <1>7
  <2>2. CASE j \in DOMAIN rows
    BY <1>5, <1>6, <2>1, <2>2 DEF AttendanceInv, AbsentOncePerShift
  <2>3. CASE j = Len(rows) + 1
    <3>1. rows[i].made < from
      BY <1>1, <1>2, <2>1 DEF AttendanceInv, JobFits
    <3> QED
      BY <1>4, <1>6, <2>1, <2>3, <3>1
  <2> QED
    BY <1>7, <2>2, <2>3
<1> QED
  BY <1>11, <1>12, <1>13, <1>14, <1>15 DEF AttendanceInv

LEMMA TickKeeps == ASSUME AttendanceInv, Tick PROVE AttendanceInv'
<1>1. /\ now' \in Ticks /\ job' = NoJob("due")
      /\ UNCHANGED <<setup, rows, excused, closed, snapshot, call, calls, torn>>
  BY DEF Tick
<1>2. job' \in Jobs /\ job'.pc = "due"
  BY <1>1 DEF NoJob, Jobs
<1>3. Types'
  BY <1>1, <1>2 DEF AttendanceInv, Types, TypeOK, setup
<1> QED
  BY <1>1, <1>2, <1>3
     DEF AttendanceInv, CallsFit, JobFits, HoursMatchTimes, AbsentOncePerShift, SnapshotsFit

-----------------------------------------------------------------------------
(* Every step, and what follows                                            *)

LEMMA EmployeeKeeps ==
    ASSUME AttendanceInv, NEW c \in Callers, EmployeeActs(c) PROVE AttendanceInv'
<1>1. ClockIn(c) \/ ClockOut(c)
  BY DEF EmployeeActs, ClockInGPS, ClockInWiFi, ClockInQRCode, ClockOutGPS, ClockOutWiFi,
     ClockOutQRCode
<1> QED
  BY <1>1, ClockInKeeps, ClockOutsKeep

LEMMA StaffKeeps ==
    ASSUME AttendanceInv, NEW c \in Callers, StaffActs(c) PROVE AttendanceInv'
<1>1. \/ AdminClockInToday(c) \/ AdminClockOutToday(c) \/ ManualClockOut(c)
      \/ CreateAttendance(c) \/ AdminUpdateAttendanceRecord(c) \/ MarkExcusedAbsenceToday(c)
      \/ EmployeeAttendanceStats(c) \/ EnsureMonthlySnapshot(c)
  BY DEF StaffActs, EmployeeWorkSummary
<1> QED
  BY <1>1, ManualEntriesKeep, ClockOutsKeep, MarkExcusedKeeps, FreezingKeeps

LEMMA StutterKeeps == ASSUME AttendanceInv, UNCHANGED vars PROVE AttendanceInv'
  BY DEF vars, setup, AttendanceInv, Types, TypeOK, CallsFit, JobFits, HoursMatchTimes,
     AbsentOncePerShift, SnapshotsFit, Window, At, Day, Crosses

LEMMA StepKeeps == AttendanceInv /\ [Next]_vars => AttendanceInv'
<1> SUFFICES ASSUME AttendanceInv, [Next]_vars PROVE AttendanceInv'
  OBVIOUS
<1>1. Clients \subseteq Callers /\ Staff \subseteq Callers /\ Cron \in Callers
  BY DEF Callers
<1>2. CASE \E c \in Clients : EmployeeActs(c)
  BY <1>1, <1>2, EmployeeKeeps
<1>3. CASE \E c \in Staff : StaffActs(c) \/ StaffEdits(c)
  BY <1>1, <1>3, StaffKeeps, SettingsKeep
<1>4. CASE \E c \in Callers : Writes(c)
  BY <1>4, WriteRowKeeps, OtherWritesKeep DEF Writes
<1>5. CASE MonthlySnapshotJob
  BY <1>1, <1>5, FreezingKeeps DEF MonthlySnapshotJob
<1>6. CASE JobStep
  BY <1>6, JobLooksKeep, JobMarkKeeps DEF JobStep
<1>7. CASE Tick
  BY <1>7, TickKeeps
<1>8. CASE UNCHANGED vars
  BY <1>8, StutterKeeps
<1> QED
  BY <1>2, <1>3, <1>4, <1>5, <1>6, <1>7, <1>8 DEF Next

\* The inductive invariant: every handler in flight fits the rows, whoever else
\* wrote them meanwhile.
THEOREM AttendanceInvariant == Spec => []AttendanceInv
<1>1. Init => AttendanceInv
  BY InitFits
<1>2. AttendanceInv /\ [Next]_vars => AttendanceInv'
  BY StepKeeps
<1> QED
  BY <1>1, <1>2, PTL DEF Spec

\* The state stays in its types, and no row that was clocked in is ABSENT: the
\* statistics of a range, which look at clocked-in rows, never meet an absence
\* (determineAttendanceStatus and calculateHours, with every handler's write).
THEOREM AttendanceTypes == Spec => []TypeOK
<1>1. AttendanceInv => TypeOK
  BY DEF AttendanceInv, Types
<1> QED
  BY <1>1, AttendanceInvariant, PTL

\* Whoever wrote a row, employee, staff or both in turn, its hours are the time
\* between its clock-in and its clock-out, unless a handler wrote it from a
\* reading that somebody had overwritten.
THEOREM HoursReallyMatch == Spec => []HoursMatchTimes
<1>1. AttendanceInv => HoursMatchTimes
  BY DEF AttendanceInv
<1> QED
  BY <1>1, AttendanceInvariant, PTL

\* The absent job, which runs at every tick while a shift is over, marks the
\* no-show once, whatever requests write between its reading and its writing.
THEOREM NoShowsAreMarkedOnce == Spec => []AbsentOncePerShift
<1>1. AttendanceInv => AbsentOncePerShift
  BY DEF AttendanceInv
<1> QED
  BY <1>1, AttendanceInvariant, PTL

\* A frozen snapshot, of the month or of a closed pay period, accounts for every
\* expected day once, or says that nothing was observed, whatever the working
\* days, the holidays and the rows were when it was computed.
THEOREM SnapshotsReallyAddUp == Spec => []SnapshotsAddUp
<1>1. AttendanceInv => SnapshotsAddUp
  BY DEF AttendanceInv, SnapshotsFit, SnapshotsAddUp, AddsUp
<1> QED
  BY <1>1, AttendanceInvariant, PTL

=============================================================================
