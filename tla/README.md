# Datafin HRMS backend: TLA+ models and proofs

This directory holds TLA+ models of the concurrent core of the backend (payroll, pay
periods, leave, attendance, warnings, batches, employees, salary structures, patrols), the TLC
configurations that check them and proofs that TLAPS checks. Paths below are
relative to the repository root.

## The system

An Express API over PostgreSQL (through Prisma) with BullMQ queues in Redis. One
node process (`bin/index.js`) serves HTTP, runs the queue workers and the cron jobs.
No handler locks rows and few use transactions: a handler reads, awaits, decides and
writes, and everything else can run at each `await`. That is where the hard behaviour is.

| Component | State | Operations | Hard behaviour |
|---|---|---|---|
| Payroll run processing (`workers/payroll.worker.js`, `services/payroll-run.service.js`, `queues/payroll.queue.js`) | run status and totals, progress row, payslips, jobs | parent job, employee jobs, progress report, finalization | parallel jobs, retries, stalled jobs, crashes, lost updates |
| Payroll run requests (`controllers/payroll-run.controller.js`) | run row | create, edit, start, delete, retry, single employee | check-then-act against other requests and the worker |
| State machines (`state-machines/*.js`) | none | `validateTransition` | guards that are never called, see below |
| Pay period (`controllers/pay-period.controller.js`, `services/pay-period-automation.service.js`, `automations/pay-period-auto-close.job.js`) | status, pause flag, `updatedAt` | create, edit, PATCH status, delete, pause, resume; automation after start and finalization; two cron jobs | stale unconditional writes, grace period, cron against requests |
| Overtime approval | decision per employee and period | record, decide | gates payroll and auto-close |
| Leave (`controllers/leave.controller.js`, `automations/leave-accrual.job.js`, `services/leave-allocation.service.js`) | requests, balances, policy | request, two-level approval, reject, cancel, adjust, accrue, allocate | balance bookkeeping under races, jobs against requests |
| Attendance, absence (`controllers/attendance.controller.js`, `utils/attendance.util.js`, `automations/absent.automation.js`, `services/employee-attendance-stats.service.js`) | attendance rows, excuses, working days, frozen statistics | clock-in and -out (GPS, Wi-Fi, QR), manual entries, corrections, excuses, settings, absent job, snapshots | double clock-in, absent job racing clock-in and excuse, snapshots racing corrections |
| Employee warnings (`controllers/employee-warning.controller.js`) | warning status, attachments, follow-up | draft, review, issue, acknowledge, refuse, appeal, decide, resolve, void, escalate | long protocol with many actors, every write by id |
| Batch jobs (`controllers/batch-job.controller.js`, `services/batch-job-processor.service.js`, `queues/batch.queue.js`) | batch and row status, queue job | create, start, process, retry | partial failure, redelivery, inline fallback |
| Invitations, employees (`controllers/invitations.controller.js`, `employee.controller.js`, `department.controller.js`) | invitation and user rows, the department's manager | invite, accept, expire, hire, update, terminate, reactivate, archive, restore | multi-write acceptance, expiry race, role and manager in two rows |
| Salary structures, allowances, deductions (`controllers/salary-structure.controller.js`) | effective-dated structures and lines, stored gross salary | create, update, activate, deactivate, delete, lines | one structure in force at a time, gross beside its lines |
| Pay schedules | generated periods | generate | overlap, calendar arithmetic |
| Patrols (`controllers/patrol.controller.js`, `automations/patrol.cron.js`, `utils/patrol.util.js`) | sites, checkpoints, schedules, one session per slot, scan events | scan, generate sessions, give verdicts, edit sites, checkpoints, schedules | counts written from a stale reading, cron against scans |
| Payslips and statutory documents | files | distribute, render | mostly I/O |
| Calculation rules, formulas, salary arithmetic | rules | evaluate | float arithmetic, pure |
| Organisation data, tenants, authentication, notifications, audit | rows | single-row edits, append-only logs | little |

Components interact through the database. `startPayrollRun` moves the pay period
to PROCESSING and queues the parent job; the parent job fans out employee jobs; the
employee job that finds the run complete finalizes it and lets the automation look at
the period; the status check job (every 15 minutes) repeats that look, and the
auto-close job (hourly) closes COMPLETED periods 48 hours after their last write if no
overtime is undecided. What makes each component correct:

- a run gets a verdict; COMPLETED means that everybody is paid once, and is final;
- totals stored with a run are those of its payslips;
- a period follows its runs, closes when it may, and stays closed;
- leave balances agree with the requests they were charged for, nobody is away twice
  on one day, and decided requests stay decided;
- a no-show is marked, and once; hours follow the times; frozen statistics account for every day;
- a warning that counts was issued, an issued case stands, and every letter of it says what the case says;
- a batch row makes at most one employee, says what it did, an allocation leaves a
  gross salary that fits its line, and the batch ends;
- one salary structure is in force at a time, and its gross salary is that of its lines;
- an accepted invitation leaves what it promised; the department's manager has the role;
- a completed patrol round was walked, and a round that was not gets a verdict that fits its scans.

## Modules

| Module | Content |
|---|---|
| `PayrollMachines` | both state machines as predicates (`ValidRunTransition`, `ValidPeriodTransition`), the verdict `FinalStatus` |
| `RunLifecycle` | what a run promises: DRAFT, PROCESSING, then COMPLETED for good with everybody paid, or FAILED, which may be processed again |
| `PayrollWorker` | one run: parent job, employee jobs, progress row, finalization, retry and single-employee requests, failing calls, crashes |
| `PayPeriod` | one period, its runs seen through `RunLifecycle`, the handlers, workers and cron jobs that write it |
| `PayrollProofs` | of both: the worker's type correctness and safety invariants at any concurrency, with one job at a time the refinement of `RunLifecycle`; CLOSED is final for a period; runs move along their machine's edges, proved |
| `Leave` | one employee's requests, the decisions on them, the yearly entitlement rows, the policy and the jobs that write the rows |
| `MCLeave` | `Leave` with an allocation, two policies and the symmetry for TLC |
| `LeaveProofs` | its invariants and action properties, proved |
| `Attendance` | one employee's attendance rows, excuses and settings, the absent job, the month's and the period's snapshots |
| `MCAttendance` | `Attendance` with a day and a night shift |
| `AttendanceProofs` | its invariants, proved |
| `Warnings` | the warnings of one employee and every handler that changes one |
| `MCWarnings` | its symmetry |
| `WarningsProofs` | its invariants, proved |
| `BatchJobs` | one batch: its rows, the queue's job, the runs of the processor |
| `MCBatchJobs` | a smaller set of initial states |
| `BatchJobsProofs` | its invariants, proved |
| `SalaryStructures` | the salary structures of one employee |
| `MCSalaryStructures` | its symmetry |
| `SalaryStructuresProofs` | its invariants, proved |
| `Employees` | invitations, accounts and the manager of one department |
| `MCEmployees` | its symmetry |
| `EmployeesProofs` | its invariants, proved |
| `Patrols` | the rounds of one schedule: scans in flight, sessions, both cron jobs |
| `PatrolsProofs` | its invariants, proved |

No guard is ever called. `validateTransition` reads `stateNode.on[event].guard`
(`state-machines/payroll-run.machine.js:228-231`). With the xstate 5 of
`package-lock.json` `on[event]` is an array of transition definitions, so `.guard` is
`undefined`: all it finds out is whether the state has an edge for the event. That is
what `ValidRunTransition` and `ValidPeriodTransition` are; `canComplete` and the other
guards are not in the models, as they are not in the running program.

### PayrollWorker

Each action is the code between two awaits. `parent.pc` and `task[e].pc` name the next
call; the other fields of `task[e]` are the locals of `processEmployeeJob`,
`updatePayrollProgress` and `finalizePayrollRun`. The three reads of one
`Promise.all` may happen in any order (`pend`). A payslip row is `<<e, k>>`, the k-th
row created for employee e; totals are modelled by the set of rows they were summed
over, separately for the amounts `processSingleEmployee` writes back (`pay`) and for
`totalAllowances`, which it leaves out. `job[e]` is the queue's record: attempts and
stalls are BullMQ's counters, a throw backs the job off until `MaxAttempts`, a job
whose process died is handed out again `MaxStalls` times. `progress.lowered` is history:
a reporter wrote a count of failures over a higher one that it had not read, the lost
update of `updatePayrollProgress`. `Crash` is the death of the process, not the graceful
`stopAllWorkers`.

Bounds: `N` employees, `MaxFaults` failing database or Redis calls, `MaxCrashes`,
`MaxRequests` administrator requests (one in progress at a time), and `MaxTrouble` of all three
together, where a retry of a failed run is always allowed. `Interval` is
`PROGRESS_UPDATE_INTERVAL` scaled down, so that reports happen inside, at and after
an interval with two or three employees.

Abstractions: `processEmployeePayroll` succeeds or throws; the parent's job is not
removed from the queue (it is, a day later); a `findFirst` with `include` is one read;
PDF, GRA and SSHFC documents are written after the verdict and not read back; the
run's employees and `totalEmployees` do not change once it is started.

### PayPeriod

`handler[a]` is what each request, worker or job in flight has decided and will do
next. All status writes are one action, `WriteStatus`: in the code they are the same
unconditional `update`. `old` says whether the row was written after the handler
began to read; `GraceElapses` (48 hours since `updatedAt`) waits until no old handler
is in flight, which is the assumption that no handler or job takes two days. A failing call ends its
handler, except that `startPayrollRun` goes on to queue its run when the period update
fails. The job's own `shouldAutoClose` is dropped because `autoClosePayPeriod` repeats
it before anything is written. Overtime is one flag, whether some recorded overtime
has no decision. Period dates and their overlap checks, editing of DRAFT periods and
mails are left out. The worker is replaced by the run lifecycle that
`worker_sequential` shows it implements with one job at a time. Init, Next, the
specifications and the type invariant carry the prefix `Period`, so that
`PayrollProofs` can speak of this module and of `PayrollWorker` in one place.

### Leave

`call[c]` is the handler a caller has in flight: `Clients` are calls of the employee,
`Staff` calls of managers and HR. `pc` names its next write, and `req`, `status`,
`dates`, `method` and `seen` hold what it has read. `row[y]` is the `YearlyEntitlement` of year y
(`NoRow` if there is none; the pair of employee and year is unique, so the second of
two creations fails). The statements of a `$transaction` are one action (`Decide`,
`Recompute`): they write by id, and the counters are incremented in the database.
Everything else is read at one `await` and written at a later one:

- `createLeaveRequest` is `RequestLeave` (overlap), `FindRow`/`MakeRow` (balance),
  `InsertRequest` and, in a call of its own, `BookDays`;
- `hrApproveLeaveRequest`, `rejectLeaveRequest` and `cancelLeaveRequest` are
  `StartDecision` (the check) and `Decide` (the write); `managerApproveLeaveRequest`
  reads the policy in between (`CheckTier`);
- `updateLeavePolicy` writes the policy and may go on with
  `propagateAllocationToEntitlements`: `CollectRows`, then `PropagateTo` row by row;
- a year begins with the year-end job `due`; it reads (`ReadRows`) and creates
  (`OpenNewYear`). `Accrue` and `ExpireCarryover` are monthly and may happen at any time.

Four history variables say which exceptions happened: `overruled` (a settled request was
written again), `doubled` (requests whose create calls ran side by side), `unbooked`
(requests whose create call failed or died between the insert and the booking) and `drifted` (the
years whose row an untimely decision touched: one that met a request already settled, not
yet booked, or booked in another year). `booked` is a history field too: the code does
not store which row holds the days. Only `unbooked` requests and `drifted` years are exempt
from the ledger, one by one: a year that no untimely decision touched must balance
whatever happened in the other, and a request that is neither about to be booked nor named
in `unbooked` must be booked.

Abstractions: `Tier[y]` stands for the tenure tiers and the pro rata of
`computeInitialAllocation`; employees with `Tier[y] = 0` are the ineligible ones;
every day of the model is a working day; the sick pool is kept by the same code in
columns of its own and is left out, requests in `Unpooled` draw from no pool;
notice periods, blackout windows, documents, mails and the reminder jobs are left
out. Leave types do not change. Bounds: `LastDay`, `LastYear`, `MaxCalls` handlers
started, `MaxAdjusted`.

### Attendance

`call[c]` is the handler a caller has in flight, between what it read and its write;
`call[Cron]` is the monthly snapshot job. `rows` are the attendance rows in order of
creation, with their two times, the hours stored beside them and the status; `made`
and `win` are history fields of a row (when it was made, and from when the shift it
was made for began). `excused` are the dates of the active exceptions. The absent job
(`job.pc`) reads the rows and then the excuse in two calls and marks in a third, once a
tick if the shift is over. Handlers of each method (GPS, Wi-Fi, QR; by the employee or
by an administrator) differ in their guards and are operators of their own. Saving a
correction recomputes hours and status with the shift of that moment. `torn` names rows
that a handler wrote from a reading that was stale, and the properties that can only be
claimed without such a write exempt those.

Abstractions: time is in ticks, three to the day, longer than the grace period and
the 15 minutes of an early arrival; the server, the tenant and UTC share one midnight;
one shift at a time; distances, photos and late reasons are left out. Bounds:
`LastTick` (two days, one night), `MaxCalls` handlers.

### Warnings

`row[w]` is the warning with its attachments; `call[c]` holds the columns a handler is
about to write, after the check of the status it read (`Reads`, `seen`), and the write is
`update` by id (`Patched`): that is how every handler of the controller works. Issuing is
`Issues`, the update, and then `Sends`: the letter is printed from the row that the update
gave back, is filed and mailed later, and may fail, which is only logged (`Fails`).
`ResendWarningIssuedNotification` prints and mails again while the warning is ISSUED. A
letter holds the facts and the issue note, or the reason where there is no note; it holds
neither severity nor attachments. `letters` are those that went out; `issued` and `torn` are
history: what HR issued, and what was written out of another status than was read.

Abstractions: LOW and MEDIUM are treated by the code as HIGH is; the facts of a case
are one value; timeline entries, other mails and follow-up dates are left out. Bounds: a
new warning takes the identifier of one that is no longer worked on, so the number of
warnings in a life is not bounded while one is followed at a time; two handlers in flight.

### BatchJobs

`request` counts the handlers before each of their calls, `run[p]` is a run of
`processBatchJobById`, by the queue's worker or by the server itself when the queue is
off or does not answer. `queue` is BullMQ's record of the job, whose identifier is that
of the batch: a second `add` is ignored while the record lasts (`Forget` removes it).
A row is its effect, its verdict and the counters. The effect is as many calls as in the
code, without a transaction: an employee and then the salary structure, whose failure is
swallowed (`CreateEmployeeInternal`, `CreateSalaryStructure`, `SalaryFault`); for an
allocation the old line goes, the new one comes, the structure is read and its gross is
written (`DeleteLine`, `CreateLine`, `ReadStructure`, `RecalcGrossForStructure`).
`pay[a]` is the structure of an address. `Crash` stops every run and request; BullMQ hands the job out again `MaxStalls` times. `made` and `tries` are
history: how often a row had its effect and was attempted; `clean` says that no request
met another or a run, and that no run was queued behind the server's back (an enqueue whose
reply is lost is run inline as well).

Abstractions: an invitation and a bulk update are one step, a single write in the code but for a
base salary, whose structure is made or not; the lines of a batch are of one type; a
database call that fails has written nothing; rows are told apart by their address. Bounds: two rows, which may name one address or two; two
requests at once, three in all; one failing call; one crash; one inline run at a time.

### SalaryStructures

A structure is in force from `from` to `to`. `request[c].pc` names a handler's next call:
`createSalaryStructure` ends the structure in force (`EndActive`), looks for overlaps
(`CheckOverlap`), inserts (`InsertStructure`) and creates lines one by one; line and
base handlers write a line, read all of them (`ReadLines`) and store the gross salary
(`WriteGross`). A batch row and termination write the same rows. `torn` names the
structures on which two handlers met or one stopped halfway; `clean` says that no dates
were patched, no end was moved later and no two handlers that open a structure met.

Abstractions: an instant is midnight, the hour things happen or the evening of a day,
which is all the code's date arithmetic tells apart; a gross salary is the pair of what it
was computed from; deductions do not enter it. Any call may fail (`Fault`). Bounds: two
structures, one allowance type, two base salaries, two days, three requests, two in flight.

### Employees

Accounts are named by their address, as the unique key names them, archived ones too.
`acceptInvitation` is `FindAccount`, then `JoinAccount` (password, acceptance and manager are
one transaction) or `MakeAccount`, `MarkAccepted` (acceptance and manager), `CreateSalary` and
`CreateEntitlement`, each a call of its own; `createEmployee`, `updateEmployee`, bulk
updates and `updateDepartment` are `CreateUser`, `UpdateUser`, `ClearManager`, `AssignManager` and
`NameManager`. `Lapse` is the moment an invitation expires, `ExpireInvitation` the write that
says so. The department is vacant where its manager does not work (`Vacant`: neither ACTIVE
nor PROBATION), but `sendInvitation` is refused only beside a manager who is ACTIVE.
`loose` names accounts that were named manager without the role for it (the role changed since
it was read, or is another than the invitation's), or were demoted by a handler that had read
another role or failed before it cleared the department; `unpaid` those a call for which
failed, or that had their credentials from elsewhere.

Abstractions: one department; a termination leaves the status INACTIVE; addresses, numbers, names and
placement are not edited; what a handler reads and checks before its first write is one
step. Bounds: two addresses, two invitations, the statuses ACTIVE and PROBATION given (and INACTIVE by
termination), two handlers at a time, four requests.

### Patrols

`session[s]` is the `PatrolSession` of the slot that starts at s, with its scan events;
`scan[c]` a call of `scanCheckpoint` between two of its awaits: `ScanCheckpoint` (the
checkpoint), `FindSchedule`, `FindSession`, `CreateSession` where there is none yet,
`SaveScan` (the transaction). `generator` and `closing` are what
`generateUpcomingSessions` and `closeExpiredSessions` have read and not yet dealt with.
Both unique keys hold: a call that would make the second session of a slot, or the
second event of a checkpoint in a session, fails. Administrators change sites, checkpoints
and schedules in single writes or one transaction (`setupSite`). `late` names sessions whose
verdict was written from a stale reading, or which were scanned by a call that was
under way when they had theirs. `need` is a history field, the number a completed round was compared with.

Abstractions: one site, one schedule, one guard, whose device may send scans while
others are in flight; the window opens at 0; days do not repeat; reminders and mails are
left out, and so is `updateSite`, which changes nothing that scans or jobs look at. A
failing call, or the death of the server, ends a handler or a job (`Fault`). Bounds: two
checkpoints, two scans, three administrative writes, one fault, a window of one tick with
a tick after it, slots of one tick. A scan or the generator sees at most one tick.

## Runs

| Run | Instance | Shows |
|---|---|---|
| `worker_sequential` | N=3, interval 2, concurrency 1, 3 attempts, calculations may fail | `ImplementsLifecycle`, `RunSettles` |
| `worker_parallel` | N=2, concurrency 2, 2 attempts, one stall; any two of two failing calls, a crash and a single-employee request; a retry of a failed run | `WholeUnlessLowered`, `DuplicatesNeedRequests`, `ProgressBacked`, `TypeOK` |
| `worker_unpaid` | N=2, concurrency 2, 2 attempts, calculations may fail | violation of `CompletedMeansPaid` |
| `pay_period` | one client, two runs with their workers, both cron jobs, one failing call | `ClosedIsFinal`, `PeriodCatchesUp`, `EligiblePeriodCloses`, `PeriodTypeOK` |
| `leave` | two requests, two calls of the employee and two of staff at once, three calls in all, two days, two years | `TypeOK`, `LedgerBalanced`, `AwayOnce`, `SettledStaysSettled`, `BookingWithinBalance`, `ReallocationKeepsFloor`, `NothingCarriedTwice` |
| `attendance` | two requests of the employee, one of staff, two handlers started in all, the jobs, a day and a night shift, two days | `TypeOK`, `HoursMatchTimes`, `AbsentOncePerShift`, `SnapshotsAddUp`, `NoShowIsRecorded` |
| `warnings` | two HR administrators, the employee; one warning at a time, two handlers in flight | `TypeOK`, `NothingUnissuedCounts`, `LettersTellTheCase`, `IssuedCasesStand` |
| `batch` | two rows, three requests, two attempts, one stall, one failing call, one crash | `OneEachPerAddress`, `RowsTellTheTruth`, `AllocationsAreWhole`, `CompletedIsWhole`, `QueuedBatchEnds` |
| `salary` | two structures, two handlers at a time, three requests | `OneInForceIfKept`, `GrossMatchesLines` |
| `employees` | two addresses, two invitations, two handlers at a time, four requests, working or on probation | `TypeOK`, `ManagerHasRole`, `PromisesKept` |
| `patrols` | two checkpoints, two scans at a time, three administrative writes, one fault | `RoundsAreWalked`, `VerdictsFit`, `ExpiredSessionIsClosed` |
| `salary_overlap` | three structures, five days, one handler at a time | violation of `CreateKeepsApart` |

Why the bounds are enough: two employees are the first instance in which one job can
report for another, the third (`worker_sequential`) adds a job between two reports; the
three attempts there are failures and retries that interleave with other jobs' reports. In
`worker_parallel` both jobs are at work at once, so that two count, sum and decide beside each other, a
payslip is saved between another job's sum and its write, and one report overwrites another; the
crash can hit every await of the parent, of a job and of the request, and the stall
hands the job out again; a failing call may be any, also the one that creates the
progress row; two of them exhaust the parent's two attempts, which is the only way to a retry that
the queue accepts; and each of crash, failing call and request meets each other one. Its four properties are proved for any number of everything, and the run's
mutants are found within these bounds. Two runs and one client already hold five actors that
may write the period; the proofs cover any number.

For leave, two requests overlap, two handlers race for one request and a third call is
a policy change, an adjustment or a row creation beside them; two years have one turn of
the year; a row of two days and requests of one or two make both sides of every
comparison with a balance happen. All seven are proved for any number.

For attendance, two days hold the end of a day shift, a night shift that crosses midnight, a
month that ends on the first day and a period that ends on the second; the races are
between two handlers and a job. A warning is written by its id, so handlers of two
warnings do not meet, and two in flight make every stale write; a manager's handlers are those of
an administrator with one more check, so a second administrator stands for them. Two batch rows of one
address are the first that can collide; three requests are a creation, a start and a
retry; the crash and the failing call may be anywhere, also one after the other. That every employee has
a salary structure before the batch (`MCInit`) loses nothing: an allocation refuses one who has
none as it refuses an unknown address. Two
structures can overlap, and a third request makes a handler meet two others' work. Two
addresses let the department's manager change hands; four requests are an invitation, its
acceptance, and two handlers beside it (an archive and a hiring, a demotion and a naming).
The invariants of `attendance`, `warnings`, `batch`, `salary` and `employees` are proved for any number
of everything. In `patrols` two scans
are the first that can lose a count, of two checkpoints or of one, and both slots that touch at a tick exist;
its invariants are proved for any number of everything.

The type invariants of `Patrols`, `BatchJobs` and `SalaryStructures` are proved rather than
run (`PatrolTypes`, `BatchTypes`, the conjunct `Shapes` of `SalaryInv`).

Deadlock checking is on for `leave`, where a job or a crash can always follow. It is off
elsewhere: a run that has its verdict, a closed period, an ended batch and an instance
whose requests are used up may stop, and so may one whose last day is over.

Fairness. The queue hands out waiting jobs, delayed jobs are promoted, stalled ones
reclaimed, and a processor whose awaited call returns runs on: weak fairness of each
of these, in `PayrollWorker` and in `BatchJobs` (`Fetch`, `Promote`, each run's next
call). Cron ticks for ever and time passes: weak fairness of `CheckStatus`,
`ConsiderClosing` and `GraceElapses`, in `Attendance` of the absent job's steps, and in
`Patrols` of `closeExpiredSessions` (every 15 minutes, whatever became of its last run).
Requests, faults, crashes, failures of calculations and overtime are never forced.
`Leave`, `Warnings`, `SalaryStructures` and `Employees` state no liveness and need no fairness.

## What the violations say

- `worker_unpaid`: **a COMPLETED run can hold an employee who was not paid.** The jobs of
  two employees are at work. The second has its payslip and has read the progress row; the
  first fails, counts itself (`failedEmployees` = 1), sees that everybody is accounted for and goes on
  to finalize. The second now writes what it had read, no failure. `finalizePayrollRun` reads no failure
  and writes COMPLETED (`workers/payroll.worker.js:187`), although
  `Datafin-HRMS-Docs/docs/payroll/payroll-business-flow.md:765` says that then "All employees
  processed successfully". Nothing but a calculation failed. `WholeUnlessLowered` says
  that this lost update is the only way, and `AloneCompletedMeansPaid` that it takes
  parallel jobs.
- `salary_overlap`: **creating a structure can make two others overlap.**
  `createSalaryStructure` ends the structure in force the evening before the new one
  starts, even if that is later than its end, and looks for overlaps of the new one
  alone. With a structure in force until day 1, another scheduled from day 2, a third
  from day 4 moves the end of the first over the second, although the comments promise
  to "prevent overlapping salary structure periods" and "only one active salary structure
  per employee" (`controllers/salary-structure.controller.js:701`, `:672`).

## Observations

Behaviour met while modelling. The models contain it; the properties above are those
that hold beside it.

Payroll and pay periods
- With two or more jobs in parallel (the default is 5) COMPLETED is not terminal: both
  reporters read PROCESSING and a full count; the second to finalize finds COMPLETED, has
  its candidate rejected and writes FAILED.
- A run can stay PROCESSING without any failure: only every fifth job, the last index
  and failing jobs report, and the last index may report before an earlier job has saved
  its payslip. With one job at a time this cannot happen (`worker_sequential`).
- Failed attempts are counted as failed employees, so a run can be declared FAILED before
  its retries; a run that FAILED through its employees cannot be retried (its parent job
  is completed) nor started again (the job id is taken).
- `processSingleEmployee` on a COMPLETED run leaves `totalAllowances` behind.
- `retryPayrollJob` writes PROCESSING after `job.retry()`, over whatever verdict the retried
  job has given by then; nobody is left to give another one.
- If the progress row cannot be created, no job ever finalizes the run: it stays PROCESSING.
- Two runs of a period can be processed together: the check looks for PROCESSING, which
  only the worker writes. A CLOSED period can hold a DRAFT run, inserted between the last
  check and the write. A period below CLOSED can move back by a stale write and is
  repaired by the status check job.

Leave
- An approved request can be cancelled by a cancellation that read it before the
  approval; its days stay used and are taken from the pending days as well.
- Overlapping requests can both be made by two calls at once.
- Carryover can be lost: the year-end job skips an employee whose row of the new year
  exists, and a balance lookup after midnight is enough to create it.
- Of two adjustments at once one is lost.
- A request whose create call fails between insert and booking stays open without ever being
  in `pendingDays`; a decision on it takes days out of the row that were never added.
- A request decided twice, or in another year than it was booked in, makes the counters differ from
  "usedDays: Approved leaves" and "pendingDays: Pending requests" (`prisma/schema.prisma:1570-1571`) for good.

Attendance
- A double tap creates two attendance rows of one day.
- An early clock-in before a night shift falls outside the window the absent job looks
  at: the employee is marked absent as well.
- An ABSENT row can be clocked out by an administrator.
- The absent job knows neither holidays nor approved leave.
- Closing a period before its end counts its future days as absences.
- `utils/attendance-penalty.util.js` is not called; `services/pay-period-attendance-snapshot.service.js` is empty.

Warnings
- A stale submit or return takes an issued warning back to the pipeline, a stale delete
  deletes it, and an edit in flight changes the facts of an issued one.
- `Datafin-HRMS-Docs/docs/employee-warning-flow.md:119` wants a mandatory follow-up for every FINAL
  warning, under "Recommended" (`:116`) and again in a list of things to do (`:513`); the code makes one only
  where a review date is given (`:424` says no more).
- An ISSUED warning may have no letter, neither filed nor mailed: failures are logged only, and an
  employee without an address is not written to. The letter names neither the severity nor the
  attachments, and prefers the note of the issue to the reason.
- A decision to uphold writes back the severity it read: one that is late can undo the
  amendment of an earlier appeal.
- A warning ESCALATED after its appeal was upheld can be appealed again and keeps the old
  outcome meanwhile; even a RESOLVED one can be voided.

Batch jobs
- `createLeaveBalanceUpdateBatch` cannot succeed: it does not wait for its batch code,
  filters on a role that does not exist and writes a column that does not exist.
- After a crash between a row's effect and its verdict the row ends FAILED ("already
  exists") although its employee was made.
- A row can say SUCCESS although the new employee has no salary structure: that failure is
  only logged. A FAILED allocation may have lost the old line while the gross still counts it.
- When the reply of an enqueue is lost, the batch runs inline and in the queue.
- A batch restarted while the queue remembers its job is never worked on; a retry during
  the back-off can leave PENDING rows in a COMPLETED batch.
- Starting twice can write PROCESSING over COMPLETED; an inline run that dies leaves the
  batch PROCESSING for ever.
- A batch whose rows could not be created can be started and completes without a row.

Salary structures
- A structure created for a date before the one in force leaves that one with an end
  before its start; a refused overlap leaves the one in force ended, a gap.
- An invalid formula answers 400 after the structure or its lines were written.
- `updateSalaryStructure` compares its dates with no other structure.
- Termination leaves structures that start later; reactivation reopens none; setting an
  employee INACTIVE by an update ends none, and a structure can be created for one.
- An `endDate` at midnight makes the structure inactive on that day already.

Invitations and employees
- A STAFF account can become the department's manager: an invitation as DEPARTMENT_ADMIN is
  accepted by an address for which a STAFF account was made meanwhile, which keeps its
  role, although `controllers/department.controller.js:172` asks for the role.
- An invitation as DEPARTMENT_ADMIN is sent beside a manager on probation, and makes no manager
  when it is accepted.
- An archived or terminated manager stays the department's manager until another is named.
- `updateEmployee` does not normalise an address: two accounts may differ in case.
- An invitation accepted after its account was archived and restored replaces the
  password; one for an archived address answers 409 for ever.
- The write that marks an invitation expired can replace ACCEPTED.
- A crash after the account was made loses its salary and entitlement: the retry takes
  the path of an existing account.
- `createEmployee` makes no entitlement (`getHomeStats` does later, with another
  expiry of the carryover), and assigns no manager to a DEPARTMENT_ADMIN.

Patrols
- Two scans of different checkpoints that meet lose a count: the session stays short and
  ends INCOMPLETE although every checkpoint was scanned.
- A scan after COMPLETED finds no open session and answers 500 (the slot's session exists);
  so does one that loses the race with the hourly job. The job loses all of its other slots
  when it loses that race.
- A MISSED or INCOMPLETE verdict can be written over a round that is completed at the slot's end.
- Deactivating a checkpoint leaves open sessions that need it, which cannot be completed any more.
- Deleting a site stops neither its schedules nor the scans of its checkpoints.
- A scan at the very end of the window can make a session of no length.

## Proofs

All theorems hold for every value of the constants that satisfies the assumption of
their module (`WorkerAssumption`, `PeriodAssumption`, `LeaveAssumption`,
`AttendanceAssumption`, `WarningsAssumption`, `PatrolsAssumption`, `EmployeesAssumption`,
`BatchAssumption`, `SalaryAssumption`). They say that numbers are natural numbers, flags
Booleans, that a shift begins and ends within the day, and that a value that stands for none is none of the others. What a theorem
needs beyond that stands in its statement. The inductive
invariants below also hold in TLC on the runs' instances.

`PayrollProofs`, the worker
- `TypeCorrect`: `TypeOK` is inductive.
- `ProgressIsBacked`: payslips are never deleted, so a count read earlier is a lower
  bound; the invariant `CountInv` adds that bound for the counts held by jobs.
- `DuplicatesBounded`: a duplicate needs two writers that both found nothing. `DupInv`
  bounds the rows an employee has plus those that writers in flight may still add
  (`Potential`) by one plus the requests made (`Owed`).
- `CompletedRunsAreWhole`: no assumption beyond `WorkerAssumption`; any concurrency, faults,
  retries, redeliveries and crashes. `FirstRows`: before the first request a writer creates
  only an employee's first row. `WholeInv`: whoever found the run complete counted payslips, which are
  never deleted, and failures, which cannot fall unless `lowered`; so either a failure stands in the progress
  row and is read before the verdict, or every payslip was there before the sum was taken
  (`Counted`). A COMPLETED run therefore has all rows and their totals, and stays so, because all
  rows are there (`CompletedWhole`).
- `AloneCompletedMeansPaid`: with one job at a time nobody writes the progress row between
  a reporter's reading and its write (`Alone`), so nothing is ever lowered.
- `RunImplementsLifecycle` assumes `Sequential`: one job at a time, and
  no failing call, crash or request. Calculations may fail and jobs may be retried, for
  any number of employees, any interval and any number of attempts. All of it is needed: with
  two jobs at work a second finalization writes FAILED over COMPLETED, and a parent job
  that fails or is recovered writes PROCESSING or FAILED over it. `SequentialInv` says what a job alone at work may
  rely on: the parent job has fanned out before any employee job begins, what a job has
  read of the run, the progress row and the payslips is still so when it decides
  (`Knows`), and a COMPLETED run has one payslip for each employee and their totals. From
  it, from `TypeOK` and from `CountInv` each step is a step of `RunLifecycle` or changes neither
  `status` nor who is paid (`LifecycleStep`): only `MarkProcessing`,
  `SavePayslip` and `WriteFinal` are visible.

`PayrollProofs`, the period
- `PeriodTypeCorrect`: `PeriodTypeOK`.
- `ClosedPeriodsStayClosed`: no write is conditional, so the invariant is about time.
  `WritesDecidedEarly`: a pending status not older than the row was decided on a DRAFT
  or PROCESSING period that still is one. `NobodyWrites`: once the grace period is over,
  while the closer is at work and after it, the period is COMPLETED or CLOSED and no
  status write is pending. `GraceElapses` establishes the second from the first.
- `WorkerObeysTheMachine` and `PeriodRunsObeyTheMachine` tie the two modules together: a run
  moves only along the edges of `payroll-run.machine.js` (`MachineMove`), in the worker
  with one job at a time (`Sequential`; the writes are unconditional, so this rests on
  `LifecycleStep`), and in `PayPeriod` until it is deleted.

`LeaveProofs`
- `LeaveInv` is inductive: `TypeOK`, `AwayOnce`, and `CallsFit`, what the handlers in
  flight have read. A decision about to be written was read open; a create call holds a
  request that does not exist yet; what overlaps its dates is only what was made at its side
  (`SideBySide`: two create calls in flight know of each other). Without it a step
  that inserts or decides could not be told from one on an arbitrary request.
- `LeaveTypeCorrect` and `NeverAwayTwice` are conjuncts of it.
- `LedgersBalance`: `pending` and `used` are counters that `Decide` and `BookDays` increment
  and decrement, the days are a set of bookings, and `LedgerInv` says that each counter is
  the cardinality of its set, for every year that is not `drifted` (`Balanced`). It needs to
  know who may still book: a call about to book finds its request as it inserted it, not booked
  yet, and no other call is about to book the same one (`BookersFit`); what is
  booked is booked in a row that exists (`BookedFits`), and rows are never unmade (`RowsMade`).
  `NoneForgotten` is the other half: a request is unbooked only before its booking or in `unbooked`.
  Each step moves the bookings of one request from one set to another, which is
  a fact about cardinalities of unions of disjoint sets, so that no induction over data is needed.
- `SettledNeedsStaleRead`, `NeverOverbooked`, `ReallocationLeavesRoom` and
  `CarriesOnlyWhatIsLeft` are action properties; each follows from `LeaveInv` and
  the one or two actions that could violate it.

`AttendanceProofs`
- Handlers write what they made of a row they read earlier, by its id, so `AttendanceInv` says
  of each handler in flight what it will leave behind (`WriteFits`): an insert matches its
  times and is no absence; an update makes a matching row of the one that was read
  (`Changed`), if that has not been written since, and an absence only of an absence.
  `FitsKept` shows that neither more rows nor more stale ones disturb this, which is what
  lets one lemma serve every handler (`StartsKeeps`).
- `HoursReallyMatch` needs no more than that: a clock-out writes the hours since the
  clock-in it read, which is still the row's unless the write is `torn`.
- `NoShowsAreMarkedOnce`: the absent job marks two calls after it looked. `JobFits` says what it
  still knows then: having found no mark, every absence (but for those written from a
  stale reading) is older than the window of its shift. The clock stands meanwhile, and no
  handler makes an absence of anything else, whatever shift the employee is given.
- `SnapshotsReallyAddUp`: what `computeLiveEmployeeAttendanceStats` counts as late, absent and
  present are disjoint parts of the expected days that are not excused (`StatsFit`, by the
  cardinality of differences and disjoint unions), for any range of days.
- `AttendanceTypes` is a conjunct; it contains that an ABSENT row has no clock-in, which
  the job's search relies on.

`PatrolsProofs`
- `PatrolsInv` is inductive: `TypeOK`, both invariants of the run, `ScansFit` and
  `ScannedIsStarted`. A scan about to be saved holds a count read some awaits ago; scan
  events are never taken back (`Grown`), so that count is a lower bound of them
  (`ScansFit`), and of one more when a new event joins them. That is why a session that
  is complete by its count is complete by its events. `ScannedIsStarted` (whatever has a
  scan event has `startedAt`) is what makes MISSED right for a session that the job read
  as not started.
- `PatrolTypes`, `RoundsAreReallyWalked` and `VerdictsReallyFit` are conjuncts of it.

`WarningsProofs`
- Every write is by id, so what a handler is about to write is the only link between
  the row it read and the row it hits. `CallsFit` says of every write in flight what it may
  hold (`Lawful`): one that read a draft or a case in review leaves it in the pipeline or issues it and
  sets neither refusal nor outcome; one that read an issued warning touches neither facts,
  reason, note nor files and does not go back to the pipeline; a letter in flight
  prints the row as it is, unless that was torn.
- `NothingUnissuedEverCounts` rests on `CallsFit` and `Counts`, which holds of every
  warning, torn or not. `LettersTellTheirCases` rests on `Tells`, which holds of those no stale
  write hit: once issued they are out of the pipeline, and every letter is what the row would print.
- `IssuedCasesAreKept` is the action property: of a step that is not stale the status read is
  the status found, which for an issued warning is none of the pipeline.
- `WarningsTypes` is a conjunct. Its set `Data` of the columns that handlers write together
  is what makes `Patched` keep the types.

`BatchJobsProofs`
- `Fit` is `BatchInv`, of rows and runs, and `PayInv`, of the salary structures.
- `BatchInv` follows each row through runs that overlap: how often it was tried, whether it
  had its effect, and what each run at work on it holds (`AttemptFits`). A run that
  finds the address taken by the row itself is a second attempt, which is all that
  `VerdictsAreTrue` allows a FAILED row beside its effect. That a new employee whose row says
  SUCCESS has a salary structure unless a call failed is `NewOnesPaid`.
- `AddressesAreServedOnce`: employees are unique by address in the database, so that no row and no two
  rows of one address have more than one effect in every interleaving; for invitations,
  which have no such key, this holds while requests came alone (`clean`), because then no two runs are at
  work (`OneAtATime`) and the check of the address is still valid at the write (`ServedOnce`).
  Of updates and allocations, which may be repeated, it says nothing.
- `AllocatedLinesAreWhole`: `LinesFit` says what a run that is alone knows between deleting a line and
  writing the gross, and that a gross with the new line is written only by the last call of
  a row's effect, so that a row that never had its effect has not changed the gross.
- `CompletedBatchesAreWhole`: a run that is alone has as its work what is PENDING, and its tally
  is that of the rows (`RunsKnow`); once COMPLETED, nothing is left that writes (`CompletedIsLeft`).
- `BatchTypes` is a conjunct.

`SalaryStructuresProofs`
- `SalaryInv` has two halves. Of dates: while no two handlers that open a structure have met
  (`OneOpens`), what the one has checked still holds when it writes (`Opens`): nothing
  live overlaps what it is about to insert or reopen. `OneStructureInForce` follows.
- Of salaries: a structure that handlers did not meet on is held by one of them
  (`OneHolds`), and `Midway` says what this one has done and still owes between any two of
  its calls: which of base, lines, sum and gross salary agree. `GrossIsThatOfTheLines`
  is the case in which nobody holds it.

`EmployeesProofs`
- `EmployeesInv`: an account that exists goes on to exist and nobody edits an
  invitation, so a handler may rely on those in flight (`Fits`). A manager outside `loose`
  who has not the role is about to be cleared by a handler (`RoleFits`): whoever demotes goes on
  to clear, and whoever names without the role is in `loose`. Of accounts outside `unpaid`, the
  salary and the entitlement exist or the handler that made the account is still
  to make them (`PromiseFits`).
- `ManagersHaveRole`, `PromisesAreKept` and `EmployeesTypes` follow from it.

Only model-checked: liveness under fairness (`RunSettles`, `PeriodCatchesUp`,
`EligiblePeriodCloses`, `NoShowIsRecorded`, `QueuedBatchEnds`, `ExpiredSessionIsClosed`), which
the prover does not handle. Every invariant and action property of a passing run
is a theorem.

## Plan

1. The date handlers of `PayPeriod` and editing of DRAFT runs; the overlap of period dates, which
   `updatePayPeriod` and `createPayPeriod` check some awaits before they write.
2. The allocation by tenure (`Tier`) and pay schedule generation as pure algorithms
   against reference definitions.

## Not modelled

- Document rendering, mail, storage, authentication, notifications, audit: I/O or
  libraries, or append-only side effects whose failures are logged and ignored.
- Salary arithmetic and the formula language: floats, out of a model checker's reach.
- Organisation data and tenants: single-row edits with no state that two rows share
  (the department's manager is in `Employees`).
- Pay schedule generation, editing of DRAFT runs and of pay period dates: in the plan.
- Within the modelled components, what the sections above name under "Abstractions".
