-------------------------- MODULE PayrollWorker --------------------------
(***************************************************************************)
(* The processing of one payroll run: the parent job, the employee jobs it *)
(* fans out, the progress row they share, and finalizePayrollRun           *)
(* (workers/payroll.worker.js, services/payroll-run.service.js), with the  *)
(* two requests an administrator can send meanwhile (retryPayrollJob and   *)
(* processSingleEmployee of controllers/payroll-run.controller.js).        *)
(*                                                                         *)
(* Each action is the code between two awaits: what one database or Redis  *)
(* call reads or writes, and the local decisions taken on its result.      *)
(* Employees are numbered 1..N in queue order (index + 1 in the job data). *)
(* A payslip row is <<e, k>>: the k-th row created for employee e.         *)
(***************************************************************************)
EXTENDS PayrollMachines, FiniteSets

CONSTANTS
    N,             \* employees of the run (employeeIds.length)
    Interval,      \* PROGRESS_UPDATE_INTERVAL
    Concurrency,   \* WORKER_CONCURRENCY
    MaxAttempts,   \* attempts of a job
    MaxStalls,     \* BullMQ's maxStalledCount
    CalcMayFail,   \* may processEmployeePayroll throw?
    MaxFaults,     \* bound on failing database and Redis calls
    MaxCrashes,    \* bound on crashes of the node process
    MaxRequests,   \* bound on the administrator's requests
    MaxTrouble     \* bound on all three together, but for a retry of a failed run

ASSUME WorkerAssumption ==
    /\ N \in Nat \ {0} /\ Interval \in Nat \ {0} /\ Concurrency \in Nat \ {0}
    /\ MaxAttempts \in Nat \ {0} /\ MaxStalls \in Nat
    /\ CalcMayFail \in BOOLEAN
    /\ MaxFaults \in Nat /\ MaxCrashes \in Nat /\ MaxRequests \in Nat /\ MaxTrouble \in Nat

VARIABLES
    status,     \* PayrollRun.status
    progress,   \* the PayrollProgress row; lowered is history: a reporter
                \* overwrote a failure that it had not read
    slips,      \* the Payslip rows of the run
    totals,     \* the rows the run's stored totals were summed over
    parent,     \* the parent job and the local state of its processor
    job,        \* the queue's record of each employee job
    task,       \* the local state of each employee job's processor
    hr,         \* the administrator's request in progress
    budget      \* faults, crashes and requests so far

vars == <<status, progress, slips, totals, parent, job, task, hr, budget>>

Emp == 1..N
Row == Emp \X Nat

JobState == {"none", "waiting", "active", "stalled", "delayed", "completed", "failed"}

NoTask == [pc |-> "idle", failing |-> FALSE, found |-> FALSE, pend |-> {},
           status |-> "DRAFT", tracked |-> FALSE, count |-> 0,
           failed |-> 0, rows |-> {}]

NoJob == [state |-> "none", attempts |-> 0, stalls |-> 0]

NoRequest == [pc |-> "idle", emp |-> 1, found |-> FALSE, rows |-> {}]

-----------------------------------------------------------------------------
RowsOf(e) == {r \in slips : r[1] = e}

\* A plausible slip: the row is created without looking at what was found.
SavedBlindly(e, found) == slips \cup {<<e, Cardinality(RowsOf(e))>>}

\* createOrUpdatePayslip's second half: a new row unless one was found.
Saved(e, found) == IF found THEN slips ELSE slips \cup {<<e, Cardinality(RowsOf(e))>>}

\* A plausible slip: the last employee reports only on a full interval.
ReportsOnInterval(e) == e % Interval = 0

\* Does a successful job report progress?
Reports(e) == e % Interval = 0 \/ e = N

\* A throw counts as one attempt; the job backs off until they run out.
AfterFailure(j) == [j EXCEPT !.attempts = @ + 1,
                             !.state = IF j.attempts + 1 < MaxAttempts THEN "delayed" ELSE "failed"]

\* A job whose process died is handed out again, MaxStalls times.
AfterStall(j) == [j EXCEPT !.stalls = @ + 1,
                           !.state = IF j.stalls < MaxStalls THEN "waiting" ELSE "failed"]

Init ==
    /\ status = "DRAFT"
    /\ progress = [exists |-> FALSE, completed |-> 0, failed |-> 0, lowered |-> FALSE]
    /\ slips = {}
    /\ totals = [pay |-> {}, allowances |-> {}]
    /\ parent = [state |-> "waiting", attempts |-> 0, stalls |-> 0, pc |-> "idle", seen |-> "DRAFT"]
    /\ job = [e \in Emp |-> NoJob]
    /\ task = [e \in Emp |-> NoTask]
    /\ hr = NoRequest
    /\ budget = [faults |-> 0, crashes |-> 0, requests |-> 0]

Bearable == budget.faults + budget.crashes + budget.requests < MaxTrouble

Fault ==
    /\ budget.faults < MaxFaults /\ Bearable
    /\ budget' = [budget EXCEPT !.faults = @ + 1]

-----------------------------------------------------------------------------
(* The parent job: processPayrollRunJob                                    *)

ParentGoto(l) == parent' = [parent EXCEPT !.pc = l]

ParentFetch ==
    /\ parent.state = "waiting"
    /\ parent' = [parent EXCEPT !.state = "active", !.pc = "mark"]
    /\ UNCHANGED <<status, progress, slips, totals, job, task, hr, budget>>

\* The status is written without asking the state machine.
MarkProcessing ==
    /\ parent.pc = "mark"
    /\ status' = "PROCESSING"
    /\ ParentGoto("progress")
    /\ UNCHANGED <<progress, slips, totals, job, task, hr, budget>>

\* createProgress; payrollRunId is unique, and a failed insert is only logged.
CreateProgress ==
    /\ parent.pc = "progress"
    /\ progress' = [progress EXCEPT !.exists = TRUE]
    /\ ParentGoto("fanout")
    /\ UNCHANGED <<status, slips, totals, job, task, hr, budget>>

CreateProgressFault ==
    /\ parent.pc = "progress"
    /\ Fault
    /\ ParentGoto("fanout")
    /\ UNCHANGED <<status, progress, slips, totals, job, task, hr>>

\* addEmployeePayrollJobs; a job id that the queue already holds is ignored.
FanOut ==
    /\ parent.pc = "fanout"
    /\ job' = [e \in Emp |-> IF job[e].state = "none"
                             THEN [job[e] EXCEPT !.state = "waiting"] ELSE job[e]]
    /\ ParentGoto("ack")
    /\ UNCHANGED <<status, progress, slips, totals, task, hr, budget>>

ParentDone ==
    /\ parent.pc = "ack"
    /\ parent' = [parent EXCEPT !.state = "completed", !.pc = "idle"]
    /\ UNCHANGED <<status, progress, slips, totals, job, task, hr, budget>>

ParentFault ==
    /\ parent.pc \in {"mark", "fanout", "ack"}
    /\ Fault
    /\ ParentGoto("readStatus")
    /\ UNCHANGED <<status, progress, slips, totals, job, task, hr>>

ReadStatusForFailure ==
    /\ parent.pc = "readStatus"
    /\ parent' = [parent EXCEPT !.pc = "fail", !.seen = status]
    /\ UNCHANGED <<status, progress, slips, totals, job, task, hr, budget>>

ParentThrows ==
    parent' = [AfterFailure(parent) EXCEPT !.pc = "idle", !.seen = "DRAFT"]

MarkFailed ==
    /\ parent.pc = "fail"
    /\ status' = IF ValidRunTransition(parent.seen, "FAILED") THEN "FAILED" ELSE status
    /\ ParentThrows
    /\ UNCHANGED <<progress, slips, totals, job, task, hr, budget>>

\* The catch block's own call fails: the job fails with the status as it is.
CatchFault ==
    /\ parent.pc \in {"readStatus", "fail"}
    /\ Fault
    /\ ParentThrows
    /\ UNCHANGED <<status, progress, slips, totals, job, task, hr>>

ParentPromote ==
    /\ parent.state = "delayed"
    /\ parent' = [parent EXCEPT !.state = "waiting"]
    /\ UNCHANGED <<status, progress, slips, totals, job, task, hr, budget>>

ParentStep ==
    \/ ParentFetch \/ MarkProcessing \/ CreateProgress \/ FanOut \/ ParentDone
    \/ ReadStatusForFailure \/ MarkFailed \/ ParentPromote

-----------------------------------------------------------------------------
(* An employee job: processEmployeeJob                                     *)

Becomes(e, t) == task' = [task EXCEPT ![e] = t]

Active == {e \in Emp : job[e].state = "active"}

\* The worker takes the waiting job of the best priority (10 + index).
Fetch(e) ==
    /\ job[e].state = "waiting"
    /\ \A d \in Emp : job[d].state = "waiting" => e <= d
    /\ Cardinality(Active) < Concurrency
    /\ job' = [job EXCEPT ![e].state = "active"]
    /\ Becomes(e, [task[e] EXCEPT !.pc = "calculate"])
    /\ UNCHANGED <<status, progress, slips, totals, parent, hr, budget>>

\* processEmployeePayroll succeeds, and findFirst looks for the payslip.
Calculate(e) ==
    /\ task[e].pc = "calculate"
    /\ Becomes(e, [task[e] EXCEPT !.pc = "save", !.found = RowsOf(e) # {}])
    /\ UNCHANGED <<status, progress, slips, totals, parent, job, hr, budget>>

StartReport(e, failing) ==
    Becomes(e, [NoTask EXCEPT !.pc = "report", !.failing = failing,
                              !.pend = {"run", "slips", "progress"}])

\* Back from updatePayrollProgress: its locals are gone.
ToAck(e) ==
    Becomes(e, [NoTask EXCEPT !.pc = "ack", !.failing = task[e].failing])

\* processEmployeePayroll throws (no salary, overtime not approved, ...).
CalculationFails(e) ==
    /\ task[e].pc = "calculate"
    /\ CalcMayFail
    /\ StartReport(e, TRUE)
    /\ UNCHANGED <<status, progress, slips, totals, parent, job, hr, budget>>

SavePayslip(e) ==
    /\ task[e].pc = "save"
    /\ slips' = Saved(e, task[e].found)
    /\ IF Reports(e) THEN StartReport(e, FALSE) ELSE ToAck(e)
    /\ UNCHANGED <<status, progress, totals, parent, job, hr, budget>>

\* The payslip write, or job.updateProgress after it, throws into the catch.
JobFault(e) ==
    /\ task[e].pc \in {"save", "ack"} /\ ~task[e].failing
    /\ Fault
    /\ StartReport(e, TRUE)
    /\ UNCHANGED <<status, progress, slips, totals, parent, job, hr>>

\* updatePayrollProgress: three reads of one Promise.all, in any order.
ReadRun(e) ==
    /\ task[e].pc \in {"report", "decide"} /\ "run" \in task[e].pend
    /\ Becomes(e, [task[e] EXCEPT !.pend = @ \ {"run"}, !.status = status])
    /\ UNCHANGED <<status, progress, slips, totals, parent, job, hr, budget>>

ReadSlips(e) ==
    /\ task[e].pc = "report" /\ "slips" \in task[e].pend
    /\ Becomes(e, [task[e] EXCEPT !.pend = @ \ {"slips"}, !.count = Cardinality(slips)])
    /\ UNCHANGED <<status, progress, slips, totals, parent, job, hr, budget>>

ReadProgress(e) ==
    /\ task[e].pc \in {"report", "decide"} /\ "progress" \in task[e].pend
    /\ Becomes(e, [task[e] EXCEPT !.pend = @ \ {"progress"}, !.tracked = progress.exists,
                                  !.failed = progress.failed])
    /\ UNCHANGED <<status, progress, slips, totals, parent, job, hr, budget>>

\* No progress row: updatePayrollProgress returns.
NothingToReport(e) ==
    /\ task[e].pc = "report" /\ task[e].pend = {} /\ ~task[e].tracked
    /\ ToAck(e)
    /\ UNCHANGED <<status, progress, slips, totals, parent, job, hr, budget>>

\* What a job reports: the payslips it counted, and its own failure on top of
\* the failures it read.
FailuresOf(t) == IF t.failing THEN t.failed + 1 ELSE t.failed

WriteCounts(completed, failed) ==
    progress' = [progress EXCEPT !.completed = completed, !.failed = failed,
                                 !.lowered = @ \/ failed < progress.failed]

\* The last reporter of a run in processing goes on to finalize it.
GoesOn(e, processed) ==
    IF processed >= N /\ task[e].status = "PROCESSING"
    THEN Becomes(e, [NoTask EXCEPT !.pc = "totals", !.failing = task[e].failing])
    ELSE ToAck(e)

\* A plausible slip: the reporter counts its own employee on top of the rows.
WriteProgressCountingItself(e) ==
    LET t == task[e]
    IN  /\ t.pc = "report" /\ t.pend = {} /\ t.tracked
        /\ WriteCounts(t.count + 1, FailuresOf(t))
        /\ GoesOn(e, t.count + 1 + FailuresOf(t))
        /\ UNCHANGED <<status, slips, totals, parent, job, hr, budget>>

\* updateProgress writes what was read; the last reporter goes on to finalize.
WriteProgress(e) ==
    LET t == task[e]
    IN  /\ t.pc = "report" /\ t.pend = {} /\ t.tracked
        /\ WriteCounts(t.count, FailuresOf(t))
        /\ GoesOn(e, t.count + FailuresOf(t))
        /\ UNCHANGED <<status, slips, totals, parent, job, hr, budget>>

\* finalizePayrollRun: calculatePayrollRunTotals reads the payslips first.
ReadTotals(e) ==
    /\ task[e].pc = "totals"
    /\ Becomes(e, [task[e] EXCEPT !.pc = "decide", !.rows = slips, !.pend = {"run", "progress"}])
    /\ UNCHANGED <<status, progress, slips, totals, parent, job, hr, budget>>

\* finalizePayrollRun: the totals and the status are written together.
WriteFinal(e) ==
    LET t == task[e]
    IN  /\ t.pc = "decide" /\ t.pend = {}
        /\ status' = FinalStatus(t.status, t.failed)
        /\ totals' = [pay |-> t.rows, allowances |-> t.rows]
        /\ ToAck(e)
        /\ UNCHANGED <<progress, slips, parent, job, hr, budget>>

\* Whatever throws while reporting is caught and logged.
ReportFault(e) ==
    /\ task[e].pc \in {"report", "totals", "decide"}
    /\ Fault
    /\ ToAck(e)
    /\ UNCHANGED <<status, progress, slips, totals, parent, job, hr>>

\* The processor returns, or rethrows what it caught.
EndJob(e) ==
    /\ task[e].pc = "ack"
    /\ job' = [job EXCEPT ![e] = IF task[e].failing THEN AfterFailure(@)
                                 ELSE [@ EXCEPT !.state = "completed"]]
    /\ Becomes(e, NoTask)
    /\ UNCHANGED <<status, progress, slips, totals, parent, hr, budget>>

\* The back-off of a failed attempt is over.
Promote(e) ==
    /\ job[e].state = "delayed"
    /\ job' = [job EXCEPT ![e].state = "waiting"]
    /\ UNCHANGED <<status, progress, slips, totals, parent, task, hr, budget>>

TaskStep(e) ==
    \/ Calculate(e) \/ CalculationFails(e) \/ SavePayslip(e)
    \/ ReadRun(e) \/ ReadSlips(e) \/ ReadProgress(e)
    \/ NothingToReport(e) \/ WriteProgress(e) \/ ReadTotals(e) \/ WriteFinal(e)
    \/ EndJob(e)

-----------------------------------------------------------------------------
(* The node process dies: every processor and request loses its local      *)
(* state, and the queue finds the jobs' locks expired later.               *)

Stalled(j) == IF j.state = "active" THEN [j EXCEPT !.state = "stalled"] ELSE j

Crash ==
    /\ budget.crashes < MaxCrashes /\ Bearable
    /\ budget' = [budget EXCEPT !.crashes = @ + 1]
    /\ parent' = [Stalled(parent) EXCEPT !.pc = "idle", !.seen = "DRAFT"]
    /\ job' = [e \in Emp |-> Stalled(job[e])]
    /\ task' = [e \in Emp |-> NoTask]
    /\ hr' = NoRequest
    /\ UNCHANGED <<status, progress, slips, totals>>

Reclaim(e) ==
    /\ job[e].state = "stalled"
    /\ job' = [job EXCEPT ![e] = AfterStall(@)]
    /\ UNCHANGED <<status, progress, slips, totals, parent, task, hr, budget>>

ParentReclaim ==
    /\ parent.state = "stalled"
    /\ parent' = AfterStall(parent)
    /\ UNCHANGED <<status, progress, slips, totals, job, task, hr, budget>>

-----------------------------------------------------------------------------
(* The administrator's requests                                            *)

Request ==
    /\ hr.pc = "idle" /\ budget.requests < MaxRequests
    /\ budget' = [budget EXCEPT !.requests = @ + 1]

\* retryPayrollJob: the status is validated, then job.retry() asks the queue,
\* which takes only a failed job, then the status is written.
RetryRequest ==
    /\ Request
    /\ ValidRunTransition(status, "PROCESSING")
    /\ hr' = [hr EXCEPT !.pc = "retry"]
    /\ UNCHANGED <<status, progress, slips, totals, parent, job, task>>

RetryParent ==
    /\ hr.pc = "retry"
    /\ IF parent.state = "failed"
       THEN /\ parent' = [parent EXCEPT !.state = "waiting"]
            /\ hr' = [hr EXCEPT !.pc = "mark"]
       ELSE /\ hr' = NoRequest
            /\ UNCHANGED parent
    /\ UNCHANGED <<status, progress, slips, totals, job, task, budget>>

RetryMark ==
    /\ hr.pc = "mark"
    /\ status' = "PROCESSING"
    /\ hr' = NoRequest
    /\ UNCHANGED <<progress, slips, totals, parent, job, task, budget>>

\* processSingleEmployee: the same find-then-create as the worker, in a run of
\* any status (it only refuses "CLOSED", which no run has).
SingleRequest(e) ==
    /\ Request /\ Bearable
    /\ hr' = [hr EXCEPT !.pc = "save", !.emp = e, !.found = RowsOf(e) # {}]
    /\ UNCHANGED <<status, progress, slips, totals, parent, job, task>>

SingleSave ==
    /\ hr.pc = "save"
    /\ slips' = Saved(hr.emp, hr.found)
    /\ hr' = [hr EXCEPT !.pc = "sum"]
    /\ UNCHANGED <<status, progress, totals, parent, job, task, budget>>

SingleSum ==
    /\ hr.pc = "sum"
    /\ hr' = [hr EXCEPT !.pc = "write", !.rows = slips]
    /\ UNCHANGED <<status, progress, slips, totals, parent, job, task, budget>>

\* totalAllowances is not among the fields written back.
SingleWrite ==
    /\ hr.pc = "write"
    /\ totals' = [totals EXCEPT !.pay = hr.rows]
    /\ hr' = NoRequest
    /\ UNCHANGED <<status, progress, slips, parent, job, task, budget>>

RequestStep ==
    \/ RetryRequest \/ RetryParent \/ RetryMark
    \/ (\E e \in Emp : SingleRequest(e)) \/ SingleSave \/ SingleSum \/ SingleWrite

-----------------------------------------------------------------------------
ParentFailure == CreateProgressFault \/ ParentFault \/ CatchFault

Next ==
    \/ ParentStep \/ ParentFailure
    \/ \E e \in Emp : Fetch(e) \/ TaskStep(e) \/ Promote(e) \/ JobFault(e) \/ ReportFault(e) \/ Reclaim(e)
    \/ Crash \/ ParentReclaim
    \/ RequestStep

\* The queue keeps handing out jobs, and a processor that runs keeps running;
\* faults, crashes and requests may or may not happen.
Fairness ==
    /\ WF_vars(ParentStep) /\ WF_vars(ParentReclaim)
    /\ \A e \in Emp : WF_vars(Fetch(e)) /\ WF_vars(TaskStep(e))
                      /\ WF_vars(Promote(e)) /\ WF_vars(Reclaim(e))

Spec == Init /\ [][Next]_vars
FairSpec == Spec /\ Fairness

-----------------------------------------------------------------------------
(* Properties                                                              *)

Task == [pc : {"idle", "calculate", "save", "report", "totals", "decide", "ack"},
         failing : BOOLEAN, found : BOOLEAN, pend : SUBSET {"run", "slips", "progress"},
         status : RunStatus, tracked : BOOLEAN, count : Nat,
         failed : Nat, rows : SUBSET Row]

Job == [state : JobState, attempts : Nat, stalls : Nat]
ParentPc == {"idle", "mark", "progress", "fanout", "ack", "readStatus", "fail"}
Parent == [state : JobState, attempts : Nat, stalls : Nat, pc : ParentPc, seen : RunStatus]
HrRequest == [pc : {"idle", "retry", "mark", "save", "sum", "write"},
              emp : Emp, found : BOOLEAN, rows : SUBSET Row]

\* Every variable holds values of the shape the database columns, the queue's
\* job records and the processors' locals have.
TypeOK ==
    /\ status \in RunStatus
    /\ progress \in [exists : BOOLEAN, completed : Nat, failed : Nat, lowered : BOOLEAN]
    /\ slips \in SUBSET Row /\ IsFiniteSet(slips)
    /\ totals \in [pay : SUBSET Row, allowances : SUBSET Row]
    /\ parent \in Parent
    /\ job \in [Emp -> Job]
    /\ task \in [Emp -> Task]
    /\ hr \in HrRequest
    /\ budget \in [faults : Nat, crashes : Nat, requests : Nat]

\* Retries, repeated deliveries and crashes between the payslip write and the
\* end of the job never pay an employee twice: createOrUpdatePayslip is the
\* only protection, as the schema has no unique key on (payrollRunId, userId).
\* With processSingleEmployee in play the same two-step write can duplicate a
\* payslip, but never more often than the administrator asked.
DuplicatesNeedRequests == \A e \in Emp : Cardinality(RowsOf(e)) <= 1 + budget.requests

\* "COMPLETED: All employees processed successfully"
\* (docs/payroll/payroll-business-flow.md:765): a run shown as COMPLETED has a
\* payslip for every employee it was started for.
CompletedMeansPaid == status = "COMPLETED" => \A e \in Emp : RowsOf(e) # {}

TotalsAreWhole == totals.pay = slips /\ totals.allowances = slips

\* Whatever fails, is retried, delivered again or crashes, and however many jobs
\* report at once: until an administrator interferes, a COMPLETED run has a
\* payslip for everybody and totals summed over all of them, unless a reporter
\* wrote a count of failures over a higher one that it had not read (the lost
\* update of updatePayrollProgress).  finalizePayrollRun sums, awaits, decides
\* and writes while other jobs go on; the failures it reads are what keeps it
\* from completing a run whose payslips are still to come.
WholeUnlessLowered ==
    status = "COMPLETED" /\ ~progress.lowered /\ budget.requests = 0
        => CompletedMeansPaid /\ TotalsAreWhole

\* The progress row never claims more employees than there are payslips.
ProgressBacked == progress.completed <= Cardinality(slips)

\* "When all employees processed: Status -> COMPLETED"
\* (docs/payroll/payroll-business-flow.md:185): a run that is being processed
\* gets a verdict from the employee job that finds the run complete.
RunSettles == status = "PROCESSING" ~> status \in {"COMPLETED", "FAILED"}

\* The run as its users see it implements the machine's business rules.
Lifecycle == INSTANCE RunLifecycle WITH Employees <- Emp,
                                        paid <- {e \in Emp : RowsOf(e) # {}}
ImplementsLifecycle == Lifecycle!Spec
=============================================================================
