----------------------------- MODULE PayPeriod -----------------------------
(***************************************************************************)
(* One pay period and its payroll runs: the HTTP handlers of               *)
(* controllers/pay-period.controller.js and payroll-run.controller.js, the *)
(* automation service and the two cron jobs that move the period forward   *)
(* and finally close it.                                                   *)
(*                                                                         *)
(* Every handler or job reads, awaits, and writes what it decided on the   *)
(* strength of what it read; other handlers run in between.  A handler in  *)
(* flight is the decision it holds: the call it will make next.            *)
(*                                                                         *)
(* A run is seen through the lifecycle that PayrollWorker is checked       *)
(* against (RunLifecycle): COMPLETED is final, FAILED may be retried.      *)
(***************************************************************************)
EXTENDS PayrollMachines, FiniteSets

CONSTANTS
    Clients,    \* HTTP requests that may be in flight at once
    Runs,       \* payroll runs that may be created; also their workers
    Checker,    \* the status check job (every 15 minutes)
    Closer,     \* the auto-close job (every hour)
    MaxFailures \* bound on failing calls

ASSUME PeriodAssumption ==
    /\ MaxFailures \in Nat
    /\ Clients \cap Runs = {} /\ Checker # Closer
    /\ Checker \notin Clients \cup Runs /\ Closer \notin Clients \cup Runs

VARIABLES
    period,     \* the PayPeriod row; graced: its updatedAt is 48 hours old
    runs,       \* the PayrollRun rows of the period, and their queued jobs
    overtime,   \* is there recorded overtime without a decision?
    handler,    \* what each handler, job and worker in flight will do next
    failures    \* failed calls so far

periodVars == <<period, runs, overtime, handler, failures>>

Actors == Clients \cup Runs \cup {Checker, Closer}

\* "GONE": the period has been deleted.
PeriodState == PeriodStatus \cup {"GONE"}

Idle == [pc |-> "idle", run |-> Checker, to |-> "DRAFT", old |-> FALSE]

Existing == {r \in Runs : runs[r].status \in RunStatus}
Incomplete == \E r \in Existing : runs[r].status \in {"DRAFT", "PROCESSING"}
AllCompleted == Existing # {} /\ \A r \in Existing : runs[r].status = "COMPLETED"

PeriodInit ==
    /\ period = [status |-> "DRAFT", paused |-> FALSE, graced |-> FALSE]
    /\ runs = [r \in Runs |-> [status |-> "absent", queued |-> FALSE]]
    /\ overtime = FALSE
    /\ handler = [a \in Actors |-> Idle]
    /\ failures = 0

-----------------------------------------------------------------------------
\* A handler goes on to its next call, without having written the period.
Goto(a, h) == handler' = [handler EXCEPT ![a] = h]

Starts(a, h) == handler[a].pc = "idle" /\ Goto(a, h)

\* The period row is written, unless it is gone: its grace period starts again,
\* and whatever is in flight is now older than the row.
WritePeriod(a, p, h) ==
    IF period.status = "GONE" THEN Goto(a, h) /\ UNCHANGED period
    ELSE /\ period' = [p EXCEPT !.graced = FALSE]
         /\ handler' = [b \in Actors |-> LET n == IF b = a THEN h ELSE handler[b]
                                         IN  [n EXCEPT !.old = n.pc # "idle"]]

\* 48 hours pass without a write; no handler takes that long.
GraceElapses ==
    /\ period.status = "COMPLETED" /\ ~period.graced
    /\ \A a \in Actors : ~handler[a].old
    /\ period' = [period EXCEPT !.graced = TRUE]
    /\ UNCHANGED <<runs, overtime, handler, failures>>

-----------------------------------------------------------------------------
(* Payroll runs                                                            *)

\* createPayrollRun: any period but a CLOSED one.
CreateRun(c) ==
    /\ \E r \in Runs : runs[r].status = "absent"
    /\ period.status \in PeriodStatus \ {"CLOSED"}
    /\ Starts(c, [Idle EXCEPT !.pc = "insert"])
    /\ UNCHANGED <<period, runs, overtime, failures>>

\* A plausible slip: a status the schema's enumeration does not have.
InsertRunPending(c) ==
    /\ handler[c].pc = "insert"
    /\ \E r \in Runs : runs[r].status = "absent" /\ runs' = [runs EXCEPT ![r].status = "PENDING"]
    /\ Goto(c, Idle)
    /\ UNCHANGED <<period, overtime, failures>>

\* The insert fails if the period is gone (or, here, Runs is used up).
InsertRun(c) ==
    /\ handler[c].pc = "insert"
    /\ \/ /\ period.status # "GONE"
          /\ \E r \in Runs : /\ runs[r].status = "absent"
                             /\ runs' = [runs EXCEPT ![r].status = "DRAFT"]
       \/ /\ period.status = "GONE" \/ \A r \in Runs : runs[r].status # "absent"
          /\ UNCHANGED runs
    /\ Goto(c, Idle)
    /\ UNCHANGED <<period, overtime, failures>>

\* startPayrollRun: a run whose status may become PROCESSING, ...
StartRun(c) ==
    \E r \in Existing :
        /\ ValidRunTransition(runs[r].status, "PROCESSING")
        /\ Starts(c, [Idle EXCEPT !.pc = "concurrent", !.run = r])
        /\ UNCHANGED <<period, runs, overtime, failures>>

\* ... unless another run of the period is PROCESSING: then 409.
CheckConcurrent(c) ==
    LET others == {r \in Existing \ {handler[c].run} : runs[r].status = "PROCESSING"}
    IN  /\ handler[c].pc = "concurrent"
        /\ Goto(c, IF others = {} THEN [handler[c] EXCEPT !.pc = "eligible"] ELSE Idle)
        /\ UNCHANGED <<period, runs, overtime, failures>>

\* The head count is stored; the update throws if the run is gone.
StoreEligible(c) ==
    /\ handler[c].pc = "eligible"
    /\ Goto(c, IF handler[c].run \in Existing THEN [handler[c] EXCEPT !.pc = "advance"] ELSE Idle)
    /\ UNCHANGED <<period, runs, overtime, failures>>

\* updatePayPeriodStatusAutomatically(..., "PROCESSING") reads the period.
AdvancePeriod(c) ==
    /\ handler[c].pc = "advance"
    /\ Goto(c, IF period.status \in PeriodStatus /\ ValidPeriodTransition(period.status, "PROCESSING")
               THEN [handler[c] EXCEPT !.pc = "write", !.to = "PROCESSING"]
               ELSE [handler[c] EXCEPT !.pc = "queue"])
    /\ UNCHANGED <<period, runs, overtime, failures>>

\* addPayrollRunJob; the job id is made of the run's, so a second one is ignored.
QueueRun(c) ==
    /\ handler[c].pc = "queue"
    /\ runs' = [runs EXCEPT ![handler[c].run].queued = TRUE]
    /\ Goto(c, Idle)
    /\ UNCHANGED <<period, overtime, failures>>

\* deletePayrollRun: a DRAFT run, deleted after the audit log entry is written.
DeleteRun(c) ==
    \E r \in Existing :
        /\ runs[r].status = "DRAFT"
        /\ Starts(c, [Idle EXCEPT !.pc = "deleteRun", !.run = r])
        /\ UNCHANGED <<period, runs, overtime, failures>>

RemoveRun(c) ==
    /\ handler[c].pc = "deleteRun"
    /\ runs' = [runs EXCEPT ![handler[c].run].status = "deleted"]
    /\ Goto(c, Idle)
    /\ UNCHANGED <<period, overtime, failures>>

\* The parent job marks the run, which stayed DRAFT until now.
RunMarked(r) ==
    /\ runs[r].queued /\ runs[r].status = "DRAFT"
    /\ runs' = [runs EXCEPT ![r].status = "PROCESSING"]
    /\ UNCHANGED <<period, overtime, handler, failures>>

\* finalizePayrollRun writes the verdict, then looks after the period.
RunFinalized(r) ==
    /\ runs[r].status = "PROCESSING"
    /\ \E verdict \in {"COMPLETED", "FAILED"} : runs' = [runs EXCEPT ![r].status = verdict]
    /\ Starts(r, [Idle EXCEPT !.pc = "detect"])
    /\ UNCHANGED <<period, overtime, failures>>

\* retryPayrollJob.
RunRetried(r) ==
    /\ runs[r].status = "FAILED"
    /\ runs' = [runs EXCEPT ![r].status = "PROCESSING"]
    /\ UNCHANGED <<period, overtime, handler, failures>>

-----------------------------------------------------------------------------
(* The status of the period                                                *)

\* A plausible slip: only the start of the period is detected.
DetectedStartOnly ==
    {to \in {"PROCESSING"} : period.status = "DRAFT" /\ Incomplete}

\* What updatePayPeriodStatusAutomatically detects: the next status, if any.
Detected ==
    {to \in {"PROCESSING", "COMPLETED"} :
        /\ period.status \in PeriodStatus
        /\ \/ to = "PROCESSING" /\ Incomplete /\ period.status = "DRAFT"
           \/ to = "COMPLETED" /\ AllCompleted /\ period.status = "PROCESSING"
        /\ ValidPeriodTransition(period.status, to)}

\* The worker that finalized a run.
DetectStatus(r) ==
    /\ handler[r].pc = "detect"
    /\ IF Detected = {} THEN Goto(r, Idle)
       ELSE \E to \in Detected : Goto(r, [handler[r] EXCEPT !.pc = "write", !.to = to])
    /\ UNCHANGED <<period, runs, overtime, failures>>

\* The status check job; a tick that detects nothing changes nothing.
CheckStatus ==
    /\ \E to \in Detected : Starts(Checker, [Idle EXCEPT !.pc = "write", !.to = to])
    /\ UNCHANGED <<period, runs, overtime, failures>>

\* updatePayPeriodStatus (PATCH /status).
PatchStatus(c) ==
    /\ period.status \in PeriodStatus \ {"CLOSED"}
    /\ \E to \in {"PROCESSING", "COMPLETED"} :
          /\ ValidPeriodTransition(period.status, to)
          /\ to = "PROCESSING" => Existing # {}
          /\ Starts(c, [Idle EXCEPT !.pc = "write", !.to = to])
    /\ UNCHANGED <<period, runs, overtime, failures>>

\* deletePayPeriod: a DRAFT period without runs.
DeletePeriod(c) ==
    /\ period.status = "DRAFT" /\ Existing = {}
    /\ Starts(c, [Idle EXCEPT !.pc = "write", !.to = "GONE"])
    /\ UNCHANGED <<period, runs, overtime, failures>>

\* The decided status is written, whatever the row holds by now; startPayrollRun
\* then queues its run.  The foreign key keeps a period with runs from deletion.
WriteStatus(a) ==
    LET h == handler[a]
        next == IF a \in Clients /\ h.run \in Runs THEN [h EXCEPT !.pc = "queue"] ELSE Idle
    IN  /\ h.pc = "write"
        /\ IF h.to = "GONE" /\ Existing # {}
           THEN Goto(a, next) /\ UNCHANGED period
           ELSE WritePeriod(a, [period EXCEPT !.status = h.to], next)
        /\ UNCHANGED <<runs, overtime, failures>>

-----------------------------------------------------------------------------
(* Auto-close                                                              *)

\* pauseAutoClose and resumeAutoClose: the flag of a COMPLETED period.
FlipAutoClose(c) ==
    /\ period.status = "COMPLETED"
    /\ Starts(c, [Idle EXCEPT !.pc = IF period.paused THEN "resume" ELSE "pause"])
    /\ UNCHANGED <<period, runs, overtime, failures>>

WriteAutoClose(c) ==
    /\ handler[c].pc \in {"pause", "resume"}
    /\ WritePeriod(c, [period EXCEPT !.paused = handler[c].pc = "pause"], Idle)
    /\ UNCHANGED <<runs, overtime, failures>>

\* Two plausible slips: no grace period; the pause flag read the wrong way.
ClosableAtOnce == period.status = "COMPLETED" /\ ~period.paused /\ AllCompleted

ClosableWhenPaused ==
    period.status = "COMPLETED" /\ period.paused /\ AllCompleted /\ period.graced

\* shouldAutoClose, on the period as it is.
Closable ==
    /\ period.status = "COMPLETED" /\ ~period.paused
    /\ AllCompleted
    /\ period.graced

\* The job's own shouldAutoClose repeats as the first call of autoClosePayPeriod;
\* neither writes, so one reading stands for both.
ConsiderClosing ==
    /\ Closable
    /\ Starts(Closer, [Idle EXCEPT !.pc = "overtime"])
    /\ UNCHANGED <<period, runs, overtime, failures>>

\* hasUnresolvedOvertimeApprovals, asked before and after the second reading.
AskOvertime ==
    /\ handler[Closer].pc \in {"overtime", "overtimeAgain"}
    /\ Goto(Closer, IF overtime THEN Idle
                    ELSE IF handler[Closer].pc = "overtime" THEN [handler[Closer] EXCEPT !.pc = "reread"]
                    ELSE [handler[Closer] EXCEPT !.pc = "close"])
    /\ UNCHANGED <<period, runs, overtime, failures>>

\* autoClosePayPeriod reads the period again, but neither the pause nor the grace.
ReadAgain ==
    /\ handler[Closer].pc = "reread"
    /\ Goto(Closer, IF period.status = "COMPLETED" /\ \A r \in Existing : runs[r].status = "COMPLETED"
                    THEN [handler[Closer] EXCEPT !.pc = "overtimeAgain"] ELSE Idle)
    /\ UNCHANGED <<period, runs, overtime, failures>>

ClosePeriod ==
    /\ handler[Closer].pc = "close"
    /\ WritePeriod(Closer, [period EXCEPT !.status = "CLOSED"], Idle)
    /\ UNCHANGED <<runs, overtime, failures>>

-----------------------------------------------------------------------------
(* Overtime decisions                                                      *)

\* Somebody with overtime clocks out, or an attendance is corrected.
RecordOvertime ==
    /\ ~overtime /\ overtime' = TRUE
    /\ UNCHANGED <<period, runs, handler, failures>>

\* setOvertimeApprovalStatus: refused for a CLOSED period.
DecideOvertime(c) ==
    /\ period.status \in PeriodStatus \ {"CLOSED"}
    /\ overtime
    /\ Starts(c, [Idle EXCEPT !.pc = "decide"])
    /\ UNCHANGED <<period, runs, overtime, failures>>

\* One employee's overtime is decided; others may still wait.
WriteDecision(c) ==
    /\ handler[c].pc = "decide"
    /\ overtime' \in {FALSE, overtime}
    /\ Goto(c, Idle)
    /\ UNCHANGED <<period, runs, failures>>

-----------------------------------------------------------------------------
\* A call fails.  startPayrollRun survives the failure of its period update
\* and queues the run; everything else gives up.
CallFails(a) ==
    LET h == handler[a]
    IN  /\ h.pc # "idle" /\ failures < MaxFailures
        /\ failures' = failures + 1
        /\ Goto(a, IF a \in Clients /\ h.run \in Runs /\ h.pc \in {"advance", "write"}
                   THEN [h EXCEPT !.pc = "queue"] ELSE Idle)
        /\ UNCHANGED <<period, runs, overtime>>

PeriodRequest(c) ==
    \/ CreateRun(c) \/ StartRun(c) \/ DeleteRun(c)
    \/ PatchStatus(c) \/ DeletePeriod(c) \/ FlipAutoClose(c) \/ DecideOvertime(c)

Continue(c) ==
    \/ InsertRun(c) \/ CheckConcurrent(c) \/ StoreEligible(c) \/ AdvancePeriod(c) \/ QueueRun(c)
    \/ RemoveRun(c) \/ WriteAutoClose(c) \/ WriteDecision(c)

Closing == AskOvertime \/ ReadAgain \/ ClosePeriod

PeriodNext ==
    \/ \E c \in Clients : PeriodRequest(c) \/ Continue(c)
    \/ \E r \in Runs : RunMarked(r) \/ RunFinalized(r) \/ RunRetried(r) \/ DetectStatus(r)
    \/ \E a \in Actors : WriteStatus(a) \/ CallFails(a)
    \/ CheckStatus \/ ConsiderClosing \/ Closing
    \/ RecordOvertime \/ GraceElapses

\* Cron keeps ticking, time passes, and a handler in flight gets its answers.
PeriodFairness ==
    /\ WF_periodVars(CheckStatus) /\ WF_periodVars(ConsiderClosing) /\ WF_periodVars(Closing) /\ WF_periodVars(GraceElapses)
    /\ \A a \in Actors : WF_periodVars(WriteStatus(a))
    /\ \A c \in Clients : WF_periodVars(Continue(c))
    /\ \A r \in Runs : WF_periodVars(DetectStatus(r))

PeriodSpec == PeriodInit /\ [][PeriodNext]_periodVars
PeriodFairSpec == PeriodSpec /\ PeriodFairness

-----------------------------------------------------------------------------
(* Properties                                                              *)

Handler == [pc : {"idle", "insert", "concurrent", "eligible", "advance", "write", "queue",
                  "deleteRun", "detect", "pause", "resume", "decide",
                  "overtime", "reread", "overtimeAgain", "close"},
            run : Runs \cup {Checker}, to : PeriodState, old : BOOLEAN]

\* The rows and the handlers' locals hold values of their columns and kinds.
PeriodTypeOK ==
    /\ period \in [status : PeriodState, paused : BOOLEAN, graced : BOOLEAN]
    /\ runs \in [Runs -> [status : RunStatus \cup {"absent", "deleted"}, queued : BOOLEAN]]
    /\ overtime \in BOOLEAN
    /\ handler \in [Actors -> Handler]
    /\ failures \in Nat

\* "CLOSED is terminal" (pay-period.machine.js:11) although every status write
\* is unconditional and nothing locks the row: a handler that decided on an
\* older status is gone by the time the grace period is over.
ClosedIsFinal == [][period.status = "CLOSED" => period'.status = "CLOSED"]_periodVars

\* A period whose runs are all COMPLETED does not stay PROCESSING: the last
\* worker's update, or after a failure the status check job, completes it.
PeriodCatchesUp ==
    period.status = "PROCESSING" /\ AllCompleted ~> period.status # "PROCESSING" \/ ~AllCompleted

\* A COMPLETED period that stays eligible is closed in the end.
EligiblePeriodCloses ==
    ~<>[](period.status = "COMPLETED" /\ ~period.paused /\ AllCompleted /\ ~overtime)
=============================================================================
