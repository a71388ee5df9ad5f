--------------------------- MODULE PayrollProofs ---------------------------
(***************************************************************************)
(* Payroll: what holds of PayrollWorker, one run and its jobs, for every   *)
(* number of employees, every concurrency and every bound, and of          *)
(* PayPeriod, the period and its runs, for any number of concurrent        *)
(* requests, runs and failures; and that both move a run along the edges   *)
(* of its state machine.                                                   *)
(***************************************************************************)
EXTENDS PayrollWorker, PayPeriod, FiniteSetTheorems, TLAPS

\* What the machine answers is a status.
LEMMA FinalStatusType ==
    ASSUME NEW from, NEW ctx PROVE FinalStatus(from, ctx) \in {"COMPLETED", "FAILED"}
BY DEF FinalStatus

\* The queue's bookkeeping keeps job records job records, the parent's too.
LEMMA JobRecords ==
    ASSUME NEW j \in Job
    PROVE  /\ AfterFailure(j) \in Job
           /\ AfterStall(j) \in Job
           /\ Stalled(j) \in Job
<1> DEFINE failed == IF j.attempts + 1 < MaxAttempts THEN "delayed" ELSE "failed"
           stalled == IF j.stalls < MaxStalls THEN "waiting" ELSE "failed"
<1> HIDE DEF failed, stalled
<1>1. AfterFailure(j) \in Job
  <2>1. failed \in JobState /\ j.attempts + 1 \in Nat
    BY DEF failed, Job, JobState
  <2>2. [j EXCEPT !.attempts = j.attempts + 1, !.state = failed] \in Job
    BY <2>1 DEF Job
  <2>3. QED BY <2>2 DEF AfterFailure, failed
<1>2. AfterStall(j) \in Job
  <2>1. stalled \in JobState /\ j.stalls + 1 \in Nat
    BY DEF stalled, Job, JobState
  <2>2. [j EXCEPT !.stalls = j.stalls + 1, !.state = stalled] \in Job
    BY <2>1 DEF Job
  <2>3. QED BY <2>2 DEF AfterStall, stalled
<1>3. Stalled(j) \in Job
  BY DEF Job, JobState, Stalled
<1>4. QED BY <1>1, <1>2, <1>3

LEMMA ParentRecords ==
    ASSUME NEW j \in Parent
    PROVE  /\ AfterFailure(j) \in Parent
           /\ AfterStall(j) \in Parent
           /\ Stalled(j) \in Parent
<1> DEFINE failed == IF j.attempts + 1 < MaxAttempts THEN "delayed" ELSE "failed"
           stalled == IF j.stalls < MaxStalls THEN "waiting" ELSE "failed"
<1> HIDE DEF failed, stalled
<1>1. AfterFailure(j) \in Parent
  <2>1. failed \in JobState /\ j.attempts + 1 \in Nat
    BY DEF failed, Parent, JobState
  <2>2. [j EXCEPT !.attempts = j.attempts + 1, !.state = failed] \in Parent
    BY <2>1 DEF Parent
  <2>3. QED BY <2>2 DEF AfterFailure, failed
<1>2. AfterStall(j) \in Parent
  <2>1. stalled \in JobState /\ j.stalls + 1 \in Nat
    BY DEF stalled, Parent, JobState
  <2>2. [j EXCEPT !.stalls = j.stalls + 1, !.state = stalled] \in Parent
    BY <2>1 DEF Parent
  <2>3. QED BY <2>2 DEF AfterStall, stalled
<1>3. Stalled(j) \in Parent
  BY DEF Parent, JobState, Stalled
<1>4. QED BY <1>1, <1>2, <1>3

\* The idle records are records of their types.
LEMMA IdleRecords == NoTask \in Task /\ NoRequest \in HrRequest /\ NoJob \in Job
BY WorkerAssumption DEF NoTask, Task, NoRequest, HrRequest, NoJob, Job, JobState, Emp, RunStatus

\* createOrUpdatePayslip adds at most one row, and only to its employee.
LEMMA SavedRows ==
    ASSUME slips \in SUBSET Row, IsFiniteSet(slips), NEW e \in Emp, NEW found \in BOOLEAN
    PROVE  /\ Saved(e, found) \in SUBSET Row
           /\ IsFiniteSet(Saved(e, found))
           /\ slips \subseteq Saved(e, found)
<1>1. Cardinality(RowsOf(e)) \in Nat
  <2>1. RowsOf(e) \subseteq slips
    BY DEF RowsOf
  <2>2. QED BY <2>1, FS_Subset, FS_CardinalityType
<1>2. <<e, Cardinality(RowsOf(e))>> \in Row
  BY <1>1 DEF Row
<1>3. IsFiniteSet(slips \cup {<<e, Cardinality(RowsOf(e))>>})
  BY FS_AddElement
<1>4. QED BY <1>2, <1>3 DEF Saved

-----------------------------------------------------------------------------
(* Types                                                                   *)

LEMMA InitType == Init => TypeOK
BY FS_EmptySet, IdleRecords, WorkerAssumption
   DEF Init, TypeOK, RunStatus, Row, Parent, JobState, ParentPc

\* The steps of the parent job.
LEMMA ParentType ==
    ASSUME TypeOK, ParentStep \/ ParentFailure \/ ParentReclaim PROVE TypeOK'
<1> USE DEF TypeOK, ParentGoto, Fault
<1>1. CASE ParentFetch
  BY <1>1 DEF ParentFetch, Parent, JobState, ParentPc
<1>2. CASE MarkProcessing
  BY <1>2 DEF MarkProcessing, Parent, ParentPc, RunStatus
<1>3. CASE CreateProgress
  BY <1>3 DEF CreateProgress, Parent, ParentPc
<1>4. CASE FanOut
  <2>1. job' \in [Emp -> Job]
    BY <1>4 DEF FanOut, Job, JobState
  <2>2. QED BY <1>4, <2>1 DEF FanOut, Parent, ParentPc
<1>5. CASE ParentDone
  BY <1>5 DEF ParentDone, Parent, JobState, ParentPc
<1>6. CASE ReadStatusForFailure
  BY <1>6 DEF ReadStatusForFailure, Parent, ParentPc
<1>7. ASSUME ParentThrows PROVE parent' \in Parent
  <2>1. AfterFailure(parent) \in Parent
    BY ParentRecords
  <2>2. QED BY <1>7, <2>1 DEF ParentThrows, Parent, ParentPc, RunStatus
<1>8. CASE MarkFailed
  BY <1>7, <1>8 DEF MarkFailed, RunStatus
<1>9. CASE ParentPromote
  BY <1>9 DEF ParentPromote, Parent, JobState
<1>10. CASE CreateProgressFault
  BY <1>10 DEF CreateProgressFault, Parent, ParentPc
<1>11. CASE ParentFault
  BY <1>11 DEF ParentFault, Parent, ParentPc
<1>12. CASE CatchFault
  BY <1>7, <1>12 DEF CatchFault
<1>13. CASE ParentReclaim
  BY <1>13, ParentRecords DEF ParentReclaim
<1>14. QED
  BY <1>1, <1>2, <1>3, <1>4, <1>5, <1>6, <1>8, <1>9, <1>10, <1>11, <1>12, <1>13
     DEF ParentStep, ParentFailure

\* Updating fields of a processor's local state with values of their types.
LEMMA TaskUpdates ==
    ASSUME NEW t \in Task
    PROVE  /\ [t EXCEPT !.pc = "calculate"] \in Task
           /\ \A b \in BOOLEAN : [t EXCEPT !.pc = "save", !.found = b] \in Task
           /\ \A s \in RunStatus, p \in SUBSET {"run", "slips", "progress"} :
                 [t EXCEPT !.pend = p, !.status = s] \in Task
           /\ \A n \in Nat, p \in SUBSET {"run", "slips", "progress"} :
                 [t EXCEPT !.pend = p, !.count = n] \in Task
           /\ \A x \in BOOLEAN, f \in Nat, p \in SUBSET {"run", "slips", "progress"} :
                 [t EXCEPT !.pend = p, !.tracked = x, !.failed = f] \in Task
           /\ \A r \in SUBSET Row :
                 [t EXCEPT !.pc = "decide", !.rows = r, !.pend = {"run", "progress"}] \in Task
<1>1. [t EXCEPT !.pc = "calculate"] \in Task
  BY DEF Task
<1>2. ASSUME NEW b \in BOOLEAN PROVE [t EXCEPT !.pc = "save", !.found = b] \in Task
  BY DEF Task
<1>3. ASSUME NEW s \in RunStatus, NEW p \in SUBSET {"run", "slips", "progress"}
      PROVE  [t EXCEPT !.pend = p, !.status = s] \in Task
  BY DEF Task
<1>4. ASSUME NEW n \in Nat, NEW p \in SUBSET {"run", "slips", "progress"}
      PROVE  [t EXCEPT !.pend = p, !.count = n] \in Task
  BY DEF Task
<1>5. ASSUME NEW x \in BOOLEAN, NEW f \in Nat,
             NEW p \in SUBSET {"run", "slips", "progress"}
      PROVE  [t EXCEPT !.pend = p, !.tracked = x, !.failed = f] \in Task
  BY DEF Task
<1>6. ASSUME NEW r \in SUBSET Row
      PROVE  [t EXCEPT !.pc = "decide", !.rows = r, !.pend = {"run", "progress"}] \in Task
  BY DEF Task
<1>7. QED BY <1>1, <1>2, <1>3, <1>4, <1>5, <1>6

\* What the steps of an employee job do to its local state.
LEMMA TaskRecords ==
    ASSUME TypeOK, NEW e \in Emp
    PROVE  /\ \A failing \in BOOLEAN : StartReport(e, failing) => task' \in [Emp -> Task]
           /\ ToAck(e) => task' \in [Emp -> Task]
<1>1. ASSUME NEW failing \in BOOLEAN
      PROVE  [NoTask EXCEPT !.pc = "report", !.failing = failing,
                            !.pend = {"run", "slips", "progress"}] \in Task
  BY IdleRecords DEF Task
<1>2. [NoTask EXCEPT !.pc = "ack", !.failing = task[e].failing] \in Task
  BY IdleRecords DEF Task, TypeOK
<1>3. ASSUME NEW t \in Task, Becomes(e, t) PROVE task' \in [Emp -> Task]
  BY <1>3 DEF Becomes, TypeOK
<1>4. \A failing \in BOOLEAN : StartReport(e, failing) => task' \in [Emp -> Task]
  BY <1>1, <1>3 DEF StartReport
<1>5. ToAck(e) => task' \in [Emp -> Task]
  BY <1>2, <1>3 DEF ToAck
<1>6. QED BY <1>4, <1>5

LEMMA TaskType ==
    ASSUME TypeOK, NEW e \in Emp, Fetch(e) \/ TaskStep(e) \/ Promote(e) \/ JobFault(e)
                                   \/ ReportFault(e) \/ Reclaim(e)
    PROVE  TypeOK'
<1> USE DEF TypeOK, Fault
<1> DEFINE t == task[e]
<1>t. /\ t \in Task /\ t.pend \in SUBSET {"run", "slips", "progress"} /\ t.failing \in BOOLEAN
      /\ \A u \in Task : Becomes(e, u) => task' \in [Emp -> Task]
  BY DEF Task, Becomes
<1>1. CASE Fetch(e)
  <2>1. task' \in [Emp -> Task]
    BY <1>1, <1>t, TaskUpdates DEF Fetch
  <2>2. job' \in [Emp -> Job]
    <3>1. [job[e] EXCEPT !.state = "active"] \in Job
      BY DEF Job, JobState
    <3>2. job' = [job EXCEPT ![e] = [job[e] EXCEPT !.state = "active"]]
      BY <1>1 DEF Fetch
    <3>3. QED BY <3>1, <3>2
  <2>3. QED BY <1>1, <2>1, <2>2 DEF Fetch
<1>2. CASE Calculate(e)
  <2>1. (RowsOf(e) # {}) \in BOOLEAN
    OBVIOUS
  <2>2. [t EXCEPT !.pc = "save", !.found = RowsOf(e) # {}] \in Task
    BY <2>1, <1>t, TaskUpdates
  <2>3. QED BY <1>2, <2>2, <1>t DEF Calculate
<1>3. CASE CalculationFails(e)
  BY <1>3, TaskRecords DEF CalculationFails
<1>4. CASE SavePayslip(e)
  <2>1. task[e].found \in BOOLEAN
    BY DEF Task
  <2>2. slips' \in SUBSET Row /\ IsFiniteSet(slips')
    BY <1>4, <2>1, SavedRows DEF SavePayslip
  <2>3. task' \in [Emp -> Task]
    BY <1>4, TaskRecords DEF SavePayslip
  <2>4. QED BY <1>4, <2>2, <2>3 DEF SavePayslip
<1>5. CASE JobFault(e)
  <2>1. task' \in [Emp -> Task]
    BY <1>5, TaskRecords DEF JobFault
  <2>2. QED BY <1>5, <2>1 DEF JobFault
<1>6. CASE ReadRun(e)
  <2>1. [t EXCEPT !.pend = t.pend \ {"run"}, !.status = status] \in Task
    BY <1>t, TaskUpdates
  <2>2. QED BY <1>6, <1>t, <2>1 DEF ReadRun
<1>7. CASE ReadSlips(e)
  <2>1. Cardinality(slips) \in Nat
    BY FS_CardinalityType
  <2>2. [t EXCEPT !.pend = t.pend \ {"slips"}, !.count = Cardinality(slips)] \in Task
    BY <1>t, <2>1, TaskUpdates
  <2>3. QED BY <1>7, <1>t, <2>2 DEF ReadSlips
<1>8. CASE ReadProgress(e)
  <2>1. [t EXCEPT !.pend = t.pend \ {"progress"}, !.tracked = progress.exists, !.failed = progress.failed] \in Task
    BY <1>t, TaskUpdates
  <2>2. QED BY <1>8, <1>t, <2>1 DEF ReadProgress
<1>9. CASE NothingToReport(e)
  BY <1>9, TaskRecords DEF NothingToReport
<1>10. CASE WriteProgress(e)
  <2>1. t \in Task
    OBVIOUS
  <2>2. FailuresOf(t) \in Nat /\ t.count \in Nat
    BY <2>1 DEF Task, FailuresOf
  <2>3. progress' \in [exists : BOOLEAN, completed : Nat, failed : Nat, lowered : BOOLEAN]
    BY <1>10, <2>2 DEF WriteProgress, WriteCounts
  <2>4. [NoTask EXCEPT !.pc = "totals", !.failing = t.failing] \in Task
    BY <2>1, IdleRecords DEF Task
  <2>5. task' \in [Emp -> Task]
    BY <1>10, <1>t, <2>4, TaskRecords DEF WriteProgress, GoesOn
  <2>6. QED BY <1>10, <2>3, <2>5 DEF WriteProgress
<1>11. CASE ReadTotals(e)
  <2>1. [t EXCEPT !.pc = "decide", !.rows = slips, !.pend = {"run", "progress"}] \in Task
    BY <1>t, TaskUpdates
  <2>2. QED BY <1>11, <1>t, <2>1 DEF ReadTotals
<1>12. CASE WriteFinal(e)
  <2>1. t.rows \in SUBSET Row
    BY DEF Task
  <2>2. status' \in RunStatus
    BY <1>12, FinalStatusType DEF WriteFinal, RunStatus
  <2>3. QED BY <1>12, <2>1, <2>2, TaskRecords DEF WriteFinal
<1>13. CASE ReportFault(e)
  BY <1>13, TaskRecords DEF ReportFault
<1>14. CASE EndJob(e)
  <2>1. AfterFailure(job[e]) \in Job /\ [job[e] EXCEPT !.state = "completed"] \in Job
    BY JobRecords DEF Job, JobState
  <2>2. QED BY <1>14, <1>t, <2>1, IdleRecords DEF EndJob
<1>15. CASE Promote(e)
  BY <1>15 DEF Promote, Job, JobState
<1>16. CASE Reclaim(e)
  BY <1>16, JobRecords DEF Reclaim
<1>17. QED
  BY <1>1, <1>2, <1>3, <1>4, <1>5, <1>6, <1>7, <1>8, <1>9, <1>10, <1>11, <1>12, <1>13,
     <1>14, <1>15, <1>16 DEF TaskStep

LEMMA RequestType ==
    ASSUME TypeOK, RequestStep \/ Crash PROVE TypeOK'
<1> USE DEF TypeOK, Request
<1>1. CASE RetryRequest
  BY <1>1 DEF RetryRequest, HrRequest
<1>2. CASE RetryParent
  BY <1>2, IdleRecords DEF RetryParent, HrRequest, Parent, JobState
<1>3. CASE RetryMark
  BY <1>3, IdleRecords DEF RetryMark, RunStatus
<1>4. ASSUME NEW e \in Emp, SingleRequest(e) PROVE TypeOK'
  <2>1. [hr EXCEPT !.pc = "save", !.emp = e, !.found = RowsOf(e) # {}] \in HrRequest
    BY <1>4 DEF HrRequest
  <2>2. QED BY <1>4, <2>1 DEF SingleRequest
<1>5. CASE SingleSave
  <2>1. hr.emp \in Emp /\ hr.found \in BOOLEAN
    BY DEF HrRequest
  <2>2. slips' \in SUBSET Row /\ IsFiniteSet(slips')
    BY <1>5, <2>1, SavedRows DEF SingleSave
  <2>3. QED BY <1>5, <2>2 DEF SingleSave, HrRequest
<1>6. CASE SingleSum
  BY <1>6 DEF SingleSum, HrRequest
<1>7. CASE SingleWrite
  BY <1>7, IdleRecords DEF SingleWrite, HrRequest
<1>8. CASE Crash
  <2>1. parent' \in Parent
    <3>1. Stalled(parent) \in Parent
      BY ParentRecords
    <3>2. QED BY <1>8, <3>1 DEF Crash, Parent, ParentPc, RunStatus
  <2>2. job' \in [Emp -> Job]
    BY <1>8, JobRecords DEF Crash
  <2>3. QED BY <1>8, <2>1, <2>2, IdleRecords DEF Crash
<1>9. QED BY <1>1, <1>2, <1>3, <1>4, <1>5, <1>6, <1>7, <1>8 DEF RequestStep

LEMMA StepType == TypeOK /\ [Next]_vars => TypeOK'
<1> SUFFICES ASSUME TypeOK, [Next]_vars PROVE TypeOK'
  OBVIOUS
<1>1. CASE ParentStep \/ ParentFailure \/ ParentReclaim
  BY <1>1, ParentType
<1>2. ASSUME NEW e \in Emp, Fetch(e) \/ TaskStep(e) \/ Promote(e) \/ JobFault(e)
                            \/ ReportFault(e) \/ Reclaim(e)
      PROVE  TypeOK'
  BY <1>2, TaskType
<1>3. CASE RequestStep \/ Crash
  BY <1>3, RequestType
<1>4. CASE UNCHANGED vars
  BY <1>4 DEF vars, TypeOK
<1>5. QED BY <1>1, <1>2, <1>3, <1>4 DEF Next

\* Type correctness: the records of the run, its queue and its processors keep
\* their shape in every behaviour, for every N, Concurrency and bound.
THEOREM TypeCorrect == Spec => []TypeOK
BY InitType, StepType, PTL DEF Spec

-----------------------------------------------------------------------------
(* What one step does to each variable                                     *)

\* An employee's processor keeps, resets or refreshes the counts it has read;
\* it stands before the payslip write only after looking for a payslip.
TaskEffect(d) ==
    \/ task'[d] = task[d]
    \/ /\ task'[d].count \in {0, task[d].count, Cardinality(slips)}
       /\ slips' = slips \/ task'[d].pc # "save"
       /\ task'[d].pc = "save" => (task'[d].found <=> RowsOf(d) # {})

LEMMA BecomesEffect ==
    ASSUME TypeOK, NEW e \in Emp, NEW u, Becomes(e, u),
           /\ u.count \in {0, task[e].count, Cardinality(slips)}
           /\ slips' = slips \/ u.pc # "save"
           /\ u.pc = "save" => (u.found <=> RowsOf(e) # {})
    PROVE  \A d \in Emp : TaskEffect(d)
BY DEF Becomes, TaskEffect, TypeOK

LEMMA ReportEffect ==
    ASSUME TypeOK, NEW e \in Emp,
           (\E failing \in BOOLEAN : StartReport(e, failing)) \/ ToAck(e)
    PROVE  \A d \in Emp : TaskEffect(d)
<1>1. ASSUME NEW failing \in BOOLEAN, StartReport(e, failing)
      PROVE  \A d \in Emp : TaskEffect(d)
  <2> DEFINE u == [NoTask EXCEPT !.pc = "report", !.failing = failing,
                                 !.pend = {"run", "slips", "progress"}]
  <2>1. u.count = 0 /\ u.pc = "report"
    BY DEF NoTask
  <2>2. Becomes(e, u)
    BY <1>1 DEF StartReport
  <2>3. QED BY <2>1, <2>2, BecomesEffect
<1>2. CASE ToAck(e)
  <2> DEFINE u == [NoTask EXCEPT !.pc = "ack", !.failing = task[e].failing]
  <2>1. u.count = 0 /\ u.pc = "ack"
    BY DEF NoTask
  <2>2. Becomes(e, u)
    BY <1>2 DEF ToAck
  <2>3. QED BY <2>1, <2>2, BecomesEffect
<1>3. QED BY <1>1, <1>2

LEMMA TaskStepEffect ==
    ASSUME TypeOK, NEW e \in Emp, Fetch(e) \/ TaskStep(e) \/ Promote(e) \/ JobFault(e)
                                   \/ ReportFault(e) \/ Reclaim(e)
    PROVE  \A d \in Emp : TaskEffect(d)
<1> DEFINE t == task[e]
<1>t. t \in Task
  BY DEF TypeOK
<1>1. CASE Fetch(e)
  <2> DEFINE u == [t EXCEPT !.pc = "calculate"]
  <2>1. u.count = t.count /\ u.pc = "calculate"
    BY <1>t DEF Task
  <2>2. QED BY <1>1, <2>1, BecomesEffect DEF Fetch
<1>2. CASE Calculate(e)
  <2> DEFINE u == [t EXCEPT !.pc = "save", !.found = RowsOf(e) # {}]
  <2>1. u.count = t.count /\ u.found = (RowsOf(e) # {})
    BY <1>t DEF Task
  <2>2. slips' = slips /\ Becomes(e, u)
    BY <1>2 DEF Calculate
  <2>3. QED BY <2>1, <2>2, BecomesEffect
<1>3. CASE CalculationFails(e)
  BY <1>3, ReportEffect DEF CalculationFails
<1>4. CASE SavePayslip(e)
  BY <1>4, ReportEffect DEF SavePayslip
<1>5. CASE JobFault(e)
  BY <1>5, ReportEffect DEF JobFault
<1>6. CASE ReadRun(e)
  <2> DEFINE u == [t EXCEPT !.pend = @ \ {"run"}, !.status = status]
  <2>1. u.count = t.count /\ u.pc = t.pc
    BY <1>t DEF Task
  <2>2. t.pc # "save" /\ Becomes(e, u)
    BY <1>6 DEF ReadRun
  <2>3. QED BY <2>1, <2>2, BecomesEffect
<1>7. CASE ReadSlips(e)
  <2> DEFINE u == [t EXCEPT !.pend = @ \ {"slips"}, !.count = Cardinality(slips)]
  <2>1. u.count = Cardinality(slips) /\ u.pc = t.pc
    BY <1>t DEF Task
  <2>2. t.pc # "save" /\ Becomes(e, u)
    BY <1>7 DEF ReadSlips
  <2>3. QED BY <2>1, <2>2, BecomesEffect
<1>8. CASE ReadProgress(e)
  <2> DEFINE u == [t EXCEPT !.pend = @ \ {"progress"}, !.tracked = progress.exists, !.failed = progress.failed]
  <2>1. u.count = t.count /\ u.pc = t.pc
    BY <1>t DEF Task
  <2>2. t.pc # "save" /\ Becomes(e, u)
    BY <1>8 DEF ReadProgress
  <2>3. QED BY <2>1, <2>2, BecomesEffect
<1>9. CASE NothingToReport(e)
  BY <1>9, ReportEffect DEF NothingToReport
<1>10. CASE WriteProgress(e)
  <2> DEFINE u == [NoTask EXCEPT !.pc = "totals", !.failing = t.failing]
  <2>1. u.count = 0 /\ u.pc = "totals"
    BY DEF NoTask
  <2>2. ToAck(e) \/ Becomes(e, u)
    BY <1>10 DEF WriteProgress, GoesOn
  <2>3. QED BY <2>1, <2>2, BecomesEffect, ReportEffect
<1>11. CASE ReadTotals(e)
  <2> DEFINE u == [t EXCEPT !.pc = "decide", !.rows = slips, !.pend = {"run", "progress"}]
  <2>1. u.count = t.count /\ u.pc = "decide"
    BY <1>t DEF Task
  <2>2. Becomes(e, u)
    BY <1>11 DEF ReadTotals
  <2>3. QED BY <2>1, <2>2, BecomesEffect
<1>12. CASE WriteFinal(e)
  BY <1>12, ReportEffect DEF WriteFinal
<1>13. CASE ReportFault(e)
  BY <1>13, ReportEffect DEF ReportFault
<1>14. CASE EndJob(e)
  <2>1. NoTask.count = 0 /\ NoTask.pc = "idle"
    BY DEF NoTask
  <2>2. QED BY <1>14, <2>1, BecomesEffect DEF EndJob
<1>15. CASE Promote(e) \/ Reclaim(e)
  BY <1>15 DEF Promote, Reclaim, TaskEffect
<1>16. QED
  BY <1>1, <1>2, <1>3, <1>4, <1>5, <1>6, <1>7, <1>8, <1>9, <1>10, <1>11, <1>12, <1>13,
     <1>14, <1>15 DEF TaskStep

LEMMA StepTaskEffect ==
    ASSUME TypeOK, [Next]_vars PROVE \A d \in Emp : TaskEffect(d)
<1>1. ASSUME NEW e \in Emp, Fetch(e) \/ TaskStep(e) \/ Promote(e) \/ JobFault(e)
                            \/ ReportFault(e) \/ Reclaim(e)
      PROVE  \A d \in Emp : TaskEffect(d)
  BY <1>1, TaskStepEffect
<1>2. CASE Crash
  <2>1. NoTask.count = 0 /\ NoTask.pc = "idle"
    BY DEF NoTask
  <2>2. \A d \in Emp : task'[d] = NoTask
    BY <1>2 DEF Crash
  <2>3. QED BY <2>1, <2>2 DEF TaskEffect
<1>3. CASE ParentStep \/ ParentFailure \/ ParentReclaim
  <2>1. task' = task
    BY <1>3 DEF ParentStep, ParentFailure, ParentReclaim, ParentFetch, MarkProcessing,
       CreateProgress, FanOut, ParentDone, ReadStatusForFailure, MarkFailed, ParentPromote,
       CreateProgressFault, ParentFault, CatchFault
  <2>2. QED BY <2>1 DEF TaskEffect
<1>4. CASE RequestStep \/ UNCHANGED vars
  <2>1. task' = task
    BY <1>4 DEF RequestStep, RetryRequest, RetryParent, RetryMark, SingleRequest, SingleSave,
       SingleSum, SingleWrite, vars
  <2>2. QED BY <2>1 DEF TaskEffect
<1>5. QED BY <1>1, <1>2, <1>3, <1>4 DEF Next

\* Only the two payslip writes touch the payslips.
LEMMA SlipsEffect ==
    ASSUME [Next]_vars
    PROVE  slips' = slips \/ SingleSave \/ \E e \in Emp : SavePayslip(e)
BY DEF Next, vars, ParentStep, ParentFailure, ParentReclaim, ParentFetch, MarkProcessing,
   CreateProgress, FanOut, ParentDone, ReadStatusForFailure, MarkFailed, ParentPromote,
   CreateProgressFault, ParentFault, CatchFault, Fetch, TaskStep, Promote, JobFault, ReportFault,
   Reclaim, Calculate, CalculationFails, ReadRun, ReadSlips, ReadProgress, NothingToReport,
   WriteProgress, ReadTotals, WriteFinal, EndJob, Crash, RequestStep, RetryRequest, RetryParent,
   RetryMark, SingleRequest, SingleSum, SingleWrite

\* Only updateProgress changes the count of completed employees.
LEMMA ProgressEffect ==
    ASSUME TypeOK, [Next]_vars
    PROVE  progress'.completed = progress.completed
           \/ \E e \in Emp : progress'.completed = task[e].count
<1>1. progress' = progress \/ CreateProgress \/ \E e \in Emp : WriteProgress(e)
  BY DEF Next, vars, ParentStep, ParentFailure, ParentReclaim, ParentFetch, MarkProcessing,
     FanOut, ParentDone, ReadStatusForFailure, MarkFailed, ParentPromote,
     CreateProgressFault, ParentFault, CatchFault, Fetch, TaskStep, Promote, JobFault, ReportFault,
     Reclaim, Calculate, CalculationFails, SavePayslip, ReadRun, ReadSlips, ReadProgress,
     NothingToReport, ReadTotals, WriteFinal, EndJob, Crash, RequestStep, RetryRequest,
     RetryParent, RetryMark, SingleRequest, SingleSave, SingleSum, SingleWrite
<1>2. CASE CreateProgress
  BY <1>2 DEF CreateProgress, TypeOK
<1>3. ASSUME NEW e \in Emp, WriteProgress(e) PROVE progress'.completed = task[e].count
  BY <1>3 DEF WriteProgress, WriteCounts, TypeOK
<1>4. QED BY <1>1, <1>2, <1>3

\* Only finalizePayrollRun writes COMPLETED.
LEMMA StatusEffect ==
    ASSUME [Next]_vars
    PROVE  status' = status \/ status' # "COMPLETED" \/ \E e \in Emp : WriteFinal(e)
BY DEF Next, vars, ParentStep, ParentFailure, ParentReclaim, ParentFetch, MarkProcessing,
   CreateProgress, FanOut, ParentDone, ReadStatusForFailure, MarkFailed, ParentPromote,
   CreateProgressFault, ParentFault, CatchFault, Fetch, TaskStep, Promote, JobFault, ReportFault,
   Reclaim, Calculate, CalculationFails, SavePayslip, ReadRun, ReadSlips, ReadProgress,
   NothingToReport, WriteProgress, ReadTotals, EndJob, Crash, RequestStep, RetryRequest,
   RetryParent, RetryMark, SingleRequest, SingleSave, SingleSum, SingleWrite

-----------------------------------------------------------------------------
(* Payslips are only ever added, so a count that was read stays backed     *)

LEMMA SlipsGrow ==
    ASSUME TypeOK, [Next]_vars
    PROVE  slips \subseteq slips' /\ Cardinality(slips) <= Cardinality(slips')
           /\ Cardinality(slips) \in Nat /\ Cardinality(slips') \in Nat
<1>1. slips \subseteq slips'
  BY SlipsEffect DEF SingleSave, SavePayslip, Saved
<1>2. IsFiniteSet(slips) /\ IsFiniteSet(slips')
  BY StepType DEF TypeOK
<1>3. QED BY <1>1, <1>2, FS_Subset, FS_CardinalityType

\* Every count of payslips held by a processor or the progress row is backed.
CountInv ==
    /\ progress.completed <= Cardinality(slips)
    /\ \A e \in Emp : task[e].count <= Cardinality(slips)

LEMMA CountInit == Init => CountInv
BY FS_EmptySet DEF Init, CountInv, NoTask

LEMMA CountStep == TypeOK /\ CountInv /\ [Next]_vars => CountInv'
<1> SUFFICES ASSUME TypeOK, CountInv, [Next]_vars PROVE CountInv'
  OBVIOUS
<1>1. /\ Cardinality(slips) \in Nat /\ Cardinality(slips') \in Nat
      /\ Cardinality(slips) <= Cardinality(slips')
  BY SlipsGrow
<1>2. TypeOK'
  BY StepType
<1>3. progress'.completed <= Cardinality(slips')
  <2>1. progress'.completed \in Nat /\ progress.completed \in Nat
    BY <1>2 DEF TypeOK
  <2>2. \A e \in Emp : task[e].count \in Nat
    BY DEF TypeOK, Task
  <2>3. progress'.completed <= Cardinality(slips)
    BY <2>1, <2>2, ProgressEffect DEF CountInv
  <2>4. QED BY <1>1, <2>1, <2>3
<1>4. ASSUME NEW d \in Emp PROVE task'[d].count <= Cardinality(slips')
  <2>1. task'[d].count \in Nat /\ task[d].count \in Nat
    BY <1>2 DEF TypeOK, Task
  <2>2. task[d].count <= Cardinality(slips) /\ TaskEffect(d)
    BY StepTaskEffect DEF CountInv
  <2>3. task'[d].count <= Cardinality(slips)
    BY <1>1, <2>1, <2>2 DEF TaskEffect
  <2>4. QED BY <1>1, <2>1, <2>3
<1>5. QED BY <1>3, <1>4 DEF CountInv

\* The progress row never claims more completed employees than there are
\* payslips: the count in it was read from the payslip table at some point, and
\* payslips are never removed (updatePayrollProgress of payroll.worker.js).
THEOREM ProgressIsBacked == Spec => []ProgressBacked
<1>1. CountInv => ProgressBacked
  BY DEF CountInv, ProgressBacked
<1>2. QED BY <1>1, CountInit, CountStep, TypeCorrect, PTL DEF Spec

-----------------------------------------------------------------------------
(* Duplicate payslips                                                      *)

\* The row a processor may still create for its employee, and the row the
\* request in progress may still create.
Potential(e) ==
    IF RowsOf(e) = {} \/ (task[e].pc = "save" /\ ~task[e].found) THEN 1 ELSE 0
Owed == IF hr.pc = "save" THEN 1 ELSE 0

DupInv == \A e \in Emp : Cardinality(RowsOf(e)) + Potential(e) + Owed <= 1 + budget.requests

LEMMA RowsFinite ==
    ASSUME TypeOK, NEW e \in Emp
    PROVE  IsFiniteSet(RowsOf(e)) /\ Cardinality(RowsOf(e)) \in Nat
<1>1. RowsOf(e) \subseteq slips
  BY DEF RowsOf
<1>2. QED BY <1>1, FS_Subset, FS_CardinalityType DEF TypeOK

\* What saving a payslip for e does to the rows of d.
LEMMA SavedRowsOf ==
    ASSUME TypeOK, TypeOK', NEW e \in Emp, NEW found \in BOOLEAN, slips' = Saved(e, found),
           NEW d \in Emp
    PROVE  /\ d # e \/ found => RowsOf(d)' = RowsOf(d)
           /\ ~found => RowsOf(e)' = RowsOf(e) \cup {<<e, Cardinality(RowsOf(e))>>}
           /\ ~found => RowsOf(e)' # {} /\ Cardinality(RowsOf(e)') <= Cardinality(RowsOf(e)) + 1
<1> DEFINE new == <<e, Cardinality(RowsOf(e))>>
<1>1. d # e \/ found => RowsOf(d)' = RowsOf(d)
  BY DEF Saved, RowsOf
<1>2. ~found => RowsOf(e)' = RowsOf(e) \cup {new}
  BY DEF Saved, RowsOf
<1>3. Cardinality(RowsOf(e) \cup {new}) <= Cardinality(RowsOf(e)) + 1
  <2>1. Cardinality(RowsOf(e) \cup {new}) = IF new \in RowsOf(e) THEN Cardinality(RowsOf(e))
                                            ELSE Cardinality(RowsOf(e)) + 1
    BY RowsFinite, FS_AddElement
  <2>2. QED BY <2>1, RowsFinite
<1>4. QED BY <1>1, <1>2, <1>3

LEMMA DupInit == Init => DupInv
<1> SUFFICES ASSUME Init, NEW e \in Emp
             PROVE  Cardinality(RowsOf(e)) + Potential(e) + Owed <= 1 + budget.requests
  BY DEF DupInv
<1>1. RowsOf(e) = {} /\ Cardinality(RowsOf(e)) = 0
  BY FS_EmptySet DEF Init, RowsOf
<1>2. Owed = 0 /\ budget.requests = 0
  BY DEF Init, Owed, NoRequest
<1>3. QED BY <1>1, <1>2 DEF Potential

\* A step that writes no payslip: the owed row is covered by its own request.
LEMMA OwedStep ==
    ASSUME TypeOK, [Next]_vars, slips' = slips
    PROVE  Owed' - Owed <= budget'.requests - budget.requests
<1>1. \/ hr' = hr /\ budget'.requests = budget.requests
      \/ hr'.pc # "save" /\ budget'.requests >= budget.requests
      \/ budget'.requests = budget.requests + 1
  <2>1. CASE ParentStep \/ ParentFailure \/ ParentReclaim
    BY <2>1 DEF ParentStep, ParentFailure, ParentReclaim, ParentFetch, MarkProcessing,
       CreateProgress, FanOut, ParentDone, ReadStatusForFailure, MarkFailed, ParentPromote,
       CreateProgressFault, ParentFault, CatchFault, Fault, TypeOK
  <2>2. ASSUME NEW e \in Emp, Fetch(e) \/ TaskStep(e) \/ Promote(e) \/ JobFault(e)
                              \/ ReportFault(e) \/ Reclaim(e)
        PROVE  hr' = hr /\ budget'.requests = budget.requests
    BY <2>2 DEF Fetch, TaskStep, Promote, JobFault, ReportFault, Reclaim, Calculate,
       CalculationFails, SavePayslip, ReadRun, ReadSlips, ReadProgress, NothingToReport,
       WriteProgress, ReadTotals, WriteFinal, EndJob, Fault, TypeOK
  <2>3. CASE Crash
    BY <2>3 DEF Crash, NoRequest, TypeOK
  <2>4. CASE RetryRequest \/ \E e \in Emp : SingleRequest(e)
    BY <2>4 DEF RetryRequest, SingleRequest, Request, TypeOK
  <2>5. CASE RetryParent \/ RetryMark \/ SingleSave \/ SingleSum \/ SingleWrite
    <3>1. /\ NoRequest.pc = "idle" /\ [hr EXCEPT !.pc = "mark"].pc = "mark"
          /\ [hr EXCEPT !.pc = "sum"].pc = "sum"
          /\ [hr EXCEPT !.pc = "write", !.rows = slips].pc = "write"
      BY DEF NoRequest, HrRequest, TypeOK
    <3>2. budget'.requests = budget.requests /\ budget.requests \in Nat
      BY <2>5 DEF RetryParent, RetryMark, SingleSave, SingleSum, SingleWrite, TypeOK
    <3>3. hr'.pc # "save"
      BY <2>5, <3>1 DEF RetryParent, RetryMark, SingleSave, SingleSum, SingleWrite
    <3>4. QED BY <3>2, <3>3
  <2>6. CASE UNCHANGED vars
    BY <2>6 DEF vars
  <2>7. QED BY <2>1, <2>2, <2>3, <2>4, <2>5, <2>6 DEF Next, RequestStep
<1>2. Owed \in {0, 1} /\ Owed' \in {0, 1} /\ budget.requests \in Nat /\ budget'.requests \in Nat
  BY StepType DEF Owed, TypeOK
<1>3. QED BY <1>1, <1>2 DEF Owed

LEMMA DupStep == TypeOK /\ DupInv /\ [Next]_vars => DupInv'
<1> SUFFICES ASSUME TypeOK, DupInv, [Next]_vars, NEW d \in Emp
             PROVE  Cardinality(RowsOf(d)') + Potential(d)' + Owed' <= 1 + budget'.requests
  BY DEF DupInv
<1>t. /\ TypeOK' /\ TaskEffect(d)
      /\ Cardinality(RowsOf(d)) \in Nat /\ Cardinality(RowsOf(d)') \in Nat
      /\ budget.requests \in Nat /\ budget'.requests \in Nat
  <2>1. TypeOK' /\ TaskEffect(d)
    BY StepType, StepTaskEffect
  <2>2. IsFiniteSet(slips') /\ RowsOf(d)' \subseteq slips'
    BY <2>1 DEF TypeOK, RowsOf
  <2>3. Cardinality(RowsOf(d)') \in Nat
    BY <2>2, FS_Subset, FS_CardinalityType
  <2>4. QED BY <2>1, <2>3, RowsFinite DEF TypeOK
<1>u. /\ Potential(d) \in {0, 1} /\ Potential(d)' \in {0, 1}
      /\ Owed \in {0, 1} /\ Owed' \in {0, 1}
      /\ Cardinality(RowsOf(d)) + Potential(d) + Owed <= 1 + budget.requests
  BY DEF Potential, Owed, DupInv
<1>1. CASE slips' = slips
  <2>1. RowsOf(d)' = RowsOf(d)
    BY <1>1 DEF RowsOf
  <2>2. Potential(d)' <= Potential(d)
    BY <1>t, <2>1 DEF TaskEffect, Potential
  <2>3. Owed' - Owed <= budget'.requests - budget.requests
    BY <1>1, OwedStep
  <2>4. QED BY <1>t, <1>u, <2>1, <2>2, <2>3
<1>2. ASSUME NEW e \in Emp, SavePayslip(e), slips' # slips
      PROVE  Cardinality(RowsOf(d)') + Potential(d)' + Owed' <= 1 + budget'.requests
  <2>1. /\ Owed' = Owed /\ budget' = budget
        /\ task[e].pc = "save" /\ task[e].found \in BOOLEAN /\ slips' = Saved(e, task[e].found)
    BY <1>2 DEF SavePayslip, Owed, TypeOK, Task
  <2>2. ~task[e].found
    BY <1>2, <2>1 DEF Saved
  <2>3. CASE d = e
    <3>1. RowsOf(d)' # {} /\ Cardinality(RowsOf(d)') <= Cardinality(RowsOf(d)) + 1
      BY <1>t, <2>1, <2>2, <2>3, SavedRowsOf
    <3>2. task'[d].pc # "save"
      <4>1. StartReport(e, FALSE) \/ ToAck(e)
        BY <1>2 DEF SavePayslip
      <4>2. /\ [NoTask EXCEPT !.pc = "report", !.failing = FALSE,
                              !.pend = {"run", "slips", "progress"}].pc = "report"
            /\ [NoTask EXCEPT !.pc = "ack", !.failing = task[e].failing].pc = "ack"
        BY DEF NoTask
      <4>3. QED BY <2>3, <4>1, <4>2 DEF StartReport, ToAck, Becomes, TypeOK
    <3>3. Potential(d) = 1 /\ Potential(d)' = 0
      BY <2>1, <2>2, <2>3, <3>1, <3>2 DEF Potential
    <3>4. QED BY <1>t, <1>u, <2>1, <3>1, <3>3
  <2>4. CASE d # e
    <3>1. RowsOf(d)' = RowsOf(d)
      BY <1>t, <2>1, <2>4, SavedRowsOf
    <3>2. Potential(d)' <= Potential(d)
      BY <1>t, <1>2, <3>1 DEF TaskEffect, Potential
    <3>3. QED BY <1>t, <1>u, <2>1, <3>1, <3>2
  <2>5. QED BY <2>3, <2>4
<1>3. CASE SingleSave /\ slips' # slips
  <2>1. /\ Owed = 1 /\ Owed' = 0 /\ budget' = budget /\ task' = task
        /\ hr.emp \in Emp /\ hr.found \in BOOLEAN /\ slips' = Saved(hr.emp, hr.found)
    BY <1>3 DEF SingleSave, Owed, TypeOK, HrRequest
  <2>2. ~hr.found
    BY <1>3, <2>1 DEF Saved
  <2>3. CASE d = hr.emp
    <3>1. RowsOf(d)' # {} /\ Cardinality(RowsOf(d)') <= Cardinality(RowsOf(d)) + 1
      BY <1>t, <2>1, <2>2, <2>3, SavedRowsOf
    <3>2. Potential(d)' <= Potential(d)
      BY <2>1, <3>1 DEF Potential
    <3>3. QED BY <1>t, <1>u, <2>1, <3>1, <3>2
  <2>4. CASE d # hr.emp
    <3>1. RowsOf(d)' = RowsOf(d)
      BY <1>t, <2>1, <2>4, SavedRowsOf
    <3>2. Potential(d)' = Potential(d)
      BY <2>1, <3>1 DEF Potential
    <3>3. QED BY <1>t, <1>u, <2>1, <3>1, <3>2
  <2>5. QED BY <2>3, <2>4
<1>4. QED BY <1>1, <1>2, <1>3, SlipsEffect

\* However retries, stalls, crashes and an administrator's processSingleEmployee
\* interleave with the find-then-create of createOrUpdatePayslip, an employee
\* gets at most one payslip more than the administrator asked for.
THEOREM DuplicatesBounded == Spec => []DuplicatesNeedRequests
<1>1. TypeOK /\ DupInv => DuplicatesNeedRequests
  <2> SUFFICES ASSUME TypeOK, DupInv, NEW e \in Emp
               PROVE  Cardinality(RowsOf(e)) <= 1 + budget.requests
    BY DEF DuplicatesNeedRequests
  <2>1. /\ Cardinality(RowsOf(e)) \in Nat /\ budget.requests \in Nat
        /\ Potential(e) \in {0, 1} /\ Owed \in {0, 1}
    BY RowsFinite DEF TypeOK, Potential, Owed
  <2>2. QED BY <2>1 DEF DupInv
<1>2. QED BY <1>1, DupInit, DupStep, TypeCorrect, PTL DEF Spec

-----------------------------------------------------------------------------
(* A COMPLETED run has paid everybody                                      *)

\* One payslip for each employee.
AllRows == Emp \X {0}

LEMMA AllRowsCount == IsFiniteSet(AllRows) /\ Cardinality(AllRows) = N
<1>1. IsFiniteSet(Emp) /\ Cardinality(Emp) = N
  BY WorkerAssumption, FS_Interval DEF Emp
<1>2. IsFiniteSet({0}) /\ Cardinality({0}) = 1
  BY FS_Singleton
<1>3. QED BY <1>1, <1>2, FS_Product, WorkerAssumption DEF AllRows

LEMMA EveryRow ==
    ASSUME slips \subseteq AllRows, Cardinality(slips) >= N PROVE slips = AllRows
<1>1. Cardinality(slips) <= N
  BY AllRowsCount, FS_Subset
<1>2. Cardinality(slips) = Cardinality(AllRows)
  <2>1. Cardinality(slips) \in Nat
    BY AllRowsCount, FS_Subset, FS_CardinalityType
  <2>2. QED BY <1>1, <2>1, AllRowsCount, WorkerAssumption
<1>3. QED BY <1>2, AllRowsCount, FS_Subset

\* Until the administrator's first request a payslip write that found nothing
\* still finds nothing, and every row is its employee's first.
FirstRows ==
    budget.requests = 0 =>
        /\ hr.pc = "idle"
        /\ slips \subseteq AllRows
        /\ \A e \in Emp : task[e].pc = "save" /\ ~task[e].found => RowsOf(e) = {}

\* A job that found the run complete has seen a failure recorded, or every
\* payslip; what it sums and decides is about all of them, or it says FAILED.
Counted(e) ==
    LET t == task[e]
    IN  /\ t.pc \in {"totals", "decide"} => progress.failed > 0 \/ slips = AllRows
        /\ t.pc = "decide" => progress.failed > 0 \/ t.rows = AllRows
        /\ t.pc = "decide" /\ "progress" \notin t.pend => t.failed > 0 \/ t.rows = AllRows
        /\ t.pc = "decide" => t.rows \subseteq slips

CompletedWhole ==
    status = "COMPLETED" => slips = AllRows /\ totals = [pay |-> AllRows, allowances |-> AllRows]

WholeInv ==
    budget.requests = 0 /\ ~progress.lowered => CompletedWhole /\ \A e \in Emp : Counted(e)

LEMMA FirstRowsInit == Init => FirstRows /\ WholeInv
BY DEF Init, FirstRows, WholeInv, CompletedWhole, Counted, NoRequest, NoTask

\* Requests are only ever added, and without one nobody acts for the administrator.
LEMMA NoRequestStep ==
    ASSUME TypeOK, FirstRows, [Next]_vars, budget'.requests = 0
    PROVE  budget.requests = 0 /\ hr'.pc = "idle" /\ ~RequestStep
<1>1. ~Request
  BY DEF Request, TypeOK
<1>2. budget.requests = 0
  BY <1>1 DEF Next, vars, ParentStep, ParentFailure, ParentReclaim, ParentFetch, MarkProcessing,
     CreateProgress, FanOut, ParentDone, ReadStatusForFailure, MarkFailed, ParentPromote,
     CreateProgressFault, ParentFault, CatchFault, Fetch, TaskStep, Promote, JobFault,
     ReportFault, Reclaim, Calculate, CalculationFails, SavePayslip, ReadRun, ReadSlips,
     ReadProgress, NothingToReport, WriteProgress, ReadTotals, WriteFinal, EndJob, Crash,
     RequestStep, RetryRequest, RetryParent, RetryMark, SingleRequest, SingleSave, SingleSum,
     SingleWrite, Fault, TypeOK
<1>3. ~RequestStep
  BY <1>1, <1>2 DEF FirstRows, RequestStep, RetryRequest, RetryParent, RetryMark, SingleRequest,
     SingleSave, SingleSum, SingleWrite
<1>4. hr' = hr \/ hr' = NoRequest
  BY <1>3 DEF Next, vars, ParentStep, ParentFailure, ParentReclaim, ParentFetch, MarkProcessing,
     CreateProgress, FanOut, ParentDone, ReadStatusForFailure, MarkFailed, ParentPromote,
     CreateProgressFault, ParentFault, CatchFault, Fetch, TaskStep, Promote, JobFault,
     ReportFault, Reclaim, Calculate, CalculationFails, SavePayslip, ReadRun, ReadSlips,
     ReadProgress, NothingToReport, WriteProgress, ReadTotals, WriteFinal, EndJob, Crash
<1>5. QED BY <1>2, <1>3, <1>4 DEF FirstRows, NoRequest

LEMMA FirstRowsStep ==
    ASSUME TypeOK, FirstRows, [Next]_vars PROVE FirstRows'
<1> SUFFICES ASSUME budget'.requests = 0
             PROVE  /\ hr'.pc = "idle"
                    /\ slips' \subseteq AllRows
                    /\ \A d \in Emp : task'[d].pc = "save" /\ ~task'[d].found => RowsOf(d)' = {}
  BY DEF FirstRows
<1>1. budget.requests = 0 /\ hr'.pc = "idle" /\ ~SingleSave
  BY NoRequestStep DEF RequestStep
<1>2. slips' = slips \/ \E e \in Emp : SavePayslip(e)
  BY <1>1, SlipsEffect
<1>3. ASSUME NEW e \in Emp, SavePayslip(e), slips' # slips
      PROVE  /\ slips' = slips \cup {<<e, 0>>} /\ \A d \in Emp : d # e => RowsOf(d)' = RowsOf(d)
             /\ task'[e].pc # "save"
  <2>1. task[e].pc = "save" /\ ~task[e].found
    BY <1>3 DEF SavePayslip, Saved
  <2>2. Cardinality(RowsOf(e)) = 0
    BY <1>1, <2>1, FS_EmptySet DEF FirstRows
  <2>3. slips' = slips \cup {<<e, 0>>}
    BY <1>3, <2>1, <2>2 DEF SavePayslip, Saved
  <2>4. \A d \in Emp : d # e => RowsOf(d)' = RowsOf(d)
    BY <2>3 DEF RowsOf
  <2>5. StartReport(e, FALSE) \/ ToAck(e)
    BY <1>3 DEF SavePayslip
  <2>6. /\ [NoTask EXCEPT !.pc = "report", !.failing = FALSE,
                          !.pend = {"run", "slips", "progress"}].pc = "report"
        /\ [NoTask EXCEPT !.pc = "ack", !.failing = task[e].failing].pc = "ack"
    BY DEF NoTask
  <2>7. task'[e].pc # "save"
    BY <2>5, <2>6 DEF StartReport, ToAck, Becomes, TypeOK
  <2>8. QED BY <2>3, <2>4, <2>7
<1>4. slips' \subseteq AllRows
  BY <1>1, <1>2, <1>3 DEF FirstRows, AllRows
<1>5. ASSUME NEW d \in Emp, task'[d].pc = "save", ~task'[d].found PROVE RowsOf(d)' = {}
  <2>1. TaskEffect(d)
    BY StepTaskEffect
  <2>2. RowsOf(d) = {}
    BY <1>1, <1>5, <2>1 DEF TaskEffect, FirstRows
  <2>3. RowsOf(d)' = RowsOf(d)
    BY <1>2, <1>3, <1>5 DEF RowsOf
  <2>4. QED BY <2>2, <2>3
<1>6. QED BY <1>1, <1>4, <1>5

\* Where a job goes from its report.
LEMMA GoesOnRecords ==
    ASSUME TypeOK, NEW e \in Emp, NEW n, GoesOn(e, n)
    PROVE  \E u \in Task : /\ Becomes(e, u)
                           /\ \/ u.pc = "ack"
                              \/ u.pc = "totals" /\ n >= N /\ task[e].status = "PROCESSING"
<1>1. CASE ToAck(e)
  <2>1. PICK u : u = [NoTask EXCEPT !.pc = "ack", !.failing = task[e].failing]
    OBVIOUS
  <2>2. u \in Task /\ u.pc = "ack"
    BY <2>1, IdleRecords DEF Task, TypeOK
  <2>3. QED BY <1>1, <2>1, <2>2 DEF ToAck
<1>2. CASE ~ToAck(e)
  <2>1. PICK u : u = [NoTask EXCEPT !.pc = "totals", !.failing = task[e].failing]
    OBVIOUS
  <2>2. u \in Task /\ u.pc = "totals"
    BY <2>1, IdleRecords DEF Task, TypeOK
  <2>3. QED BY <1>2, <2>1, <2>2 DEF GoesOn
<1>3. QED BY <1>1, <1>2

\* The steps of a processor that matter to its verdict.
VerdictStep(d) == WriteProgress(d) \/ ReadTotals(d) \/ ReadRun(d) \/ ReadProgress(d)

Uninvolved(d) == task'[d] = task[d] \/ task'[d].pc \notin {"totals", "decide"}

LEMMA OwnStep ==
    ASSUME TypeOK, NEW e \in Emp, NEW u, Becomes(e, u),
           \/ u.pc \notin {"totals", "decide"}
           \/ (u.pc = task[e].pc /\ task[e].pc \notin {"totals", "decide"})
    PROVE  \A d \in Emp : Uninvolved(d)
BY DEF Becomes, Uninvolved, TypeOK

LEMMA ReportOwnStep ==
    ASSUME TypeOK, NEW e \in Emp, (\E failing \in BOOLEAN : StartReport(e, failing)) \/ ToAck(e)
    PROVE  \A d \in Emp : Uninvolved(d)
<1>1. ASSUME NEW failing \in BOOLEAN, StartReport(e, failing) PROVE \A d \in Emp : Uninvolved(d)
  <2>1. PICK u : u = [NoTask EXCEPT !.pc = "report", !.failing = failing,
                                    !.pend = {"run", "slips", "progress"}]
    OBVIOUS
  <2>2. u.pc = "report" /\ Becomes(e, u)
    BY <1>1, <2>1 DEF NoTask, StartReport
  <2>3. u.pc \notin {"totals", "decide"}
    BY <2>2
  <2>4. QED BY <2>2, <2>3 DEF Becomes, Uninvolved, TypeOK
<1>2. CASE ToAck(e)
  <2>1. PICK u : u = [NoTask EXCEPT !.pc = "ack", !.failing = task[e].failing]
    OBVIOUS
  <2>2. u.pc = "ack" /\ Becomes(e, u)
    BY <1>2, <2>1 DEF NoTask, ToAck
  <2>3. u.pc \notin {"totals", "decide"}
    BY <2>2
  <2>4. QED BY <2>2, <2>3 DEF Becomes, Uninvolved, TypeOK
<1>3. QED BY <1>1, <1>2

LEMMA VerdictCases ==
    ASSUME TypeOK, [Next]_vars, NEW d \in Emp PROVE Uninvolved(d) \/ VerdictStep(d)
<1>1. ASSUME NEW e \in Emp, Fetch(e) \/ TaskStep(e) \/ Promote(e) \/ JobFault(e)
                            \/ ReportFault(e) \/ Reclaim(e)
      PROVE  Uninvolved(d) \/ VerdictStep(d)
  <2>t. task[e] \in Task
    BY DEF TypeOK
  <2>1. CASE Fetch(e)
    <3>1. PICK u : u = [task[e] EXCEPT !.pc = "calculate"]
      OBVIOUS
    <3>2. u.pc \notin {"totals", "decide"}
      BY <2>t, <3>1 DEF Task
    <3>3. Becomes(e, u)
      BY <2>1, <3>1 DEF Fetch
    <3>4. QED BY <3>2, <3>3 DEF Becomes, Uninvolved, TypeOK
  <2>2. CASE Calculate(e)
    <3>1. [task[e] EXCEPT !.pc = "save", !.found = RowsOf(e) # {}].pc = "save"
      BY <2>t DEF Task
    <3>2. QED BY <2>2, <3>1, OwnStep DEF Calculate
  <2>3. CASE CalculationFails(e) \/ SavePayslip(e) \/ JobFault(e)
    BY <2>3, ReportOwnStep DEF CalculationFails, SavePayslip, JobFault
  <2>4. CASE ReportFault(e) \/ NothingToReport(e) \/ WriteFinal(e)
    BY <2>4, ReportOwnStep DEF ReportFault, NothingToReport, WriteFinal
  <2>5. CASE ReadSlips(e)
    <3>1. [task[e] EXCEPT !.pend = @ \ {"slips"}, !.count = Cardinality(slips)].pc = task[e].pc
      BY <2>t DEF Task
    <3>2. QED BY <2>5, <3>1, OwnStep DEF ReadSlips
  <2>6. CASE EndJob(e)
    <3>1. NoTask.pc = "idle"
      BY DEF NoTask
    <3>2. QED BY <2>6, <3>1, OwnStep DEF EndJob
  <2>7. CASE Promote(e) \/ Reclaim(e)
    BY <2>7 DEF Promote, Reclaim, Uninvolved
  <2>8. CASE VerdictStep(e)
    <3>1. d = e \/ task'[d] = task[d]
      BY <2>8 DEF VerdictStep, WriteProgress, GoesOn, ToAck, ReadTotals, ReadRun, ReadProgress,
         Becomes, TypeOK
    <3>2. QED BY <2>8, <3>1 DEF Uninvolved
  <2>9. QED BY <1>1, <2>1, <2>2, <2>3, <2>4, <2>5, <2>6, <2>7, <2>8 DEF TaskStep, VerdictStep
<1>2. CASE Crash
  <2>1. task'[d] = NoTask /\ NoTask.pc = "idle"
    BY <1>2 DEF Crash, NoTask
  <2>2. QED BY <2>1 DEF Uninvolved
<1>3. CASE ParentStep \/ ParentFailure \/ ParentReclaim \/ RequestStep \/ UNCHANGED vars
  <2>1. task' = task
    BY <1>3 DEF ParentStep, ParentFailure, ParentReclaim, ParentFetch, MarkProcessing,
       CreateProgress, FanOut, ParentDone, ReadStatusForFailure, MarkFailed, ParentPromote,
       CreateProgressFault, ParentFault, CatchFault, RequestStep, RetryRequest, RetryParent,
       RetryMark, SingleRequest, SingleSave, SingleSum, SingleWrite, vars
  <2>2. QED BY <2>1 DEF Uninvolved
<1>4. QED BY <1>1, <1>2, <1>3 DEF Next

\* What is recorded of failures is not taken back, but for a lost update.
LEMMA FailuresGrow ==
    ASSUME TypeOK, [Next]_vars, ~progress'.lowered
    PROVE  ~progress.lowered /\ progress'.failed >= progress.failed
           /\ progress'.failed \in Nat /\ progress.failed \in Nat
<1>1. progress' = progress \/ CreateProgress \/ \E e \in Emp : WriteProgress(e)
  BY DEF Next, vars, ParentStep, ParentFailure, ParentReclaim, ParentFetch, MarkProcessing,
     FanOut, ParentDone, ReadStatusForFailure, MarkFailed, ParentPromote,
     CreateProgressFault, ParentFault, CatchFault, Fetch, TaskStep, Promote, JobFault, ReportFault,
     Reclaim, Calculate, CalculationFails, SavePayslip, ReadRun, ReadSlips, ReadProgress,
     NothingToReport, ReadTotals, WriteFinal, EndJob, Crash, RequestStep, RetryRequest,
     RetryParent, RetryMark, SingleRequest, SingleSave, SingleSum, SingleWrite
<1>2. progress'.failed \in Nat /\ progress.failed \in Nat
  BY StepType DEF TypeOK
<1>3. CASE progress' = progress
  BY <1>2, <1>3
<1>4. CASE CreateProgress
  BY <1>2, <1>4 DEF CreateProgress, TypeOK
<1>5. ASSUME NEW e \in Emp, WriteProgress(e)
      PROVE  ~progress.lowered /\ progress'.failed >= progress.failed
  <2>1. PICK n : n = FailuresOf(task[e])
    OBVIOUS
  <2>2. progress'.failed = n
    BY <1>5, <2>1 DEF WriteProgress, WriteCounts, TypeOK
  <2>3. progress'.lowered = (progress.lowered \/ n < progress.failed)
    BY <1>5, <2>1 DEF WriteProgress, WriteCounts, TypeOK
  <2>4. ~progress.lowered /\ ~(n < progress.failed)
    BY <2>3
  <2>5. QED BY <1>2, <2>2, <2>4
<1>6. QED BY <1>1, <1>2, <1>3, <1>4, <1>5

\* Only finalizePayrollRun and the administrator's request write the totals.
LEMMA TotalsEffect ==
    ASSUME [Next]_vars PROVE totals' = totals \/ SingleWrite \/ \E e \in Emp : WriteFinal(e)
BY DEF Next, vars, ParentStep, ParentFailure, ParentReclaim, ParentFetch, MarkProcessing,
   CreateProgress, FanOut, ParentDone, ReadStatusForFailure, MarkFailed, ParentPromote,
   CreateProgressFault, ParentFault, CatchFault, Fetch, TaskStep, Promote, JobFault, ReportFault,
   Reclaim, Calculate, CalculationFails, SavePayslip, ReadRun, ReadSlips, ReadProgress,
   NothingToReport, WriteProgress, ReadTotals, EndJob, Crash, RequestStep, RetryRequest,
   RetryParent, RetryMark, SingleRequest, SingleSave, SingleSum

LEMMA WholeStep ==
    ASSUME TypeOK, CountInv, FirstRows, WholeInv, [Next]_vars PROVE WholeInv'
<1> SUFFICES ASSUME budget'.requests = 0, ~progress'.lowered
             PROVE  CompletedWhole' /\ \A d \in Emp : Counted(d)'
  BY DEF WholeInv
<1>1. budget.requests = 0 /\ ~RequestStep /\ ~progress.lowered
  BY NoRequestStep, FailuresGrow
<1>2. /\ CompletedWhole /\ \A d \in Emp : Counted(d)
      /\ progress'.failed >= progress.failed /\ progress'.failed \in Nat /\ progress.failed \in Nat
  BY <1>1, FailuresGrow DEF WholeInv
<1>3. /\ slips = AllRows => slips' = AllRows
      /\ slips \subseteq slips'
  BY FirstRowsStep, SlipsGrow DEF FirstRows
<1>4. ASSUME NEW d \in Emp PROVE Counted(d)'
  <2>t. task[d] \in Task /\ Counted(d)
    BY <1>2 DEF TypeOK
  <2>1. CASE Uninvolved(d)
    BY <1>2, <1>3, <2>1, <2>t DEF Uninvolved, Counted
  <2>2. CASE WriteProgress(d)
    <3>1. PICK u \in Task :
            /\ Becomes(d, u)
            /\ u.pc = "ack" \/ (u.pc = "totals" /\ task[d].count + FailuresOf(task[d]) >= N)
      BY <2>2, GoesOnRecords DEF WriteProgress
    <3>2. task'[d] = u /\ progress'.failed = FailuresOf(task[d]) /\ slips' = slips
      BY <2>2, <3>1 DEF Becomes, WriteProgress, WriteCounts, TypeOK
    <3>3. u.pc = "totals" /\ progress'.failed = 0 => slips = AllRows
      <4>1. SUFFICES ASSUME u.pc = "totals", progress'.failed = 0 PROVE slips = AllRows
        OBVIOUS
      <4>2. task[d].count >= N
        BY <2>t, <3>1, <3>2, <4>1, WorkerAssumption DEF Task
      <4>3. Cardinality(slips) >= N
        BY <2>t, <4>2, FS_CardinalityType, WorkerAssumption DEF CountInv, TypeOK, Task
      <4>4. QED BY <1>1, <4>3, EveryRow DEF FirstRows
    <3>4. QED BY <1>2, <3>1, <3>2, <3>3 DEF Counted
  <2>3. CASE ReadTotals(d)
    <3>1. PICK u : u = [task[d] EXCEPT !.pc = "decide", !.rows = slips, !.pend = {"run", "progress"}]
      OBVIOUS
    <3>2. u.pc = "decide" /\ u.rows = slips /\ u.pend = {"run", "progress"}
      BY <2>t, <3>1 DEF Task
    <3>3. task'[d] = u /\ slips' = slips /\ progress' = progress /\ task[d].pc = "totals"
      BY <2>3, <3>1 DEF ReadTotals, Becomes, TypeOK
    <3>4. QED BY <2>t, <3>2, <3>3 DEF Counted
  <2>4. CASE ReadRun(d)
    <3>1. PICK u : u = [task[d] EXCEPT !.pend = @ \ {"run"}, !.status = status]
      OBVIOUS
    <3>2. /\ u.pc = task[d].pc /\ u.rows = task[d].rows /\ u.failed = task[d].failed
          /\ u.pend = task[d].pend \ {"run"}
      BY <2>t, <3>1 DEF Task
    <3>3. task'[d] = u /\ slips' = slips /\ progress' = progress
      BY <2>4, <3>1 DEF ReadRun, Becomes, TypeOK
    <3>4. QED BY <2>t, <3>2, <3>3 DEF Counted
  <2>5. CASE ReadProgress(d)
    <3>1. PICK u : u = [task[d] EXCEPT !.pend = @ \ {"progress"}, !.tracked = progress.exists,
                                       !.failed = progress.failed]
      OBVIOUS
    <3>2. u.pc = task[d].pc /\ u.rows = task[d].rows /\ u.failed = progress.failed
      BY <2>t, <3>1 DEF Task
    <3>3. task'[d] = u /\ slips' = slips /\ progress' = progress
      BY <2>5, <3>1 DEF ReadProgress, Becomes, TypeOK
    <3>4. QED BY <2>t, <3>2, <3>3 DEF Counted
  <2>6. QED BY <2>1, <2>2, <2>3, <2>4, <2>5, VerdictCases DEF VerdictStep
<1>5. CompletedWhole'
  <2>1. SUFFICES ASSUME status' = "COMPLETED"
                 PROVE  slips' = AllRows /\ totals' = [pay |-> AllRows, allowances |-> AllRows]
    BY DEF CompletedWhole
  <2>2. ASSUME NEW e \in Emp, WriteFinal(e)
        PROVE  slips' = AllRows /\ totals' = [pay |-> AllRows, allowances |-> AllRows]
    <3>1. task[e] \in Task /\ task[e].pc = "decide" /\ task[e].pend = {}
      BY <2>2 DEF WriteFinal, TypeOK
    <3>2. ~(task[e].failed > 0)
      BY <2>1, <2>2 DEF WriteFinal, FinalStatus
    <3>3. task[e].rows = AllRows
      BY <1>2, <3>1, <3>2 DEF Counted
    <3>4. task[e].rows \subseteq slips
      BY <1>2, <3>1 DEF Counted
    <3>5. slips = AllRows
      BY <1>1, <3>3, <3>4 DEF FirstRows
    <3>6. QED BY <2>2, <3>3, <3>5 DEF WriteFinal
  <2>3. CASE \A e \in Emp : ~WriteFinal(e)
    <3>1. status = "COMPLETED" /\ totals' = totals
      BY <1>1, <2>1, <2>3, StatusEffect, TotalsEffect DEF RequestStep
    <3>2. QED BY <1>2, <1>3, <3>1 DEF CompletedWhole
  <2>4. QED BY <2>2, <2>3
<1>6. QED BY <1>4, <1>5

\* For every number of employees, every concurrency, any failing calls, retries,
\* redeliveries and crashes: before the first request of an administrator a
\* COMPLETED run is whole, unless the count of failures was lowered by a reporter
\* that had not read it.
THEOREM CompletedRunsAreWhole == Spec => []WholeUnlessLowered
<1>1. CountInv /\ TypeOK /\ FirstRows /\ WholeInv /\ [Next]_vars
        => CountInv' /\ TypeOK' /\ FirstRows' /\ WholeInv'
  BY StepType, CountStep, FirstRowsStep, WholeStep
<1>2. Init => CountInv /\ TypeOK /\ FirstRows /\ WholeInv
  BY InitType, CountInit, FirstRowsInit
<1>3. WholeInv => WholeUnlessLowered
  <2>1. ASSUME NEW e \in Emp, slips = AllRows PROVE RowsOf(e) # {}
    <3>1. <<e, 0>> \in RowsOf(e)
      BY <2>1 DEF RowsOf, AllRows
    <3>2. QED BY <3>1
  <2>2. QED BY <2>1 DEF WholeInv, CompletedWhole, WholeUnlessLowered, CompletedMeansPaid, TotalsAreWhole
<1>4. QED BY <1>1, <1>2, <1>3, PTL DEF Spec

-----------------------------------------------------------------------------
(* One job at a time: whatever fails, crashes or is asked for, what a      *)
(* reporter has read of the failures is still what is recorded.            *)

OneAtWork ==
    /\ \A e \in Emp : job[e].state = "active" <=> task[e].pc # "idle"
    /\ \A d, e \in Emp : job[d].state = "active" /\ job[e].state = "active" => d = e

Reported(e) ==
    task[e].pc = "report" /\ "progress" \notin task[e].pend => task[e].failed = progress.failed

Unasked == budget.requests = 0

Alone == OneAtWork /\ ~progress.lowered /\ \A e \in Emp : Reported(e)

LEMMA AloneInit == Init => Alone
BY DEF Init, Alone, OneAtWork, Reported, NoTask, NoJob

\* A worker that takes one job at a time takes one when none is active.
LEMMA NoneActive ==
    ASSUME Concurrency = 1, TypeOK, NEW e \in Emp, Fetch(e)
    PROVE  \A d \in Emp : job[d].state # "active"
<1>1. IsFiniteSet(Active)
  <2>1. IsFiniteSet(Emp) /\ Active \subseteq Emp
    BY WorkerAssumption, FS_Interval DEF Emp, Active
  <2>2. QED BY <2>1, FS_Subset
<1>2. Cardinality(Active) < 1 /\ Cardinality(Active) \in Nat
  BY <1>1, FS_CardinalityType DEF Fetch
<1>3. Active = {}
  BY <1>1, <1>2, FS_EmptySet
<1>4. QED BY <1>3 DEF Active

\* A processor that goes on, alone.
LEMMA AloneTask ==
    ASSUME TypeOK, Alone, NEW e \in Emp, NEW u \in Task, Becomes(e, u),
           job' = job, progress' = progress, task[e].pc # "idle", u.pc # "idle",
           u.pc = "report" /\ "progress" \notin u.pend => u.failed = progress.failed
    PROVE  Alone'
<1>1. task'[e] = u /\ \A d \in Emp : d # e => task'[d] = task[d]
  BY DEF Becomes, TypeOK
<1>2. OneAtWork'
  BY <1>1 DEF Alone, OneAtWork
<1>3. \A d \in Emp : Reported(d)'
  BY <1>1 DEF Alone, Reported
<1>4. QED BY <1>2, <1>3 DEF Alone

LEMMA AloneReport ==
    ASSUME TypeOK, Alone, NEW e \in Emp, job' = job, progress' = progress, task[e].pc # "idle",
           (\E failing \in BOOLEAN : StartReport(e, failing)) \/ ToAck(e)
    PROVE  Alone'
<1>1. ASSUME NEW failing \in BOOLEAN, StartReport(e, failing) PROVE Alone'
  <2>1. PICK u : u = [NoTask EXCEPT !.pc = "report", !.failing = failing,
                                    !.pend = {"run", "slips", "progress"}]
    OBVIOUS
  <2>2. u \in Task /\ u.pc = "report" /\ u.pend = {"run", "slips", "progress"}
    BY <2>1, IdleRecords DEF Task
  <2>3. Becomes(e, u) /\ u.pc # "idle" /\ "progress" \in u.pend
    BY <1>1, <2>1, <2>2 DEF StartReport
  <2>4. QED BY <2>2, <2>3, AloneTask
<1>2. CASE ToAck(e)
  <2>1. PICK u : u = [NoTask EXCEPT !.pc = "ack", !.failing = task[e].failing]
    OBVIOUS
  <2>2. u \in Task /\ u.pc = "ack"
    BY <2>1, IdleRecords DEF Task, TypeOK
  <2>3. Becomes(e, u) /\ u.pc # "idle" /\ u.pc # "report"
    BY <1>2, <2>1, <2>2 DEF ToAck
  <2>4. QED BY <2>2, <2>3, AloneTask
<1>3. QED BY <1>1, <1>2

LEMMA AloneTaskStep ==
    ASSUME TypeOK, Alone, NEW e \in Emp, TaskStep(e) \/ JobFault(e) \/ ReportFault(e)
    PROVE  Alone'
<1>t. task[e] \in Task
  BY DEF TypeOK
<1>1. CASE Calculate(e)
  <2>1. PICK u : u = [task[e] EXCEPT !.pc = "save", !.found = RowsOf(e) # {}]
    OBVIOUS
  <2>2. u \in Task /\ u.pc = "save"
    BY <1>t, <2>1 DEF Task
  <2>3. Becomes(e, u) /\ job' = job /\ progress' = progress /\ task[e].pc # "idle"
    BY <1>1, <2>1 DEF Calculate
  <2>4. QED BY <2>2, <2>3, AloneTask
<1>2. CASE CalculationFails(e) \/ SavePayslip(e) \/ JobFault(e)
  <2>1. /\ job' = job /\ progress' = progress /\ task[e].pc # "idle"
        /\ (\E failing \in BOOLEAN : StartReport(e, failing)) \/ ToAck(e)
    BY <1>2 DEF CalculationFails, SavePayslip, JobFault
  <2>2. QED BY <2>1, AloneReport
<1>3. CASE ReportFault(e) \/ NothingToReport(e) \/ WriteFinal(e)
  <2>1. job' = job /\ progress' = progress /\ task[e].pc # "idle" /\ ToAck(e)
    BY <1>3 DEF ReportFault, NothingToReport, WriteFinal
  <2>2. QED BY <2>1, AloneReport
<1>4. CASE ReadRun(e)
  <2>1. PICK u : u = [task[e] EXCEPT !.pend = @ \ {"run"}, !.status = status]
    OBVIOUS
  <2>2. /\ u \in Task /\ u.pc = task[e].pc /\ u.failed = task[e].failed
        /\ u.pend = task[e].pend \ {"run"}
    BY <1>t, <2>1 DEF Task, TypeOK
  <2>3. Becomes(e, u) /\ job' = job /\ progress' = progress /\ task[e].pc # "idle"
    BY <1>4, <2>1 DEF ReadRun
  <2>4. u.pc = "report" /\ "progress" \notin u.pend => u.failed = progress.failed
    BY <2>2 DEF Alone, Reported
  <2>5. QED BY <2>2, <2>3, <2>4, AloneTask
<1>5. CASE ReadSlips(e)
  <2>1. PICK n : n = Cardinality(slips)
    OBVIOUS
  <2>2. PICK u : u = [task[e] EXCEPT !.pend = @ \ {"slips"}, !.count = n]
    OBVIOUS
  <2>3. n \in Nat
    BY <2>1, FS_CardinalityType DEF TypeOK
  <2>4. /\ u \in Task /\ u.pc = task[e].pc /\ u.failed = task[e].failed
        /\ u.pend = task[e].pend \ {"slips"}
    BY <1>t, <2>2, <2>3 DEF Task
  <2>5. Becomes(e, u) /\ job' = job /\ progress' = progress /\ task[e].pc # "idle"
    BY <1>5, <2>1, <2>2 DEF ReadSlips
  <2>6. u.pc = "report" /\ "progress" \notin u.pend => u.failed = progress.failed
    BY <2>4 DEF Alone, Reported
  <2>7. QED BY <2>4, <2>5, <2>6, AloneTask
<1>6. CASE ReadProgress(e)
  <2>1. PICK u : u = [task[e] EXCEPT !.pend = @ \ {"progress"}, !.tracked = progress.exists,
                                     !.failed = progress.failed]
    OBVIOUS
  <2>2. u \in Task /\ u.pc = task[e].pc /\ u.failed = progress.failed
    BY <1>t, <2>1 DEF Task, TypeOK
  <2>3. Becomes(e, u) /\ job' = job /\ progress' = progress /\ task[e].pc # "idle"
    BY <1>6, <2>1 DEF ReadProgress
  <2>4. QED BY <2>2, <2>3, AloneTask
<1>7. CASE ReadTotals(e)
  <2>1. PICK u : u = [task[e] EXCEPT !.pc = "decide", !.rows = slips, !.pend = {"run", "progress"}]
    OBVIOUS
  <2>2. u \in Task /\ u.pc = "decide"
    BY <1>t, <2>1 DEF Task, TypeOK
  <2>3. Becomes(e, u) /\ job' = job /\ progress' = progress /\ task[e].pc # "idle"
    BY <1>7, <2>1 DEF ReadTotals
  <2>4. QED BY <2>2, <2>3, AloneTask
<1>8. CASE WriteProgress(e)
  <2>1. PICK u \in Task : Becomes(e, u) /\ (u.pc = "ack" \/ u.pc = "totals")
    BY <1>8, GoesOnRecords DEF WriteProgress
  <2>2. job' = job /\ task'[e] = u /\ \A d \in Emp : d # e => task'[d] = task[d]
    BY <1>8, <2>1 DEF WriteProgress, Becomes, TypeOK
  <2>3. task[e].pc = "report" /\ task[e].pend = {} /\ task[e].failed = progress.failed
    BY <1>8 DEF WriteProgress, Alone, Reported
  <2>4. PICK n : n = FailuresOf(task[e])
    OBVIOUS
  <2>5. n \in Nat /\ progress.failed \in Nat /\ ~(n < progress.failed)
    BY <1>t, <2>3, <2>4 DEF FailuresOf, Task, TypeOK
  <2>6. progress'.lowered = (progress.lowered \/ n < progress.failed)
    BY <1>8, <2>4 DEF WriteProgress, WriteCounts, TypeOK
  <2>7. ~progress'.lowered
    BY <2>5, <2>6 DEF Alone
  <2>8. OneAtWork'
    BY <2>1, <2>2, <2>3 DEF Alone, OneAtWork
  <2>9. ASSUME NEW d \in Emp PROVE Reported(d)'
    <3>1. d # e => task[d].pc # "report"
      BY <2>3 DEF Alone, OneAtWork
    <3>2. QED BY <2>1, <2>2, <3>1 DEF Reported
  <2>10. QED BY <2>7, <2>8, <2>9 DEF Alone
<1>9. CASE EndJob(e)
  <2>1. NoTask.pc = "idle"
    BY DEF NoTask
  <2>2. /\ task'[e] = NoTask /\ \A d \in Emp : d # e => task'[d] = task[d] /\ job'[d] = job[d]
        /\ progress' = progress
    BY <1>9 DEF EndJob, Becomes, TypeOK
  <2>3. job'[e].state # "active"
    BY <1>9, JobRecords DEF EndJob, TypeOK, Job, AfterFailure
  <2>4. OneAtWork'
    BY <2>1, <2>2, <2>3 DEF Alone, OneAtWork
  <2>5. QED BY <2>1, <2>2, <2>4 DEF Alone, Reported
<1>10. QED BY <1>1, <1>2, <1>3, <1>4, <1>5, <1>6, <1>7, <1>8, <1>9 DEF TaskStep

\* What leaves the processors and the active jobs alone.
LEMMA AloneQueue ==
    ASSUME Alone, progress'.failed = progress.failed, progress'.lowered = progress.lowered,
           \A d \in Emp : task'[d] = task[d] /\ (job'[d].state = "active" <=> job[d].state = "active")
    PROVE  Alone'
<1>1. OneAtWork'
  BY DEF Alone, OneAtWork
<1>2. QED BY <1>1 DEF Alone, Reported

LEMMA AloneStep ==
    ASSUME Concurrency = 1, TypeOK, Alone, [Next]_vars PROVE Alone'
<1>1. ASSUME NEW e \in Emp, TaskStep(e) \/ JobFault(e) \/ ReportFault(e) PROVE Alone'
  BY <1>1, AloneTaskStep
<1>2. ASSUME NEW e \in Emp, Fetch(e) PROVE Alone'
  <2>1. \A d \in Emp : job[d].state # "active"
    BY <1>2, NoneActive
  <2>2. PICK u : u = [task[e] EXCEPT !.pc = "calculate"]
    OBVIOUS
  <2>3. u.pc = "calculate"
    BY <2>2 DEF Task, TypeOK
  <2>4. /\ task'[e] = u /\ job'[e].state = "active" /\ progress' = progress
        /\ \A d \in Emp : d # e => task'[d] = task[d] /\ job'[d] = job[d]
    BY <1>2, <2>2 DEF Fetch, Becomes, TypeOK, Job
  <2>5. OneAtWork'
    BY <2>1, <2>3, <2>4 DEF Alone, OneAtWork
  <2>6. QED BY <2>3, <2>4, <2>5 DEF Alone, Reported
<1>3. ASSUME NEW e \in Emp, Promote(e) \/ Reclaim(e) PROVE Alone'
  <2>1. task' = task /\ progress' = progress
    BY <1>3 DEF Promote, Reclaim
  <2>2. PICK j : /\ job' = [job EXCEPT ![e] = j]
                 /\ j = [job[e] EXCEPT !.state = "waiting"] \/ j = AfterStall(job[e])
    BY <1>3 DEF Promote, Reclaim
  <2>3. j.state # "active" /\ job[e].state # "active"
    BY <1>3, <2>2 DEF Promote, Reclaim, AfterStall, TypeOK, Job
  <2>4. ASSUME NEW d \in Emp PROVE job'[d].state = "active" <=> job[d].state = "active"
    BY <2>2, <2>3 DEF TypeOK
  <2>5. QED BY <2>1, <2>4, AloneQueue
<1>4. CASE Crash
  <2>1. NoTask.pc = "idle"
    BY DEF NoTask
  <2>2. \A d \in Emp : task'[d] = NoTask /\ job'[d].state # "active" /\ progress' = progress
    BY <1>4 DEF Crash, Stalled, TypeOK, Job
  <2>3. progress' = progress
    BY <1>4 DEF Crash
  <2>4. OneAtWork'
    BY <2>1, <2>2 DEF OneAtWork
  <2>5. QED BY <2>1, <2>2, <2>3, <2>4 DEF Alone, Reported
<1>5. CASE FanOut
  <2>1. task' = task /\ progress' = progress
    BY <1>5 DEF FanOut
  <2>2. ASSUME NEW d \in Emp PROVE job'[d].state = "active" <=> job[d].state = "active"
    BY <1>5 DEF FanOut, TypeOK, Job
  <2>3. QED BY <2>1, <2>2, AloneQueue
<1>6. CASE (ParentStep /\ ~FanOut) \/ ParentFailure \/ ParentReclaim \/ RequestStep \/ UNCHANGED vars
  <2>1. task' = task /\ job' = job
    BY <1>6 DEF ParentStep, ParentFailure, ParentReclaim, ParentFetch, MarkProcessing,
       CreateProgress, ParentDone, ReadStatusForFailure, MarkFailed, ParentPromote,
       CreateProgressFault, ParentFault, CatchFault, RequestStep, RetryRequest, RetryParent,
       RetryMark, SingleRequest, SingleSave, SingleSum, SingleWrite, vars
  <2>2. progress'.failed = progress.failed /\ progress'.lowered = progress.lowered
    BY <1>6 DEF ParentStep, ParentFailure, ParentReclaim, ParentFetch, MarkProcessing,
       CreateProgress, ParentDone, ReadStatusForFailure, MarkFailed, ParentPromote,
       CreateProgressFault, ParentFault, CatchFault, RequestStep, RetryRequest, RetryParent,
       RetryMark, SingleRequest, SingleSave, SingleSum, SingleWrite, vars, TypeOK
  <2>3. QED BY <2>1, <2>2, AloneQueue
<1>7. QED BY <1>1, <1>2, <1>3, <1>4, <1>5, <1>6 DEF Next

\* With one job at a time (WORKER_CONCURRENCY = 1) and no administrator, the
\* document's sentence holds of every COMPLETED run, whatever calls fail and
\* however often the process dies: it is the parallel jobs that break it.
THEOREM AloneCompletedMeansPaid ==
    ASSUME Concurrency = 1, MaxRequests = 0 PROVE Spec => []CompletedMeansPaid
<1>1. TypeOK /\ Alone /\ [Next]_vars => Alone'
  BY AloneStep
<1>2. Init => TypeOK /\ Alone
  BY InitType, AloneInit
<1>3. Spec => [](TypeOK /\ Alone)
  BY <1>1, <1>2, StepType, PTL DEF Spec
<1>4. Spec => []Unasked
  <2>1. Init => Unasked
    BY DEF Init, Unasked
  <2>2. TypeOK /\ Unasked /\ [Next]_vars => Unasked'
    <3>1. ASSUME TypeOK PROVE ~Request
      BY <3>1 DEF Request, TypeOK
    <3>2. QED
      BY <3>1 DEF Next, vars, ParentStep, ParentFailure, ParentReclaim, ParentFetch, MarkProcessing,
         CreateProgress, FanOut, ParentDone, ReadStatusForFailure, MarkFailed, ParentPromote,
         CreateProgressFault, ParentFault, CatchFault, Fetch, TaskStep, Promote, JobFault,
         ReportFault, Reclaim, Calculate, CalculationFails, SavePayslip, ReadRun, ReadSlips,
         ReadProgress, NothingToReport, WriteProgress, ReadTotals, WriteFinal, EndJob, Crash,
         RequestStep, RetryRequest, RetryParent, RetryMark, SingleRequest, SingleSave, SingleSum,
         SingleWrite, Fault, TypeOK, Unasked
  <2>3. QED BY <2>1, <2>2, StepType, InitType, PTL DEF Spec
<1>5. Alone /\ Unasked /\ WholeUnlessLowered => CompletedMeansPaid
  BY DEF Alone, Unasked, WholeUnlessLowered, CompletedMeansPaid
<1>6. QED BY <1>3, <1>4, <1>5, CompletedRunsAreWhole, PTL

-----------------------------------------------------------------------------
(* One job at a time, and nothing fails but calculations: a run as its     *)
(* users see it                                                            *)

Sequential == Concurrency = 1 /\ MaxFaults = 0 /\ MaxCrashes = 0 /\ MaxRequests = 0

\* The parent job runs once, and no employee job runs before it has fanned out.
ParentFits ==
    /\ \/ parent.state \in {"waiting", "completed"} /\ parent.pc = "idle"
       \/ parent.state = "active" /\ parent.pc \in {"mark", "progress", "fanout", "ack"}
    /\ status = "DRAFT" <=> parent.state = "waiting" \/ parent.pc = "mark"
    /\ parent.state = "waiting" \/ parent.pc \in {"mark", "progress", "fanout"}
          => \A e \in Emp : job[e].state = "none"

\* What a job alone at work has read is still so.
Knows(e) ==
    LET t == task[e]
    IN  /\ t.pc = "save" => (t.found <=> RowsOf(e) # {})
        /\ t.pc \in {"report", "decide"} /\ "run" \notin t.pend => t.status = status
        /\ t.pc \in {"totals", "decide"} =>
              status = "PROCESSING" /\ progress.completed + progress.failed >= N
        /\ t.pc = "decide" /\ "progress" \notin t.pend => t.failed = progress.failed

CompletedFits == status = "COMPLETED" => slips = AllRows

SequentialInv ==
    /\ hr.pc = "idle"
    /\ slips \subseteq AllRows
    /\ ParentFits
    /\ OneAtWork
    /\ \A e \in Emp : Knows(e)
    /\ CompletedFits

LEMMA SequentialInit == Init => SequentialInv
<1> SUFFICES ASSUME Init PROVE SequentialInv
  OBVIOUS
<1> USE DEF Init, NoTask, NoJob, NoRequest
<1>1. ParentFits
  BY DEF ParentFits
<1>2. OneAtWork
  BY DEF OneAtWork
<1>3. \A e \in Emp : Knows(e)
  BY DEF Knows
<1>4. CompletedFits
  BY DEF CompletedFits
<1>5. QED BY <1>1, <1>2, <1>3, <1>4 DEF SequentialInv

\* Which steps are left.
LEMMA SequentialSteps ==
    ASSUME Sequential, TypeOK, SequentialInv, [Next]_vars
    PROVE  \/ ParentFetch \/ MarkProcessing \/ CreateProgress \/ FanOut \/ ParentDone
           \/ \E e \in Emp : Fetch(e) \/ TaskStep(e) \/ Promote(e) \/ Reclaim(e)
           \/ UNCHANGED vars
<1>1. ~Fault /\ ~Crash /\ ~Request
  BY DEF Sequential, Fault, Crash, Request, TypeOK
<1>2. ~ParentFailure /\ \A e \in Emp : ~JobFault(e) /\ ~ReportFault(e)
  BY <1>1 DEF ParentFailure, CreateProgressFault, ParentFault, CatchFault, JobFault, ReportFault
<1>3. ~RequestStep
  BY <1>1 DEF RequestStep, RetryRequest, RetryParent, RetryMark, SingleRequest, SingleSave,
     SingleSum, SingleWrite, SequentialInv
<1>4. ~ReadStatusForFailure /\ ~MarkFailed /\ ~ParentPromote /\ ~ParentReclaim
  BY DEF ReadStatusForFailure, MarkFailed, ParentPromote, ParentReclaim, SequentialInv, ParentFits
<1>5. QED BY <1>1, <1>2, <1>3, <1>4 DEF Next, ParentStep

\* The steps of the parent job: the jobs it fans out have not begun.
LEMMA ParentSequentialStep ==
    ASSUME TypeOK, SequentialInv,
           ParentFetch \/ MarkProcessing \/ CreateProgress \/ FanOut \/ ParentDone
    PROVE  SequentialInv'
<1>1. /\ task' = task /\ slips' = slips /\ totals' = totals /\ hr' = hr
      /\ progress' = progress \/ CreateProgress
      /\ status' = status \/ MarkProcessing
      /\ job' = job \/ FanOut
  BY DEF ParentFetch, MarkProcessing, CreateProgress, FanOut, ParentDone
<1>2. parent.state \in {"waiting", "active", "completed"} /\ parent \in Parent
  BY DEF SequentialInv, ParentFits, TypeOK
<1>3. ParentFits'
  <2>1. CASE ParentFetch
    BY <1>2, <2>1 DEF ParentFetch, SequentialInv, ParentFits, Parent
  <2>2. CASE MarkProcessing
    BY <1>2, <2>2 DEF MarkProcessing, ParentGoto, SequentialInv, ParentFits, Parent
  <2>3. CASE CreateProgress
    BY <1>2, <2>3 DEF CreateProgress, ParentGoto, SequentialInv, ParentFits, Parent
  <2>4. CASE FanOut
    <3>1. parent'.state = "active" /\ parent'.pc = "ack" /\ status' = status /\ status # "DRAFT"
      BY <1>2, <2>4 DEF FanOut, ParentGoto, SequentialInv, ParentFits, Parent
    <3>2. QED BY <3>1 DEF ParentFits
  <2>5. CASE ParentDone
    BY <1>2, <2>5 DEF ParentDone, SequentialInv, ParentFits, Parent
  <2>6. QED BY <2>1, <2>2, <2>3, <2>4, <2>5
<1>4. ASSUME NEW e \in Emp PROVE job'[e].state = "active" <=> job[e].state = "active"
  <2>1. CASE FanOut
    <3>1. job[e] \in Job
      BY DEF TypeOK
    <3>2. QED BY <2>1, <3>1 DEF FanOut, Job
  <2>2. QED BY <1>1, <2>1
<1>5. OneAtWork'
  BY <1>1, <1>4 DEF SequentialInv, OneAtWork
<1>6. \A e \in Emp : Knows(e)'
  <2>1. CASE status' = status /\ progress' = progress
    BY <1>1, <2>1 DEF SequentialInv, Knows, RowsOf
  <2>2. CASE MarkProcessing
    <3>1. \A e \in Emp : job[e].state = "none"
      BY <2>2 DEF MarkProcessing, SequentialInv, ParentFits
    <3>2. \A e \in Emp : task[e].pc = "idle"
      BY <3>1 DEF SequentialInv, OneAtWork
    <3>3. QED BY <1>1, <3>2 DEF Knows
  <2>3. CASE CreateProgress
    <3>1. \A e \in Emp : job[e].state = "none"
      BY <2>3 DEF CreateProgress, SequentialInv, ParentFits
    <3>2. \A e \in Emp : task[e].pc = "idle"
      BY <3>1 DEF SequentialInv, OneAtWork
    <3>3. QED BY <1>1, <3>2 DEF Knows
  <2>4. QED BY <1>1, <2>1, <2>2, <2>3
<1>7. CompletedFits'
  <2>1. status' = "COMPLETED" => status = "COMPLETED"
    BY <1>1 DEF MarkProcessing
  <2>2. QED BY <1>1, <2>1 DEF SequentialInv, CompletedFits
<1>8. QED BY <1>1, <1>3, <1>5, <1>6, <1>7 DEF SequentialInv

\* A step of the one job at work leaves the other processors idle.
LEMMA AtWork ==
    ASSUME TypeOK, SequentialInv, NEW e \in Emp, NEW u \in Task, task[e].pc # "idle",
           u.pc # "idle", Becomes(e, u), job' = job, parent' = parent, hr' = hr,
           status' = "DRAFT" <=> status = "DRAFT"
    PROVE  /\ task'[e] = u /\ hr'.pc = "idle" /\ ParentFits' /\ OneAtWork'
           /\ \A d \in Emp : d # e => Knows(d)'
           /\ status # "DRAFT"
<1>1. task' = [task EXCEPT ![e] = u] /\ task'[e] = u
  BY DEF Becomes, TypeOK
<1>2. ParentFits'
  BY DEF SequentialInv, ParentFits
<1>3. OneAtWork'
  BY <1>1 DEF SequentialInv, OneAtWork, TypeOK
<1>4. ASSUME NEW d \in Emp, d # e PROVE Knows(d)'
  <2>1. task[d].pc = "idle"
    BY <1>4 DEF SequentialInv, OneAtWork
  <2>2. task'[d].pc = "idle"
    BY <1>1, <1>4, <2>1 DEF TypeOK
  <2>3. QED BY <2>2 DEF Knows
<1>5. status # "DRAFT"
  <2>1. job[e].state # "none"
    BY DEF SequentialInv, OneAtWork
  <2>2. QED BY <2>1 DEF SequentialInv, ParentFits
<1>6. QED BY <1>1, <1>2, <1>3, <1>4, <1>5 DEF SequentialInv

\* Where reporting begins, and where it is left again.
LEMMA ReportRecords ==
    ASSUME TypeOK, NEW e \in Emp
    PROVE  /\ \A failing \in BOOLEAN : StartReport(e, failing) =>
                 \E u \in Task : /\ Becomes(e, u) /\ u.pc = "report"
                                 /\ u.pend = {"run", "slips", "progress"}
           /\ ToAck(e) => \E u \in Task : Becomes(e, u) /\ u.pc = "ack"
<1>1. ASSUME NEW failing \in BOOLEAN, StartReport(e, failing)
      PROVE  \E u \in Task : Becomes(e, u) /\ u.pc = "report" /\ u.pend = {"run", "slips", "progress"}
  <2>1. PICK u : u = [NoTask EXCEPT !.pc = "report", !.failing = failing,
                                    !.pend = {"run", "slips", "progress"}]
    OBVIOUS
  <2>2. u \in Task /\ u.pc = "report" /\ u.pend = {"run", "slips", "progress"}
    BY <2>1, IdleRecords DEF Task
  <2>3. QED BY <1>1, <2>1, <2>2 DEF StartReport
<1>2. ASSUME ToAck(e) PROVE \E u \in Task : Becomes(e, u) /\ u.pc = "ack"
  <2>1. PICK u : u = [NoTask EXCEPT !.pc = "ack", !.failing = task[e].failing]
    OBVIOUS
  <2>2. u \in Task /\ u.pc = "ack"
    BY <2>1, IdleRecords DEF Task, TypeOK
  <2>3. QED BY <1>2, <2>1, <2>2 DEF ToAck
<1>3. QED BY <1>1, <1>2

\* A job is taken, ends, or becomes ready again.
LEMMA QueueSequentialStep ==
    ASSUME Sequential, TypeOK, SequentialInv, NEW e \in Emp,
           Fetch(e) \/ EndJob(e) \/ Promote(e) \/ Reclaim(e)
    PROVE  SequentialInv'
<1>1. /\ slips' = slips /\ totals' = totals /\ hr' = hr /\ parent' = parent
      /\ progress' = progress /\ status' = status
  BY DEF Fetch, EndJob, Promote, Reclaim
<1>2. job[e] \in Job /\ task[e] \in Task
  BY DEF TypeOK
<1>3. /\ job[e].state # "none"
      /\ \A d \in Emp : d # e => job'[d] = job[d] /\ task'[d] = task[d]
  <2>1. CASE Fetch(e)
    BY <2>1 DEF Fetch, Becomes, TypeOK
  <2>2. CASE EndJob(e)
    BY <2>2 DEF EndJob, Becomes, TypeOK, SequentialInv, OneAtWork
  <2>3. CASE Promote(e) \/ Reclaim(e)
    BY <2>3 DEF Promote, Reclaim, TypeOK
  <2>4. QED BY <2>1, <2>2, <2>3
<1>4. \/ /\ job'[e].state = "active" /\ task'[e].pc = "calculate"
         /\ \A d \in Emp : job[d].state # "active"
      \/ /\ job'[e].state # "active" /\ task'[e].pc = "idle"
  <2>1. CASE Fetch(e)
    <3>1. job'[e].state = "active"
      BY <1>2, <2>1 DEF Fetch, TypeOK, Job
    <3>2. PICK u : u = [task[e] EXCEPT !.pc = "calculate"]
      OBVIOUS
    <3>3. u.pc = "calculate" /\ task'[e] = u
      BY <1>2, <2>1, <3>2 DEF Fetch, Becomes, TypeOK, Task
    <3>4. QED BY <2>1, <3>1, <3>3, NoneActive DEF Sequential
  <2>2. CASE EndJob(e)
    <3>1. task'[e].pc = "idle"
      BY <2>2 DEF EndJob, Becomes, TypeOK, NoTask
    <3>2. PICK j : j = IF task[e].failing THEN AfterFailure(job[e])
                       ELSE [job[e] EXCEPT !.state = "completed"]
      OBVIOUS
    <3>3. j.state # "active"
      BY <1>2, <3>2 DEF AfterFailure, Job
    <3>4. job'[e] = j
      BY <2>2, <3>2 DEF EndJob, TypeOK
    <3>5. QED BY <3>1, <3>3, <3>4
  <2>3. CASE Promote(e)
    <3>1. job'[e].state = "waiting" /\ job[e].state = "delayed" /\ task' = task
      BY <1>2, <2>3 DEF Promote, TypeOK, Job
    <3>2. QED BY <3>1 DEF SequentialInv, OneAtWork
  <2>4. CASE Reclaim(e)
    <3>1. job'[e] = AfterStall(job[e]) /\ job[e].state = "stalled" /\ task' = task
      BY <2>4 DEF Reclaim, TypeOK
    <3>2. job'[e].state # "active"
      BY <1>2, <3>1 DEF AfterStall, Job
    <3>3. QED BY <3>1, <3>2 DEF SequentialInv, OneAtWork
  <2>5. QED BY <2>1, <2>2, <2>3, <2>4
<1>5. ParentFits'
  BY <1>1, <1>3 DEF SequentialInv, ParentFits
<1>6. OneAtWork'
  BY <1>3, <1>4 DEF SequentialInv, OneAtWork
<1>7. ASSUME NEW d \in Emp PROVE Knows(d)'
  <2>1. CASE d = e
    BY <1>4, <2>1 DEF Knows
  <2>2. CASE d # e
    <3>1. task'[d] = task[d] /\ RowsOf(d)' = RowsOf(d)
      BY <1>1, <1>3, <2>2 DEF RowsOf
    <3>2. QED BY <1>1, <3>1 DEF SequentialInv, Knows
  <2>3. QED BY <2>1, <2>2
<1>8. CompletedFits'
  BY <1>1 DEF SequentialInv, CompletedFits
<1>9. QED BY <1>1, <1>5, <1>6, <1>7, <1>8 DEF SequentialInv

\* A processor that reads, or turns to reporting: nothing shared changes but
\* its own knowledge.
LEMMA ReadingStep ==
    ASSUME TypeOK, SequentialInv, NEW e \in Emp,
           \/ Calculate(e) \/ CalculationFails(e) \/ ReadRun(e) \/ ReadSlips(e)
           \/ ReadProgress(e) \/ NothingToReport(e) \/ ReadTotals(e)
    PROVE  SequentialInv'
<1> DEFINE t == task[e]
<1>1. /\ slips' = slips /\ totals' = totals /\ hr' = hr /\ parent' = parent /\ job' = job
      /\ progress' = progress /\ status' = status /\ t.pc # "idle"
  BY DEF Calculate, CalculationFails, ReadRun, ReadSlips, ReadProgress, NothingToReport, ReadTotals
<1>2. t \in Task /\ Knows(e)
  BY DEF TypeOK, SequentialInv
<1>3. PICK u \in Task :
        /\ Becomes(e, u) /\ u.pc # "idle"
        /\ u.pc = "save" => (u.found <=> RowsOf(e) # {})
        /\ u.pc \in {"report", "decide"} /\ "run" \notin u.pend => u.status = status
        /\ u.pc \in {"totals", "decide"} =>
              status = "PROCESSING" /\ progress.completed + progress.failed >= N
        /\ u.pc = "decide" /\ "progress" \notin u.pend => u.failed = progress.failed
  <2>1. CASE Calculate(e)
    <3>1. PICK u : u = [t EXCEPT !.pc = "save", !.found = RowsOf(e) # {}]
      OBVIOUS
    <3>2. u \in Task /\ u.pc = "save" /\ u.found = (RowsOf(e) # {})
      BY <1>2, <3>1 DEF Task
    <3>3. QED BY <2>1, <3>1, <3>2 DEF Calculate
  <2>2. CASE CalculationFails(e)
    <3>1. PICK u \in Task : Becomes(e, u) /\ u.pc = "report" /\ u.pend = {"run", "slips", "progress"}
      BY <2>2, ReportRecords DEF CalculationFails
    <3>2. QED BY <3>1
  <2>3. CASE NothingToReport(e)
    <3>1. PICK u \in Task : Becomes(e, u) /\ u.pc = "ack"
      BY <2>3, ReportRecords DEF NothingToReport
    <3>2. QED BY <3>1
  <2>4. CASE ReadRun(e)
    <3>1. PICK u : u = [t EXCEPT !.pend = @ \ {"run"}, !.status = status]
      OBVIOUS
    <3>2. /\ u \in Task /\ u.pc = t.pc /\ u.status = status /\ u.pend = t.pend \ {"run"}
          /\ u.failed = t.failed
      BY <1>2, <3>1 DEF Task, TypeOK
    <3>3. t.pc \in {"report", "decide"} /\ Becomes(e, u)
      BY <2>4, <3>1 DEF ReadRun
    <3>4. QED BY <1>2, <3>2, <3>3 DEF Knows
  <2>5. CASE ReadSlips(e)
    <3>1. PICK u : u = [t EXCEPT !.pend = @ \ {"slips"}, !.count = Cardinality(slips)]
      OBVIOUS
    <3>2. /\ u \in Task /\ u.pc = t.pc /\ u.status = t.status /\ u.pend = t.pend \ {"slips"}
      BY <1>2, <3>1, FS_CardinalityType DEF Task, TypeOK
    <3>3. t.pc = "report" /\ Becomes(e, u)
      BY <2>5, <3>1 DEF ReadSlips
    <3>4. QED BY <1>2, <3>2, <3>3 DEF Knows
  <2>6. CASE ReadProgress(e)
    <3>1. PICK u : u = [t EXCEPT !.pend = @ \ {"progress"}, !.tracked = progress.exists, !.failed = progress.failed]
      OBVIOUS
    <3>2. /\ u \in Task /\ u.pc = t.pc /\ u.status = t.status /\ u.pend = t.pend \ {"progress"}
          /\ u.failed = progress.failed
      BY <1>2, <3>1 DEF Task, TypeOK
    <3>3. t.pc \in {"report", "decide"} /\ Becomes(e, u)
      BY <2>6, <3>1 DEF ReadProgress
    <3>4. QED BY <1>2, <3>2, <3>3 DEF Knows
  <2>7. CASE ReadTotals(e)
    <3>1. PICK u : u = [t EXCEPT !.pc = "decide", !.rows = slips, !.pend = {"run", "progress"}]
      OBVIOUS
    <3>2. u \in Task /\ u.pc = "decide" /\ u.pend = {"run", "progress"}
      BY <1>2, <3>1 DEF Task, TypeOK
    <3>3. t.pc = "totals" /\ Becomes(e, u)
      BY <2>7, <3>1 DEF ReadTotals
    <3>4. QED BY <1>2, <3>2, <3>3 DEF Knows
  <2>8. QED BY <2>1, <2>2, <2>3, <2>4, <2>5, <2>6, <2>7
<1>4. /\ task'[e] = u /\ hr'.pc = "idle" /\ ParentFits' /\ OneAtWork'
      /\ \A d \in Emp : d # e => Knows(d)'
  BY <1>1, <1>3, AtWork
<1>5. RowsOf(e)' = RowsOf(e)
  BY <1>1 DEF RowsOf
<1>6. Knows(e)'
  BY <1>1, <1>3, <1>4, <1>5 DEF Knows
<1>7. CompletedFits'
  BY <1>1 DEF SequentialInv, CompletedFits
<1>8. QED BY <1>1, <1>4, <1>6, <1>7 DEF SequentialInv

LEMMA SavingStep ==
    ASSUME TypeOK, SequentialInv, NEW e \in Emp, SavePayslip(e)
    PROVE  SequentialInv'
<1>1. /\ totals' = totals /\ hr' = hr /\ parent' = parent /\ job' = job
      /\ progress' = progress /\ status' = status /\ task[e].pc = "save"
      /\ slips' = Saved(e, task[e].found)
  BY DEF SavePayslip
<1>2. task[e].found <=> RowsOf(e) # {}
  BY <1>1 DEF SequentialInv, Knows
<1>3. PICK u \in Task : Becomes(e, u) /\ u.pc \in {"report", "ack"}
                        /\ (u.pc = "report" => u.pend = {"run", "slips", "progress"})
  BY ReportRecords DEF SavePayslip
<1>4. /\ task'[e] = u /\ hr'.pc = "idle" /\ ParentFits' /\ OneAtWork'
      /\ \A d \in Emp : d # e => Knows(d)'
  BY <1>1, <1>3, AtWork
<1>5. Knows(e)'
  BY <1>3, <1>4 DEF Knows
<1>6. slips' = slips \/ (slips' = slips \cup {<<e, 0>>} /\ RowsOf(e) = {})
  <2>1. RowsOf(e) = {} => Cardinality(RowsOf(e)) = 0
    BY FS_EmptySet
  <2>2. QED BY <1>1, <1>2, <2>1 DEF Saved
<1>7. slips' \subseteq AllRows
  BY <1>6 DEF SequentialInv, AllRows
<1>8. CompletedFits'
  <2>1. SUFFICES ASSUME status' = "COMPLETED" PROVE slips' = AllRows
    BY DEF CompletedFits
  <2>2. slips = AllRows
    BY <1>1, <2>1 DEF SequentialInv, CompletedFits
  <2>3. <<e, 0>> \in RowsOf(e)
    BY <2>2 DEF AllRows, RowsOf
  <2>4. QED BY <1>6, <2>2, <2>3
<1>9. QED BY <1>4, <1>5, <1>7, <1>8 DEF SequentialInv

LEMMA ReportingStep ==
    ASSUME TypeOK, SequentialInv, NEW e \in Emp, WriteProgress(e)
    PROVE  SequentialInv'
<1> DEFINE t == task[e]
<1>1. /\ totals' = totals /\ hr' = hr /\ parent' = parent /\ job' = job
      /\ slips' = slips /\ status' = status /\ t.pc = "report" /\ t.pend = {}
  BY DEF WriteProgress
<1>2. progress'.completed = t.count /\ progress'.failed = FailuresOf(t)
  BY DEF WriteProgress, WriteCounts, TypeOK
<1>3. t \in Task /\ t.status = status
  BY <1>1 DEF SequentialInv, Knows, TypeOK
<1>4. PICK u \in Task :
        /\ Becomes(e, u)
        /\ \/ u.pc = "ack"
           \/ u.pc = "totals" /\ t.count + FailuresOf(t) >= N /\ t.status = "PROCESSING"
  BY <1>3, GoesOnRecords DEF WriteProgress
<1>5. /\ task'[e] = u /\ hr'.pc = "idle" /\ ParentFits' /\ OneAtWork'
      /\ \A d \in Emp : d # e => Knows(d)'
  <2>1. t.pc # "idle" /\ u.pc # "idle"
    BY <1>1, <1>4
  <2>2. QED BY <1>1, <1>4, <2>1, AtWork
<1>6. Knows(e)'
  BY <1>1, <1>2, <1>3, <1>4, <1>5 DEF Knows
<1>7. CompletedFits'
  BY <1>1 DEF SequentialInv, CompletedFits
<1>8. QED BY <1>1, <1>5, <1>6, <1>7 DEF SequentialInv

\* What the one job at work writes when it finalizes the run.
LEMMA Verdict ==
    ASSUME TypeOK, CountInv, SequentialInv, NEW e \in Emp, WriteFinal(e)
    PROVE  /\ status = "PROCESSING" /\ status' \in {"COMPLETED", "FAILED"} /\ slips' = slips
           /\ status' = "COMPLETED" => slips = AllRows
<1> DEFINE t == task[e]
<1>1. t.pc = "decide" /\ t.pend = {} /\ t \in Task
  BY DEF WriteFinal, TypeOK
<1>2. status = "PROCESSING" /\ progress.completed + progress.failed >= N /\ t.failed = progress.failed
  BY <1>1 DEF SequentialInv, Knows
<1>3. status' = FinalStatus(t.status, t.failed) /\ slips' = slips
  BY DEF WriteFinal
<1>4. ASSUME status' = "COMPLETED" PROVE slips = AllRows
  <2>1. ~(t.failed > 0)
    BY <1>3, <1>4 DEF FinalStatus
  <2>2. t.failed \in Nat /\ progress.completed \in Nat /\ progress.completed <= Cardinality(slips)
    BY <1>1 DEF Task, TypeOK, CountInv
  <2>3. Cardinality(slips) >= N
    BY <1>2, <2>1, <2>2, FS_CardinalityType, WorkerAssumption DEF TypeOK
  <2>4. QED BY <2>3, EveryRow DEF SequentialInv
<1>5. QED BY <1>2, <1>3, <1>4, FinalStatusType

LEMMA FinalizingStep ==
    ASSUME TypeOK, CountInv, SequentialInv, NEW e \in Emp, WriteFinal(e)
    PROVE  SequentialInv'
<1>1. /\ hr' = hr /\ parent' = parent /\ job' = job /\ progress' = progress /\ slips' = slips
      /\ task[e].pc = "decide"
  BY DEF WriteFinal
<1>2. /\ status = "PROCESSING" /\ status' \in {"COMPLETED", "FAILED"}
      /\ status' = "COMPLETED" => slips = AllRows
  BY Verdict
<1>3. PICK u \in Task : Becomes(e, u) /\ u.pc = "ack"
  BY ReportRecords DEF WriteFinal
<1>4. /\ task'[e] = u /\ hr'.pc = "idle" /\ ParentFits' /\ OneAtWork'
      /\ \A d \in Emp : d # e => Knows(d)'
  <2>1. task[e].pc # "idle" /\ u.pc # "idle" /\ (status' = "DRAFT" <=> status = "DRAFT")
    BY <1>1, <1>2, <1>3
  <2>2. QED BY <1>1, <1>3, <2>1, AtWork
<1>5. Knows(e)'
  BY <1>3, <1>4 DEF Knows
<1>6. CompletedFits'
  BY <1>1, <1>2 DEF CompletedFits
<1>7. QED BY <1>1, <1>4, <1>5, <1>6 DEF SequentialInv

LEMMA SequentialStep ==
    ASSUME Sequential
    PROVE  TypeOK /\ CountInv /\ SequentialInv /\ [Next]_vars => SequentialInv'
<1> SUFFICES ASSUME TypeOK, CountInv, SequentialInv, [Next]_vars PROVE SequentialInv'
  OBVIOUS
<1>1. CASE ParentFetch \/ MarkProcessing \/ CreateProgress \/ FanOut \/ ParentDone
  BY <1>1, ParentSequentialStep
<1>2. ASSUME NEW e \in Emp, Fetch(e) \/ TaskStep(e) \/ Promote(e) \/ Reclaim(e)
      PROVE  SequentialInv'
  BY <1>2, QueueSequentialStep, ReadingStep, SavingStep, ReportingStep, FinalizingStep DEF TaskStep
<1>3. CASE UNCHANGED vars
  <2>1. ParentFits' /\ OneAtWork' /\ CompletedFits'
    BY <1>3 DEF vars, SequentialInv, ParentFits, OneAtWork, CompletedFits
  <2>2. \A e \in Emp : Knows(e)'
    BY <1>3 DEF vars, SequentialInv, Knows, RowsOf
  <2>3. QED BY <1>3, <2>1, <2>2 DEF vars, SequentialInv
<1>4. QED BY <1>1, <1>2, <1>3, SequentialSteps

-----------------------------------------------------------------------------
(* The run as its users see it                                             *)

Paid == {e \in Emp : RowsOf(e) # {}}

LEMMA LifecycleInit == Init => Lifecycle!Init
BY DEF Init, Lifecycle!Init, RowsOf

\* Every step of the queue, its processors and the parent job starts the run,
\* pays one employee, gives the run its verdict, or is not seen from outside.
LEMMA LifecycleStep ==
    ASSUME Sequential, TypeOK, CountInv, SequentialInv, [Next]_vars
    PROVE  [Lifecycle!Next]_<<status, Paid>>
<1>1. CASE MarkProcessing
  <2>1. status = "DRAFT" /\ status' = "PROCESSING" /\ Paid' = Paid
    BY <1>1 DEF MarkProcessing, SequentialInv, ParentFits, Paid, RowsOf
  <2>2. QED BY <2>1 DEF Lifecycle!Next, Lifecycle!Start, Paid
<1>2. ASSUME NEW e \in Emp, SavePayslip(e) PROVE [Lifecycle!Next]_<<status, Paid>>
  <2>1. /\ status' = status /\ task[e].pc = "save" /\ slips' = Saved(e, task[e].found)
        /\ task[e].found <=> RowsOf(e) # {}
    BY <1>2 DEF SavePayslip, SequentialInv, Knows
  <2>2. status \in {"PROCESSING", "FAILED"} \/ status = "COMPLETED"
    <3>1. job[e].state = "active"
      BY <2>1 DEF SequentialInv, OneAtWork
    <3>2. status # "DRAFT"
      BY <3>1 DEF SequentialInv, ParentFits
    <3>3. QED BY <3>2 DEF TypeOK, RunStatus
  <2>3. CASE slips' = slips
    BY <2>1, <2>3 DEF Paid, RowsOf
  <2>4. CASE slips' # slips
    <3>1. slips' = slips \cup {<<e, 0>>} /\ RowsOf(e) = {}
      <4>1. RowsOf(e) = {}
        BY <2>1, <2>4 DEF Saved
      <4>2. QED BY <2>1, <2>4, <4>1, FS_EmptySet DEF Saved
    <3>2. e \notin Paid /\ Paid' = Paid \cup {e}
      <4>1. e \notin Paid /\ <<e, 0>> \in RowsOf(e)'
        BY <3>1 DEF Paid, RowsOf
      <4>2. \A d \in Emp : d # e => RowsOf(d)' = RowsOf(d)
        BY <3>1 DEF RowsOf
      <4>3. \A d \in Emp : d \in Paid' <=> d \in Paid \/ d = e
        BY <4>1, <4>2 DEF Paid
      <4>4. QED BY <4>1, <4>3 DEF Paid
    <3>3. status # "COMPLETED"
      <4>1. slips = AllRows => <<e, 0>> \in RowsOf(e)
        BY DEF AllRows, RowsOf
      <4>2. QED BY <3>1, <4>1 DEF SequentialInv, CompletedFits
    <3>4. QED BY <2>1, <2>2, <3>2, <3>3 DEF Lifecycle!Next, Lifecycle!Pay, Paid
  <2>5. QED BY <2>3, <2>4
<1>3. ASSUME NEW e \in Emp, WriteFinal(e) PROVE [Lifecycle!Next]_<<status, Paid>>
  <2>1. /\ status = "PROCESSING" /\ status' \in {"COMPLETED", "FAILED"} /\ slips' = slips
        /\ status' = "COMPLETED" => slips = AllRows
    BY <1>3, Verdict
  <2>2. Paid' = Paid
    BY <2>1 DEF Paid, RowsOf
  <2>3. slips = AllRows => Paid = Emp
    <3>1. ASSUME slips = AllRows, NEW d \in Emp PROVE RowsOf(d) # {}
      <4>1. <<d, 0>> \in RowsOf(d)
        BY <3>1 DEF RowsOf, AllRows
      <4>2. QED BY <4>1
    <3>2. QED BY <3>1 DEF Paid
  <2>4. QED BY <2>1, <2>2, <2>3 DEF Lifecycle!Next, Lifecycle!Complete, Lifecycle!Fail, Paid
<1>4. ASSUME slips' = slips, status' = status PROVE [Lifecycle!Next]_<<status, Paid>>
  BY <1>4 DEF Paid, RowsOf
<1>5. CASE \/ ParentFetch \/ CreateProgress \/ FanOut \/ ParentDone \/ UNCHANGED vars
           \/ \E e \in Emp : \/ Fetch(e) \/ Promote(e) \/ Reclaim(e) \/ Calculate(e)
                             \/ CalculationFails(e) \/ ReadRun(e) \/ ReadSlips(e)
                             \/ ReadProgress(e) \/ NothingToReport(e) \/ WriteProgress(e)
                             \/ ReadTotals(e) \/ EndJob(e)
  <2>1. slips' = slips /\ status' = status
    BY <1>5 DEF vars, ParentFetch, CreateProgress, FanOut, ParentDone, Fetch, Promote, Reclaim,
       Calculate, CalculationFails, ReadRun, ReadSlips, ReadProgress, NothingToReport,
       WriteProgress, ReadTotals, EndJob
  <2>2. QED BY <1>4, <2>1
<1>6. QED BY <1>1, <1>2, <1>3, <1>5, SequentialSteps DEF TaskStep

\* With one job at a time and nothing failing but the calculations, what an
\* observer sees of processPayrollRunJob, the employee jobs and
\* finalizePayrollRun is a behaviour of the machine's business rules: the run
\* leaves DRAFT once, pays employees one by one and never after COMPLETED, and
\* is COMPLETED only from PROCESSING and with everybody paid.
THEOREM RunImplementsLifecycle == ASSUME Sequential PROVE Spec => ImplementsLifecycle
<1>1. Sequential /\ TypeOK /\ CountInv /\ SequentialInv /\ [Next]_vars
        => [Lifecycle!Next]_<<status, Paid>>
  BY LifecycleStep
<1>2. QED
  BY <1>1, LifecycleInit, SequentialInit, SequentialStep, CountInit, CountStep, TypeCorrect, PTL
     DEF Spec, ImplementsLifecycle, Lifecycle!Spec, Paid

-----------------------------------------------------------------------------
(* The pay period.  CLOSED is final (pay-period.machine.js:11): no handler *)
(* checks the row when it writes, so the argument is about time.  A        *)
(* handler that decided on an older status is gone when the grace period   *)
(* ends, and from then until the period is closed no handler has a reason  *)
(* to write another status.                                                *)


ClosingPc == {"overtime", "reread", "overtimeAgain", "close"}

Writing(a) == handler[a].pc = "write"

\* A pending status was decided on a DRAFT or PROCESSING period, and the period
\* still is one unless the row was written since.
WritesDecidedEarly ==
    \A a \in Actors : Writing(a) =>
        /\ handler[a].to # "CLOSED"
        /\ ~handler[a].old => period.status \in {"DRAFT", "PROCESSING"}

\* The grace period is over, the closer is at work, or the period is closed.
BeyondGrace ==
    period.graced \/ period.status = "CLOSED" \/ \E a \in Actors : handler[a].pc \in ClosingPc

NobodyWrites ==
    BeyondGrace => /\ period.status \in {"COMPLETED", "CLOSED"}
                   /\ \A a \in Actors : ~Writing(a)

\* The inductive invariant.
FinalInv == PeriodTypeOK /\ WritesDecidedEarly /\ NobodyWrites

-----------------------------------------------------------------------------
\* Only a DRAFT or PROCESSING period can be given another status.
LEMMA Decidable ==
    ASSUME NEW from \in PeriodStatus, NEW to, ValidPeriodTransition(from, to)
    PROVE  from \in {"DRAFT", "PROCESSING"} /\ to \in {"PROCESSING", "COMPLETED"}
BY DEF PeriodStatus, ValidPeriodTransition, PeriodEvents

LEMMA IdleIsHandler == Idle \in Handler /\ Idle.pc = "idle"
BY DEF Idle, Handler, PeriodState, PeriodStatus

\* A handler moves on and the period is left alone.
LEMMA GotoKeeps ==
    ASSUME FinalInv, NEW a \in Actors, NEW h \in Handler, Goto(a, h), UNCHANGED period,
           h.pc = "write" => /\ h.to # "CLOSED"
                             /\ period.status \in {"DRAFT", "PROCESSING"}
                                \/ (Writing(a) /\ h.old = handler[a].old),
           h.pc \in ClosingPc => BeyondGrace
    PROVE  handler' \in [Actors -> Handler] /\ WritesDecidedEarly' /\ NobodyWrites'
<1>1. handler \in [Actors -> Handler]
    BY DEF FinalInv, PeriodTypeOK
<1>2. handler' = [handler EXCEPT ![a] = h]
    BY DEF Goto
<1>3. handler' \in [Actors -> Handler]
    BY <1>1, <1>2
<1>4. \A b \in Actors : handler'[b] = IF b = a THEN h ELSE handler[b]
    BY <1>1, <1>2
<1>5. WritesDecidedEarly'
    BY <1>4 DEF FinalInv, WritesDecidedEarly, Writing
<1>6. BeyondGrace' => BeyondGrace
    BY <1>4 DEF BeyondGrace
<1>7. NobodyWrites'
    <2> SUFFICES ASSUME BeyondGrace' PROVE period.status \in {"COMPLETED", "CLOSED"} /\ \A b \in Actors : ~Writing(b)'
        BY DEF NobodyWrites
    <2>1. period.status \in {"COMPLETED", "CLOSED"} /\ \A b \in Actors : ~Writing(b)
        BY <1>6 DEF FinalInv, NobodyWrites
    <2> QED
        BY <2>1, <1>4 DEF Writing
<1> QED
    BY <1>3, <1>5, <1>7

\* The row is written by a handler that has nothing more to write: either it is
\* already beyond grace and stays so, or nobody is closing.
LEMMA WriteKeeps ==
    ASSUME FinalInv, NEW a \in Actors, NEW h \in Handler, NEW p, WritePeriod(a, p, h),
           p \in [status : PeriodState, paused : BOOLEAN, graced : BOOLEAN],
           h.pc \notin ClosingPc \cup {"write"},
           BeyondGrace => p.status \in {"COMPLETED", "CLOSED"},
           p.status = "CLOSED" => BeyondGrace
    PROVE  /\ period' \in [status : PeriodState, paused : BOOLEAN, graced : BOOLEAN]
           /\ handler' \in [Actors -> Handler] /\ WritesDecidedEarly' /\ NobodyWrites'
<1>1. CASE period.status = "GONE"
    BY <1>1, GotoKeeps DEF WritePeriod, FinalInv, PeriodTypeOK
<1>2. CASE period.status # "GONE"
    <2> DEFINE n(b) == IF b = a THEN h ELSE handler[b]
    <2>1. handler \in [Actors -> Handler]
        BY DEF FinalInv, PeriodTypeOK
    <2>2. \A b \in Actors : n(b) \in Handler
        BY <2>1
    <2>3. handler' = [b \in Actors |-> [n(b) EXCEPT !.old = n(b).pc # "idle"]]
        BY <1>2 DEF WritePeriod
    <2>4. \A b \in Actors : /\ handler'[b] \in Handler
                            /\ handler'[b].pc = n(b).pc /\ handler'[b].to = n(b).to
                            /\ handler'[b].old = (n(b).pc # "idle")
        BY <2>2, <2>3 DEF Handler
    <2>5. handler' \in [Actors -> Handler]
        BY <2>3, <2>4
    <2>6. /\ period' \in [status : PeriodState, paused : BOOLEAN, graced : BOOLEAN]
          /\ period'.status = p.status /\ period'.graced = FALSE
        BY <1>2 DEF WritePeriod
    <2>7. WritesDecidedEarly'
        BY <2>4 DEF FinalInv, WritesDecidedEarly, Writing
    <2>8. BeyondGrace' => BeyondGrace
        BY <2>4, <2>6 DEF BeyondGrace
    <2>9. NobodyWrites'
        <3> SUFFICES ASSUME BeyondGrace' PROVE period'.status \in {"COMPLETED", "CLOSED"} /\ \A b \in Actors : ~Writing(b)'
            BY DEF NobodyWrites
        <3>1. \A b \in Actors : ~Writing(b)
            BY <2>8 DEF FinalInv, NobodyWrites
        <3>2. period'.status \in {"COMPLETED", "CLOSED"}
            BY <2>8, <2>6
        <3> QED
            BY <3>1, <3>2, <2>4 DEF Writing
    <2> QED
        BY <2>5, <2>6, <2>7, <2>9
<1> QED
    BY <1>1, <1>2

-----------------------------------------------------------------------------
LEMMA InitFinal == PeriodInit => FinalInv
<1> SUFFICES ASSUME PeriodInit PROVE FinalInv
    OBVIOUS
<1>1. \A a \in Actors : handler[a] = Idle
    BY DEF PeriodInit
<1>2. PeriodTypeOK
    BY IdleIsHandler, PeriodAssumption DEF PeriodInit, PeriodTypeOK, PeriodState, PeriodStatus, RunStatus
<1>3. WritesDecidedEarly /\ NobodyWrites
    BY <1>1 DEF PeriodInit, WritesDecidedEarly, NobodyWrites, BeyondGrace, Writing, ClosingPc, Idle
<1> QED
    BY <1>2, <1>3 DEF FinalInv

\* The other variables keep their types.
Others ==
    /\ runs \in [Runs -> [status : RunStatus \cup {"absent", "deleted"}, queued : BOOLEAN]]
    /\ overtime \in BOOLEAN
    /\ failures \in Nat

LEMMA FromGoto ==
    ASSUME FinalInv, Others', NEW a \in Actors, NEW h \in Handler, Goto(a, h), UNCHANGED period,
           h.pc = "write" => /\ h.to # "CLOSED"
                             /\ period.status \in {"DRAFT", "PROCESSING"}
                                \/ (Writing(a) /\ h.old = handler[a].old),
           h.pc \in ClosingPc => BeyondGrace
    PROVE  FinalInv'
BY GotoKeeps DEF FinalInv, PeriodTypeOK, Others

LEMMA FromWrite ==
    ASSUME FinalInv, Others', NEW a \in Actors, NEW h \in Handler, NEW p, WritePeriod(a, p, h),
           p \in [status : PeriodState, paused : BOOLEAN, graced : BOOLEAN],
           h.pc \notin ClosingPc \cup {"write"},
           BeyondGrace => p.status \in {"COMPLETED", "CLOSED"},
           p.status = "CLOSED" => BeyondGrace
    PROVE  FinalInv'
BY WriteKeeps DEF FinalInv, PeriodTypeOK, Others

\* A run's row is written.
LEMMA RunWritten ==
    ASSUME PeriodTypeOK, NEW r, NEW s \in RunStatus \cup {"absent", "deleted"},
           runs' = [runs EXCEPT ![r].status = s] \/ runs' = [runs EXCEPT ![r].queued = TRUE],
           UNCHANGED <<overtime, failures>>
    PROVE  Others'
<1> DEFINE Run == [status : RunStatus \cup {"absent", "deleted"}, queued : BOOLEAN]
<1>1. [runs EXCEPT ![r].status = s] \in [Runs -> Run]
    BY DEF PeriodTypeOK
<1>2. [runs EXCEPT ![r].queued = TRUE] \in [Runs -> Run]
    BY DEF PeriodTypeOK
<1> QED
    BY <1>1, <1>2 DEF PeriodTypeOK, Others

LEMMA OthersKept == ASSUME PeriodTypeOK, UNCHANGED <<runs, overtime, failures>> PROVE Others'
BY DEF PeriodTypeOK, Others

LEMMA HandlerStep ==
    ASSUME NEW h \in Handler,
           NEW l \in {"eligible", "advance", "queue", "reread", "overtimeAgain", "close"}
    PROVE  [h EXCEPT !.pc = l] \in Handler /\ [h EXCEPT !.pc = l].pc = l
BY DEF Handler

LEMMA HandlerWrites ==
    ASSUME NEW h \in Handler, NEW t \in PeriodState
    PROVE  /\ [h EXCEPT !.pc = "write", !.to = t] \in Handler
           /\ [h EXCEPT !.pc = "write", !.to = t].pc = "write"
           /\ [h EXCEPT !.pc = "write", !.to = t].to = t
BY DEF Handler

LEMMA FirstStep ==
    /\ \A l \in {"insert", "detect", "pause", "resume", "decide", "overtime"} : [Idle EXCEPT !.pc = l] \in Handler
    /\ \A r \in Runs : \A l \in {"concurrent", "deleteRun"} : [Idle EXCEPT !.pc = l, !.run = r] \in Handler
    /\ \A t \in PeriodState : [Idle EXCEPT !.pc = "write", !.to = t] \in Handler
BY DEF Idle, Handler, PeriodState, PeriodStatus

-----------------------------------------------------------------------------
(* One lemma for each group of actions                                     *)

LEMMA RequestFinal == ASSUME FinalInv, NEW c \in Clients, PeriodRequest(c) PROVE FinalInv'
<1> c \in Actors
    BY DEF Actors
<1> PeriodTypeOK
    BY DEF FinalInv
<1>0. Others'
    BY OthersKept DEF PeriodRequest, CreateRun, StartRun, DeleteRun, PatchStatus, DeletePeriod, FlipAutoClose, DecideOvertime
<1>1. CASE CreateRun(c)
    <2> DEFINE h == [Idle EXCEPT !.pc = "insert"]
    <2>1. Goto(c, h) /\ UNCHANGED period
        BY <1>1 DEF CreateRun, Starts
    <2>2. h \in Handler /\ h.pc = "insert"
        BY FirstStep DEF Idle
    <2> QED
        BY <1>0, <2>1, <2>2, FromGoto DEF ClosingPc
<1>2. CASE StartRun(c)
    <2>1. PICK r \in Existing : Goto(c, [Idle EXCEPT !.pc = "concurrent", !.run = r]) /\ UNCHANGED period
        BY <1>2 DEF StartRun, Starts
    <2> DEFINE h == [Idle EXCEPT !.pc = "concurrent", !.run = r]
    <2>2. h \in Handler /\ h.pc = "concurrent"
        BY FirstStep DEF Existing, Idle
    <2> QED
        BY <1>0, <2>1, <2>2, FromGoto DEF ClosingPc
<1>3. CASE DeleteRun(c)
    <2>1. PICK r \in Existing : Goto(c, [Idle EXCEPT !.pc = "deleteRun", !.run = r]) /\ UNCHANGED period
        BY <1>3 DEF DeleteRun, Starts
    <2> DEFINE h == [Idle EXCEPT !.pc = "deleteRun", !.run = r]
    <2>2. h \in Handler /\ h.pc = "deleteRun"
        BY FirstStep DEF Existing, Idle
    <2> QED
        BY <1>0, <2>1, <2>2, FromGoto DEF ClosingPc
<1>4. CASE PatchStatus(c)
    <2>1. PICK to \in {"PROCESSING", "COMPLETED"} : /\ ValidPeriodTransition(period.status, to)
                                                    /\ Goto(c, [Idle EXCEPT !.pc = "write", !.to = to])
        BY <1>4 DEF PatchStatus, Starts
    <2>2. period.status \in {"DRAFT", "PROCESSING"} /\ UNCHANGED period
        BY <1>4, <2>1, Decidable DEF PatchStatus
    <2> DEFINE h == [Idle EXCEPT !.pc = "write", !.to = to]
    <2>3. h \in Handler /\ h.pc = "write" /\ h.to # "CLOSED"
        BY FirstStep DEF PeriodState, PeriodStatus, Idle
    <2> QED
        BY <1>0, <2>1, <2>2, <2>3, FromGoto DEF ClosingPc
<1>5. CASE DeletePeriod(c)
    <2> DEFINE h == [Idle EXCEPT !.pc = "write", !.to = "GONE"]
    <2>1. Goto(c, h) /\ UNCHANGED period /\ period.status = "DRAFT"
        BY <1>5 DEF DeletePeriod, Starts
    <2>2. h \in Handler /\ h.pc = "write" /\ h.to # "CLOSED"
        BY FirstStep DEF PeriodState, Idle
    <2> QED
        BY <1>0, <2>1, <2>2, FromGoto DEF ClosingPc
<1>6. CASE FlipAutoClose(c)
    <2> DEFINE h == [Idle EXCEPT !.pc = IF period.paused THEN "resume" ELSE "pause"]
    <2>1. Goto(c, h) /\ UNCHANGED period
        BY <1>6 DEF FlipAutoClose, Starts
    <2>2. h \in Handler /\ h.pc \in {"pause", "resume"}
        BY FirstStep DEF Idle
    <2> QED
        BY <1>0, <2>1, <2>2, FromGoto DEF ClosingPc
<1>7. CASE DecideOvertime(c)
    <2> DEFINE h == [Idle EXCEPT !.pc = "decide"]
    <2>1. Goto(c, h) /\ UNCHANGED period
        BY <1>7 DEF DecideOvertime, Starts
    <2>2. h \in Handler /\ h.pc = "decide"
        BY FirstStep DEF Idle
    <2> QED
        BY <1>0, <2>1, <2>2, FromGoto DEF ClosingPc
<1> QED
    BY <1>1, <1>2, <1>3, <1>4, <1>5, <1>6, <1>7 DEF PeriodRequest

\* InsertRun, QueueRun, RemoveRun and WriteDecision end in Idle or leave the period alone.
LEMMA ToIdle ==
    ASSUME FinalInv, Others', NEW a \in Actors, Goto(a, Idle), UNCHANGED period
    PROVE  FinalInv'
BY FromGoto, IdleIsHandler DEF ClosingPc

LEMMA ContinueFinal == ASSUME FinalInv, NEW c \in Clients, Continue(c) PROVE FinalInv'
<1> c \in Actors
    BY DEF Actors
<1> PeriodTypeOK /\ handler[c] \in Handler
    BY DEF FinalInv, PeriodTypeOK
<1>1. CASE InsertRun(c)
    <2>1. Others'
        <3>1. CASE UNCHANGED runs
            BY <1>1, <3>1, OthersKept DEF InsertRun
        <3>2. CASE \E r \in Runs : runs' = [runs EXCEPT ![r].status = "DRAFT"]
            BY <1>1, <3>2, RunWritten DEF InsertRun, RunStatus
        <3> QED
            BY <1>1, <3>1, <3>2 DEF InsertRun
    <2> QED
        BY <1>1, <2>1, ToIdle DEF InsertRun
<1>2. CASE CheckConcurrent(c) \/ StoreEligible(c)
    <2>0. Others' /\ UNCHANGED period
        BY <1>2, OthersKept DEF CheckConcurrent, StoreEligible
    <2>1. PICK l \in {"eligible", "advance"} : Goto(c, Idle) \/ Goto(c, [handler[c] EXCEPT !.pc = l])
        BY <1>2 DEF CheckConcurrent, StoreEligible
    <2> DEFINE h == [handler[c] EXCEPT !.pc = l]
    <2>2. h \in Handler /\ h.pc = l
        BY l \in {"eligible", "advance", "queue", "reread", "overtimeAgain", "close"}, HandlerStep
    <2> QED
        BY <2>0, <2>1, <2>2, FromGoto, ToIdle DEF ClosingPc
<1>3. CASE AdvancePeriod(c)
    <2>0. Others' /\ UNCHANGED period
        BY <1>3, OthersKept DEF AdvancePeriod
    <2>1. CASE /\ period.status \in PeriodStatus /\ ValidPeriodTransition(period.status, "PROCESSING")
               /\ Goto(c, [handler[c] EXCEPT !.pc = "write", !.to = "PROCESSING"])
        <3> DEFINE h == [handler[c] EXCEPT !.pc = "write", !.to = "PROCESSING"]
        <3>1. h \in Handler /\ h.pc = "write" /\ h.to # "CLOSED"
            <4>1. "PROCESSING" \in PeriodState
                BY DEF PeriodState, PeriodStatus
            <4>2. h \in Handler /\ h.pc = "write" /\ h.to = "PROCESSING"
                BY <4>1, HandlerWrites
            <4> QED
                BY <4>2
        <3>2. period.status \in {"DRAFT", "PROCESSING"}
            BY <2>1, Decidable
        <3> QED
            BY <2>0, <2>1, <3>1, <3>2, FromGoto DEF ClosingPc
    <2>2. CASE Goto(c, [handler[c] EXCEPT !.pc = "queue"])
        <3> DEFINE h == [handler[c] EXCEPT !.pc = "queue"]
        <3>1. h \in Handler /\ h.pc = "queue"
            BY HandlerStep
        <3> QED
            BY <2>0, <2>2, <3>1, FromGoto DEF ClosingPc
    <2> QED
        BY <1>3, <2>1, <2>2 DEF AdvancePeriod
<1>4. CASE QueueRun(c) \/ RemoveRun(c)
    <2>1. Others'
        BY <1>4, RunWritten DEF QueueRun, RemoveRun
    <2> QED
        BY <1>4, <2>1, ToIdle DEF QueueRun, RemoveRun
<1>5. CASE WriteAutoClose(c)
    <2> DEFINE p == [period EXCEPT !.paused = handler[c].pc = "pause"]
    <2>1. Others' /\ WritePeriod(c, p, Idle)
        BY <1>5, OthersKept DEF WriteAutoClose
    <2>2. /\ p \in [status : PeriodState, paused : BOOLEAN, graced : BOOLEAN]
          /\ p.status = period.status
        BY DEF PeriodTypeOK
    <2>3. /\ BeyondGrace => p.status \in {"COMPLETED", "CLOSED"}
          /\ p.status = "CLOSED" => BeyondGrace
        BY <2>2 DEF FinalInv, NobodyWrites, BeyondGrace
    <2> QED
        BY <2>1, <2>2, <2>3, FromWrite, IdleIsHandler DEF ClosingPc
<1>6. CASE WriteDecision(c)
    <2>1. Others'
        BY <1>6 DEF WriteDecision, PeriodTypeOK, Others
    <2> QED
        BY <1>6, <2>1, ToIdle DEF WriteDecision
<1> QED
    BY <1>1, <1>2, <1>3, <1>4, <1>5, <1>6 DEF Continue

LEMMA DetectedEarly ==
    ASSUME NEW to \in Detected
    PROVE  period.status \in {"DRAFT", "PROCESSING"} /\ to \in PeriodState \ {"CLOSED"}
BY Decidable DEF Detected, PeriodState, PeriodStatus

LEMMA RunFinal ==
    ASSUME FinalInv, NEW r \in Runs, RunMarked(r) \/ RunFinalized(r) \/ RunRetried(r) \/ DetectStatus(r)
    PROVE  FinalInv'
<1> r \in Actors
    BY DEF Actors
<1> PeriodTypeOK /\ handler[r] \in Handler
    BY DEF FinalInv, PeriodTypeOK
<1>1. CASE RunMarked(r) \/ RunRetried(r)
    <2>1. Others' /\ UNCHANGED <<period, handler>>
        BY <1>1, RunWritten DEF RunMarked, RunRetried, RunStatus
    <2> QED
        BY <2>1 DEF FinalInv, PeriodTypeOK, Others, WritesDecidedEarly, NobodyWrites, BeyondGrace, Writing
<1>2. CASE RunFinalized(r)
    <2> DEFINE h == [Idle EXCEPT !.pc = "detect"]
    <2>1. Others'
        BY <1>2, RunWritten DEF RunFinalized, RunStatus
    <2>2. Goto(r, h) /\ UNCHANGED period
        BY <1>2 DEF RunFinalized, Starts
    <2>3. h \in Handler /\ h.pc = "detect"
        BY FirstStep DEF Idle
    <2> QED
        BY <2>1, <2>2, <2>3, FromGoto DEF ClosingPc
<1>3. CASE DetectStatus(r)
    <2>0. Others' /\ UNCHANGED period
        BY <1>3, OthersKept DEF DetectStatus
    <2>1. CASE Goto(r, Idle)
        BY <2>0, <2>1, ToIdle
    <2>2. CASE \E to \in Detected : Goto(r, [handler[r] EXCEPT !.pc = "write", !.to = to])
        <3>1. PICK to \in Detected : Goto(r, [handler[r] EXCEPT !.pc = "write", !.to = to])
            BY <2>2
        <3> DEFINE h == [handler[r] EXCEPT !.pc = "write", !.to = to]
        <3>2. h \in Handler /\ h.pc = "write" /\ h.to # "CLOSED"
            BY HandlerWrites, DetectedEarly
        <3> QED
            BY <2>0, <3>1, <3>2, DetectedEarly, FromGoto DEF ClosingPc
    <2> QED
        BY <1>3, <2>1, <2>2 DEF DetectStatus
<1> QED
    BY <1>1, <1>2, <1>3

\* A pending write is never made beyond the grace period.
LEMMA WriteStatusFinal == ASSUME FinalInv, NEW a \in Actors, WriteStatus(a) PROVE FinalInv' /\ ~BeyondGrace
<1> PeriodTypeOK /\ handler[a] \in Handler
    BY DEF FinalInv, PeriodTypeOK
<1> DEFINE h == IF a \in Clients /\ handler[a].run \in Runs THEN [handler[a] EXCEPT !.pc = "queue"] ELSE Idle
           p == [period EXCEPT !.status = handler[a].to]
<1>1. h \in Handler /\ h.pc \in {"queue", "idle"}
    BY HandlerStep, IdleIsHandler
<1>2. Others'
    BY OthersKept DEF WriteStatus
<1>3. ~BeyondGrace /\ handler[a].to # "CLOSED"
    BY DEF WriteStatus, FinalInv, NobodyWrites, WritesDecidedEarly, Writing
<1>4. CASE Goto(a, h) /\ UNCHANGED period
    BY <1>1, <1>2, <1>3, <1>4, FromGoto DEF ClosingPc
<1>5. CASE WritePeriod(a, p, h)
    <2>1. p \in [status : PeriodState, paused : BOOLEAN, graced : BOOLEAN] /\ p.status # "CLOSED"
        BY <1>3 DEF PeriodTypeOK, Handler
    <2> QED
        BY <1>1, <1>2, <1>3, <1>5, <2>1, FromWrite DEF ClosingPc
<1> QED
    BY <1>3, <1>4, <1>5 DEF WriteStatus

LEMMA CallFailsFinal == ASSUME FinalInv, NEW a \in Actors, CallFails(a) PROVE FinalInv'
<1> PeriodTypeOK /\ handler[a] \in Handler
    BY DEF FinalInv, PeriodTypeOK
<1>1. Others' /\ UNCHANGED period
    BY DEF CallFails, PeriodTypeOK, Others
<1> DEFINE h == [handler[a] EXCEPT !.pc = "queue"]
<1>2. h \in Handler /\ h.pc = "queue"
    BY HandlerStep
<1>3. Goto(a, h) \/ Goto(a, Idle)
    BY DEF CallFails
<1> QED
    BY <1>1, <1>2, <1>3, FromGoto, ToIdle DEF ClosingPc

LEMMA CloserFinal == ASSUME FinalInv, ConsiderClosing \/ Closing PROVE FinalInv'
<1> Closer \in Actors
    BY DEF Actors
<1> PeriodTypeOK /\ handler[Closer] \in Handler
    BY DEF FinalInv, PeriodTypeOK
<1>0. Others'
    BY OthersKept DEF ConsiderClosing, Closing, AskOvertime, ReadAgain, ClosePeriod
<1>1. CASE ConsiderClosing
    <2> DEFINE h == [Idle EXCEPT !.pc = "overtime"]
    <2>1. Goto(Closer, h) /\ UNCHANGED period /\ BeyondGrace
        BY <1>1 DEF ConsiderClosing, Starts, Closable, BeyondGrace
    <2>2. h \in Handler /\ h.pc = "overtime"
        BY FirstStep DEF Idle
    <2> QED
        BY <1>0, <2>1, <2>2, FromGoto
<1>2. CASE AskOvertime \/ ReadAgain
    <2>1. UNCHANGED period /\ BeyondGrace
        BY <1>2 DEF AskOvertime, ReadAgain, BeyondGrace, ClosingPc
    <2>2. PICK l \in {"reread", "overtimeAgain", "close"} :
              Goto(Closer, Idle) \/ Goto(Closer, [handler[Closer] EXCEPT !.pc = l])
        BY <1>2 DEF AskOvertime, ReadAgain
    <2> DEFINE h == [handler[Closer] EXCEPT !.pc = l]
    <2>3. h \in Handler /\ h.pc = l
        BY l \in {"eligible", "advance", "queue", "reread", "overtimeAgain", "close"}, HandlerStep
    <2> QED
        BY <1>0, <2>1, <2>2, <2>3, FromGoto, ToIdle
<1>3. CASE ClosePeriod
    <2> DEFINE p == [period EXCEPT !.status = "CLOSED"]
    <2>1. WritePeriod(Closer, p, Idle) /\ BeyondGrace
        BY <1>3 DEF ClosePeriod, BeyondGrace, ClosingPc
    <2>2. p \in [status : PeriodState, paused : BOOLEAN, graced : BOOLEAN] /\ p.status = "CLOSED"
        BY DEF PeriodTypeOK, PeriodState, PeriodStatus
    <2> QED
        BY <1>0, <2>1, <2>2, FromWrite, IdleIsHandler DEF ClosingPc
<1> QED
    BY <1>1, <1>2, <1>3 DEF Closing

\* When the grace period ends, whoever still holds a decision would be older.
LEMMA GraceFinal == ASSUME FinalInv, GraceElapses PROVE FinalInv'
<1>1. \A a \in Actors : ~Writing(a)
    BY DEF FinalInv, GraceElapses, WritesDecidedEarly
<1>2. /\ period' \in [status : PeriodState, paused : BOOLEAN, graced : BOOLEAN]
      /\ period'.status = "COMPLETED"
    BY DEF FinalInv, GraceElapses, PeriodTypeOK
<1> QED
    BY <1>1, <1>2 DEF FinalInv, GraceElapses, PeriodTypeOK, WritesDecidedEarly, NobodyWrites, Writing

LEMMA NextFinal == ASSUME FinalInv, [PeriodNext]_periodVars PROVE FinalInv'
<1>1. CASE UNCHANGED periodVars
    BY <1>1 DEF periodVars, FinalInv, PeriodTypeOK, WritesDecidedEarly, NobodyWrites, BeyondGrace, Writing
<1>2. CASE CheckStatus
    <2>1. PICK to \in Detected : Goto(Checker, [Idle EXCEPT !.pc = "write", !.to = to])
        BY <1>2 DEF CheckStatus, Starts
    <2> DEFINE h == [Idle EXCEPT !.pc = "write", !.to = to]
    <2>2. h \in Handler /\ h.pc = "write" /\ h.to # "CLOSED"
        BY FirstStep, DetectedEarly DEF Idle
    <2>3. Others' /\ UNCHANGED period /\ Checker \in Actors
        BY <1>2, OthersKept DEF CheckStatus, FinalInv, Actors
    <2> QED
        BY <2>1, <2>2, <2>3, DetectedEarly, FromGoto DEF ClosingPc
<1>3. CASE RecordOvertime
    BY <1>3 DEF RecordOvertime, FinalInv, PeriodTypeOK, WritesDecidedEarly, NobodyWrites, BeyondGrace, Writing
<1>4. CASE \E c \in Clients : PeriodRequest(c) \/ Continue(c)
    BY <1>4, RequestFinal, ContinueFinal
<1>5. CASE \E r \in Runs : RunMarked(r) \/ RunFinalized(r) \/ RunRetried(r) \/ DetectStatus(r)
    BY <1>5, RunFinal
<1>6. CASE \E a \in Actors : WriteStatus(a) \/ CallFails(a)
    BY <1>6, WriteStatusFinal, CallFailsFinal
<1>7. CASE ConsiderClosing \/ Closing
    BY <1>7, CloserFinal
<1>8. CASE GraceElapses
    BY <1>8, GraceFinal
<1> QED
    BY <1>1, <1>2, <1>3, <1>4, <1>5, <1>6, <1>7, <1>8 DEF PeriodNext

-----------------------------------------------------------------------------
\* The rows and the locals of the handlers always hold values of their kinds.
THEOREM PeriodTypeCorrect == PeriodSpec => []PeriodTypeOK
<1>1. FinalInv => PeriodTypeOK
    BY DEF FinalInv
<1> QED
    BY <1>1, InitFinal, NextFinal, PTL DEF PeriodSpec

\* From a CLOSED period only the closer could write, and it writes CLOSED.
LEMMA ClosedStays ==
    ASSUME FinalInv, [PeriodNext]_periodVars, period.status = "CLOSED"
    PROVE  period'.status = "CLOSED"
<1> BeyondGrace /\ PeriodTypeOK
    BY DEF BeyondGrace, FinalInv
<1>1. CASE \E c \in Clients : WriteAutoClose(c)
    BY <1>1 DEF WriteAutoClose, WritePeriod, Goto, PeriodTypeOK
<1>2. CASE ClosePeriod
    BY <1>2 DEF ClosePeriod, WritePeriod, Goto, PeriodTypeOK
<1>3. CASE \E a \in Actors : WriteStatus(a)
    BY <1>3, WriteStatusFinal
<1>4. CASE GraceElapses
    BY <1>4 DEF GraceElapses
<1>5. CASE UNCHANGED period
    BY <1>5
<1> QED
    BY <1>1, <1>2, <1>3, <1>4, <1>5 DEF PeriodNext, periodVars, PeriodRequest, Continue, Closing, CreateRun, InsertRun, StartRun,
        CheckConcurrent, StoreEligible, AdvancePeriod, QueueRun, DeleteRun, RemoveRun, RunMarked, RunFinalized,
        RunRetried, DetectStatus, CheckStatus, PatchStatus, DeletePeriod, FlipAutoClose,
        ConsiderClosing, AskOvertime, ReadAgain, RecordOvertime, DecideOvertime, WriteDecision, CallFails

\* A CLOSED pay period never gets another status, although each status write is
\* unconditional: any decision on an older status is executed before the grace
\* period, which every write restarts, can end.
THEOREM ClosedPeriodsStayClosed == PeriodSpec => ClosedIsFinal
<1>1. FinalInv /\ [PeriodNext]_periodVars => (period.status = "CLOSED" => period'.status = "CLOSED")
    BY ClosedStays
<1>2. FinalInv /\ [PeriodNext]_periodVars => [period.status = "CLOSED" => period'.status = "CLOSED"]_periodVars
    BY <1>1
<1> QED
    BY <1>2, InitFinal, NextFinal, PTL DEF PeriodSpec, ClosedIsFinal

-----------------------------------------------------------------------------
(* A run as the worker moves it and as its period sees it: both along the  *)
(* edges of payroll-run.machine.js, though neither finalizePayrollRun nor  *)
(* the writers of the period compare before they write.                    *)

MachineMove(from, to) == from # to => to # "DRAFT" /\ EventFor(from, to) \in RunEvents[from]

LEMMA MachineEdges ==
    /\ MachineMove("DRAFT", "PROCESSING") /\ MachineMove("PROCESSING", "COMPLETED")
    /\ MachineMove("PROCESSING", "FAILED") /\ MachineMove("FAILED", "PROCESSING")
<1>1. /\ EventFor("DRAFT", "PROCESSING") = "START" /\ EventFor("FAILED", "PROCESSING") = "RETRY"
      /\ EventFor("PROCESSING", "COMPLETED") = "COMPLETE"
      /\ EventFor("PROCESSING", "FAILED") = "FAIL"
    BY DEF EventFor
<1> QED
    BY <1>1 DEF MachineMove, RunEvents

\* With one job at a time, the status of a run moves only along the machine's
\* edges: the parent job and finalizePayrollRun write it unconditionally, and
\* FAILED where the machine refuses, but never over a COMPLETED run.
THEOREM WorkerObeysTheMachine ==
    ASSUME Sequential PROVE Spec => [][MachineMove(status, status')]_vars
<1>1. Sequential /\ TypeOK /\ CountInv /\ SequentialInv /\ [Next]_vars
        => [MachineMove(status, status')]_vars
    <2> SUFFICES ASSUME TypeOK, CountInv, SequentialInv, [Next]_vars
                 PROVE  MachineMove(status, status')
        OBVIOUS
    <2>1. [Lifecycle!Next]_<<status, Paid>>
        BY LifecycleStep
    <2>2. \/ status' = status
          \/ status = "DRAFT" /\ status' = "PROCESSING"
          \/ status = "PROCESSING" /\ status' \in {"COMPLETED", "FAILED"}
          \/ status = "FAILED" /\ status' = "PROCESSING"
        BY <2>1 DEF Lifecycle!Next, Lifecycle!Start, Lifecycle!Pay, Lifecycle!Complete,
           Lifecycle!Fail, Lifecycle!Retry
    <2>3. status' = status => MachineMove(status, status')
        BY DEF MachineMove
    <2> QED
        BY <2>2, <2>3, MachineEdges
<1> QED
    BY <1>1, SequentialInit, SequentialStep, CountInit, CountStep, TypeCorrect, PTL DEF Spec

LEMMA PeriodMove ==
    ASSUME PeriodTypeOK, [PeriodNext]_periodVars, NEW r \in Runs,
           {runs[r].status, runs'[r].status} \subseteq RunStatus
    PROVE  MachineMove(runs[r].status, runs'[r].status)
<1>1. CASE \E c \in Clients : InsertRun(c) \/ RemoveRun(c) \/ QueueRun(c)
    <2>1. runs'[r].status = runs[r].status
        BY <1>1 DEF InsertRun, RemoveRun, QueueRun, PeriodTypeOK, RunStatus
    <2> QED
        BY <2>1 DEF MachineMove
<1>2. CASE \E q \in Runs : RunMarked(q) \/ RunFinalized(q) \/ RunRetried(q)
    <2>1. \/ runs'[r].status = runs[r].status
          \/ runs[r].status \in {"DRAFT", "FAILED"} /\ runs'[r].status = "PROCESSING"
          \/ runs[r].status = "PROCESSING" /\ runs'[r].status \in {"COMPLETED", "FAILED"}
        BY <1>2 DEF RunMarked, RunFinalized, RunRetried, PeriodTypeOK
    <2>2. runs'[r].status = runs[r].status => MachineMove(runs[r].status, runs'[r].status)
        BY DEF MachineMove
    <2> QED
        BY <2>1, <2>2, MachineEdges
<1>3. CASE UNCHANGED runs
    BY <1>3 DEF MachineMove
<1> QED
    BY <1>1, <1>2, <1>3 DEF PeriodNext, periodVars, PeriodRequest, Continue, Closing, CreateRun, StartRun,
        CheckConcurrent, StoreEligible, AdvancePeriod, DeleteRun, DetectStatus, CheckStatus,
        PatchStatus, DeletePeriod, FlipAutoClose, ConsiderClosing, AskOvertime, ReadAgain,
        RecordOvertime, DecideOvertime, WriteDecision, CallFails, GraceElapses, WriteAutoClose,
        ClosePeriod, WriteStatus

\* A run of the period, seen by the handlers of pay-period.controller.js and the
\* cron jobs, moves along the same edges as PayrollWorker's until it is deleted.
THEOREM PeriodRunsObeyTheMachine ==
    PeriodSpec => [][\A r \in Runs : {runs[r].status, runs'[r].status} \subseteq RunStatus
                        => MachineMove(runs[r].status, runs'[r].status)]_periodVars
<1>1. PeriodTypeOK /\ [PeriodNext]_periodVars
        => [\A r \in Runs : {runs[r].status, runs'[r].status} \subseteq RunStatus
              => MachineMove(runs[r].status, runs'[r].status)]_periodVars
    BY PeriodMove
<1> QED
    BY <1>1, PeriodTypeCorrect, PTL DEF PeriodSpec

=============================================================================
