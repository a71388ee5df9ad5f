----------------------------- MODULE BatchJobs -----------------------------
(***************************************************************************)
(* A batch import (controllers/batch-job.controller.js): its rows are      *)
(* created, the batch is queued, and the worker                            *)
(* (services/batch-job-processor.service.js) takes the rows one by one,    *)
(* writes a verdict per row and recounts after each.  Without a queue, or  *)
(* when the queue cannot be reached, the server works the batch itself.    *)
(*                                                                         *)
(* The queue knows a job by the batch's identifier and ignores a second    *)
(* one while it remembers the first, also when that one has ended.  A row  *)
(* is several writes without a transaction; a database call that fails has *)
(* written nothing.                                                        *)
(***************************************************************************)
EXTENDS Integers, FiniteSetsExt, Functions

CONSTANTS
    NumRows,        \* rows of the batch
    NumEmails,      \* addresses, numbered as the rows name them
    MaxInFlight,    \* bound on the requests at work at once
    UseQueue,       \* ENABLE_BULLMQ
    MaxAttempts,    \* attempts of a queued job (2)
    MaxStalls,      \* recoveries of a job whose worker died (1)
    MaxRequests,    \* bound on the requests
    MaxFaults,      \* bound on the database and queue calls that fail
    MaxCrashes      \* bound on the times the server process dies

ASSUME BatchAssumption ==
    /\ {NumRows, NumEmails, MaxInFlight, MaxAttempts, MaxStalls} \subseteq Nat
    /\ {MaxRequests, MaxFaults, MaxCrashes} \subseteq Nat
    /\ UseQueue \in BOOLEAN

Rows == 1..NumRows
Emails == 1..NumEmails
Runners == {"queue", "inline"}      \* a bound: one run outside the queue at a time
Kinds == {"EMPLOYEE_CREATION", "EMPLOYEE_INVITATION", "BULK_UPDATE",
          "SETUP_INVITATION", "ALLOCATION"}
Unfinished == {"waiting", "active", "delayed"}
Lines == {"none", "old", "new"}     \* as before the batch, or as the batch has it

VARIABLES
    kind,       \* the type of the batch
    email,      \* the address of each row
    batch,      \* the BatchJob: its status and its counters
    row,        \* the status of each BatchJobRow, "none" before it is created
    employees,  \* addresses that have an employee
    invited,    \* addresses that have a pending invitation
    pay,        \* the salary structure of an address: whether there is one, its
                \* line of the batch's type, and the line its gross was computed from
    queue,      \* the queue's job of this batch
    run,        \* the runs of processBatchJobById
    request,    \* how many handlers are before each of their calls
    spent,      \* requests, faults and crashes so far
    made,       \* history: how often each row did what it is for
    tries,      \* history: how often each row was attempted, up to twice
    clean       \* history: every request came alone, with no run pending, the
                \* batch had its rows when it was started, and no run was
                \* queued without the server knowing

vars == <<kind, email, batch, row, employees, invited, pay, queue, run, request, spent, made, tries, clean>>

Calls == {"rows", "begin", "enqueue", "reset", "pend"}
NoRequest == [k \in Calls |-> 0]
NoJob == [state |-> "none", attempts |-> 0, stalls |-> 0]
Asleep == [pc |-> "idle", left |-> {}, ok |-> FALSE, sum |-> "none", tally |-> <<0, 0>>]

\* An employee who was sent a setup invitation before gets no other one, as if
\* there were no such employee: none is invited here.
Init ==
    /\ kind = "none"
    /\ email \in {e \in [Rows -> Emails] : \A r \in Rows : e[r] <= r}
    /\ batch = [status |-> "none", success |-> 0, failed |-> 0]
    /\ row = [r \in Rows |-> "none"]
    /\ employees \in SUBSET {email[r] : r \in Rows}
    /\ invited \in SUBSET ({email[r] : r \in Rows} \ employees)
    /\ \E held \in SUBSET employees :
          pay = [a \in Emails |->
                   LET line == IF a \in held THEN "old" ELSE "none"
                   IN  [held |-> a \in held, line |-> line, gross |-> line]]
    /\ queue = NoJob
    /\ run = [p \in Runners |-> Asleep]
    /\ request = NoRequest
    /\ spent = [requests |-> 0, faults |-> 0, crashes |-> 0]
    /\ made = [r \in Rows |-> 0] /\ tries = [r \in Rows |-> 0]
    /\ clean = TRUE

Working == {p \in Runners : run[p].pc # "idle"}
Busy == Working # {} \/ queue.state \in Unfinished

-----------------------------------------------------------------------------
(* Requests                                                                *)

Alone ==
    /\ ~Busy /\ request = NoRequest
    /\ batch.status # "none" => \A r \in Rows : row[r] # "none"

InFlight == FoldFunction(+, 0, request)

\* A handler has read the batch and comes to its first write.
Asks(next) ==
    /\ InFlight < MaxInFlight /\ spent.requests < MaxRequests
    /\ clean' = (clean /\ Alone)
    /\ request' = [request EXCEPT ![next] = @ + 1]
    /\ spent' = [spent EXCEPT !.requests = @ + 1]
    /\ UNCHANGED <<email, row, employees, invited, pay, queue, run, made, tries>>

Returns(call) ==
    /\ request[call] > 0
    /\ request' = [request EXCEPT ![call] = @ - 1]

Goes(call, next) ==
    /\ request[call] > 0
    /\ request' = [request EXCEPT ![call] = @ - 1, ![next] = @ + 1]

\* What a handler never touches but through the queue or a run.
Keeps == UNCHANGED <<email, employees, invited, pay, made, tries>>

\* The batch first, then its rows, then its start.
CreateBatchFromParsedRows(type) ==
    /\ batch.status = "none" /\ Asks("rows")
    /\ kind' = type
    /\ batch' = [batch EXCEPT !.status = "PENDING"]

CreateEmployeeCreationBatch == CreateBatchFromParsedRows("EMPLOYEE_CREATION")
CreateEmployeeInvitationBatch == CreateBatchFromParsedRows("EMPLOYEE_INVITATION")
CreateBulkUpdateBatch == CreateBatchFromParsedRows("BULK_UPDATE")

\* What is chosen from a list is taken once.
OncePerAddress == \A r, s \in Rows : r # s => email[r] # email[s]

CreateSendInvitationsBatch ==
    OncePerAddress /\ CreateBatchFromParsedRows("SETUP_INVITATION")

CreateAllowanceAllocationBatch ==
    OncePerAddress /\ CreateBatchFromParsedRows("ALLOCATION")

CreateDeductionAllocationBatch ==
    OncePerAddress /\ CreateBatchFromParsedRows("ALLOCATION")

CreateRows ==
    /\ Goes("rows", "begin") /\ Keeps
    /\ row' = [r \in Rows |-> "PENDING"]
    /\ UNCHANGED <<kind, batch, queue, run, spent, clean>>

StartBatchJob ==
    /\ batch.status = "PENDING" /\ Asks("begin")
    /\ UNCHANGED <<kind, batch>>

RetryBatchJob ==
    /\ batch.status = "FAILED" /\ Asks("reset")
    /\ UNCHANGED <<kind, batch>>

ResetRows ==
    /\ Goes("reset", "pend") /\ Keeps
    /\ row' = [r \in Rows |-> IF row[r] = "FAILED" THEN "PENDING" ELSE row[r]]
    /\ UNCHANGED <<kind, batch, queue, run, spent, clean>>

ResetBatch ==
    /\ Returns("pend") /\ Keeps
    /\ batch' = [batch EXCEPT !.status = "PENDING"]
    /\ UNCHANGED <<kind, row, queue, run, spent, clean>>

\* beginBatchJobProcessing writes whatever the status has become.
BeginBatchJobProcessing ==
    /\ Goes("begin", "enqueue") /\ Keeps
    /\ batch' = [batch EXCEPT !.status = "PROCESSING"]
    /\ UNCHANGED <<kind, row, queue, run, spent, clean>>

\* queue.add does nothing while the queue remembers a job with the same jobId.
Added == IF queue.state # "none" THEN queue ELSE [NoJob EXCEPT !.state = "waiting"]

Enqueue ==
    /\ UseQueue /\ Returns("enqueue") /\ Keeps
    /\ queue' = Added
    /\ UNCHANGED <<kind, batch, row, run, spent, clean>>

\* Without a queue, or when it fails, the batch runs in this process; the queue
\* may have the job as well, if only its answer was lost.
RunInline ==
    /\ Returns("enqueue") /\ Keeps /\ run["inline"].pc = "idle"
    /\ UseQueue => spent.faults < MaxFaults
    /\ spent' = [spent EXCEPT !.faults = IF UseQueue THEN @ + 1 ELSE @]
    /\ run' = [run EXCEPT !["inline"] = [Asleep EXCEPT !.pc = "read"]]
    /\ queue' \in IF UseQueue THEN {queue, Added} ELSE {queue}
    /\ clean' = (clean /\ queue' = queue)
    /\ UNCHANGED <<kind, batch, row>>

\* A call of a handler fails: an error answer, and what was written stays.
RequestFault ==
    /\ \E call \in Calls \ {"enqueue"} : Returns(call)
    /\ spent.faults < MaxFaults /\ Keeps
    /\ spent' = [spent EXCEPT !.faults = @ + 1]
    /\ UNCHANGED <<kind, batch, row, queue, run, clean>>

-----------------------------------------------------------------------------
(* The queue                                                               *)

QueueOnly == UNCHANGED <<kind, email, batch, row, employees, invited, pay, request, spent, made, tries>>

Fetch ==
    /\ queue.state = "waiting" /\ run["queue"].pc = "idle"
    /\ queue' = [queue EXCEPT !.state = "active"]
    /\ run' = [run EXCEPT !["queue"] = [Asleep EXCEPT !.pc = "read"]]
    /\ UNCHANGED clean /\ QueueOnly

\* The back-off of a failed attempt is over.
Promote ==
    /\ queue.state = "delayed"
    /\ queue' = [queue EXCEPT !.state = "waiting"]
    /\ UNCHANGED <<run, clean>> /\ QueueOnly

\* removeOnComplete and removeOnFail: a day, or a week, later.
Forget ==
    /\ queue.state \in {"completed", "failed"}
    /\ queue' = NoJob
    /\ UNCHANGED <<run, clean>> /\ QueueOnly

\* A job that has ended is remembered, its counters no longer matter.
AfterFailure(q) ==
    IF q.attempts + 1 < MaxAttempts
    THEN [q EXCEPT !.attempts = @ + 1, !.state = "delayed"]
    ELSE [NoJob EXCEPT !.state = "failed"]

AfterStall(q) ==
    IF q.state # "active" THEN q
    ELSE IF q.stalls < MaxStalls THEN [q EXCEPT !.stalls = @ + 1, !.state = "waiting"]
    ELSE [NoJob EXCEPT !.state = "failed"]

-----------------------------------------------------------------------------
(* processBatchJobById                                                     *)

RunsOnly == UNCHANGED <<kind, email, request, clean>>

\* Run p has come to an end, well or with an error.
Ends(p, well) ==
    /\ run' = [run EXCEPT ![p] = Asleep]
    /\ queue' = IF p = "inline" THEN queue
                ELSE IF well THEN [NoJob EXCEPT !.state = "completed"]
                ELSE AfterFailure(queue)

At(p, pc) == run[p].pc = pc
Moves(p, r) == run' = [run EXCEPT ![p] = r] /\ UNCHANGED queue

\* A batch that is COMPLETED is left alone.
ReadBatch(p) ==
    /\ At(p, "read")
    /\ IF batch.status = "COMPLETED" THEN Ends(p, TRUE)
       ELSE Moves(p, [run[p] EXCEPT !.pc = "fetch"])
    /\ UNCHANGED <<batch, row, employees, invited, pay, spent, made, tries>> /\ RunsOnly

\* Mutant: no rows, no verdict.
FetchRowsOrLeave(p) ==
    /\ At(p, "fetch")
    /\ LET left == {r \in Rows : row[r] = "PENDING"}
       IN  IF left = {} THEN Ends(p, TRUE)
           ELSE Moves(p, [run[p] EXCEPT !.left = left, !.pc = "row"])
    /\ UNCHANGED <<batch, row, employees, invited, pay, spent, made, tries>> /\ RunsOnly

\* With no row left only the counters and the verdict are to be written.
FetchRows(p) ==
    /\ At(p, "fetch")
    /\ LET left == {r \in Rows : row[r] = "PENDING"}
       IN  Moves(p, [run[p] EXCEPT !.left = left, !.pc = IF left = {} THEN "count" ELSE "row"])
    /\ UNCHANGED <<batch, row, employees, invited, pay, spent, made, tries>> /\ RunsOnly

Current(p) == Min(run[p].left)
Address(p) == email[Current(p)]

MayCreate(a) == a \notin employees
MayInvite(a) == a \notin employees \cup invited
MaySetUp(a) == a \in employees \ invited

\* What each type of row asks of its address before it writes.
Fits(a) ==
    CASE kind = "EMPLOYEE_CREATION" -> MayCreate(a)
      [] kind = "EMPLOYEE_INVITATION" -> MayInvite(a)
      [] kind = "SETUP_INVITATION" -> MaySetUp(a)
      [] kind = "ALLOCATION" -> pay[a].held
      [] OTHER -> a \in employees

CheckRow(p) ==
    /\ At(p, "row")
    /\ Moves(p, [run[p] EXCEPT !.ok = Fits(Address(p)),
                              !.pc = IF Fits(Address(p)) THEN "effect" ELSE "write"])
    /\ tries' = [tries EXCEPT ![Current(p)] = Min({@ + 1, 2})]
    /\ UNCHANGED <<batch, row, employees, invited, pay, spent, made>> /\ RunsOnly

\* Run p has done, or has not, what its row is for.
Does(p, ok, next) ==
    /\ Moves(p, [run[p] EXCEPT !.ok = ok, !.sum = "none", !.pc = next])
    /\ made' = [made EXCEPT ![Current(p)] = IF ok THEN @ + 1 ELSE @]
    /\ UNCHANGED <<batch, row, spent, tries>> /\ RunsOnly

\* Mutant: nothing stops a second employee with one address.
CreateEmployeeTwice(p) ==
    /\ At(p, "effect") /\ kind = "EMPLOYEE_CREATION" /\ Does(p, TRUE, "salary")
    /\ employees' = employees \cup {Address(p)}
    /\ UNCHANGED <<invited, pay>>

\* A unique key backs the address of an employee: the second create throws.
CreateEmployeeInternal(p) ==
    /\ At(p, "effect") /\ kind = "EMPLOYEE_CREATION"
    /\ IF Address(p) \notin employees THEN Does(p, TRUE, "salary") ELSE Does(p, FALSE, "write")
    /\ employees' = employees \cup {Address(p)}
    /\ UNCHANGED <<invited, pay>>

\* The employee's salary structure is a second write, and its failure is only logged.
CreateSalaryStructure(p) ==
    /\ At(p, "salary") /\ kind = "EMPLOYEE_CREATION"
    /\ Moves(p, [run[p] EXCEPT !.pc = "write"])
    /\ pay' = [pay EXCEPT ![Address(p)].held = TRUE]
    /\ UNCHANGED <<batch, row, employees, invited, spent, made, tries>> /\ RunsOnly

\* Nothing backs the address of an invitation.
CreateInvitationInternal(p) ==
    /\ At(p, "effect") /\ kind \in {"EMPLOYEE_INVITATION", "SETUP_INVITATION"}
    /\ Does(p, TRUE, "write")
    /\ invited' = invited \cup {Address(p)}
    /\ UNCHANGED <<employees, pay>>

\* A field is replaced; a base salary makes the structure that is missing.
UpdateUser(p) ==
    /\ At(p, "effect") /\ kind = "BULK_UPDATE" /\ Does(p, TRUE, "write")
    /\ pay' \in {pay, [pay EXCEPT ![Address(p)].held = TRUE]}
    /\ UNCHANGED <<employees, invited>>

\* A step in the middle of a line's replacement.
Replaces(p, r) ==
    /\ kind = "ALLOCATION" /\ Moves(p, r)
    /\ UNCHANGED <<batch, row, employees, invited, spent, made, tries>> /\ RunsOnly

\* upsert...LineOnStructure: the old line goes, the new one comes, and the gross
\* is computed from what is then read.
DeleteLine(p) ==
    /\ At(p, "effect") /\ Replaces(p, [run[p] EXCEPT !.pc = "line"])
    /\ pay' = [pay EXCEPT ![Address(p)].line = "none"]

\* Mutant: the gross is left as it was.
CreateLineOnly(p) ==
    /\ At(p, "line") /\ kind = "ALLOCATION" /\ Does(p, TRUE, "write")
    /\ pay' = [pay EXCEPT ![Address(p)].line = "new"]
    /\ UNCHANGED <<employees, invited>>

\* A structure has one line of a type: where another run was faster, the create throws.
CreateLine(p) ==
    /\ At(p, "line")
    /\ IF pay[Address(p)].line = "none"
       THEN /\ Replaces(p, [run[p] EXCEPT !.pc = "total"])
            /\ pay' = [pay EXCEPT ![Address(p)].line = "new"]
       ELSE /\ Replaces(p, [run[p] EXCEPT !.ok = FALSE, !.pc = "write"])
            /\ UNCHANGED pay

ReadStructure(p) ==
    /\ At(p, "total")
    /\ Replaces(p, [run[p] EXCEPT !.sum = pay[Address(p)].line, !.pc = "gross"])
    /\ UNCHANGED pay

RecalcGrossForStructure(p) ==
    /\ At(p, "gross") /\ kind = "ALLOCATION" /\ Does(p, TRUE, "write")
    /\ pay' = [pay EXCEPT ![Address(p)].gross = run[p].sum]
    /\ UNCHANGED <<employees, invited>>

\* What goes wrong with one row is caught, and becomes the row's error.
RowFault(p) ==
    /\ run[p].pc \in {"row", "effect", "line", "total", "gross"} /\ spent.faults < MaxFaults
    /\ Moves(p, [run[p] EXCEPT !.ok = FALSE, !.sum = "none", !.pc = "write"])
    /\ spent' = [spent EXCEPT !.faults = @ + 1]
    /\ tries' = [tries EXCEPT ![Current(p)] = IF At(p, "row") THEN Min({@ + 1, 2}) ELSE @]
    /\ UNCHANGED <<batch, row, employees, invited, pay, made>> /\ RunsOnly

\* What goes wrong with a new employee's salary structure does not.
SalaryFault(p) ==
    /\ At(p, "salary") /\ kind = "EMPLOYEE_CREATION" /\ spent.faults < MaxFaults
    /\ Moves(p, [run[p] EXCEPT !.pc = "write"])
    /\ spent' = [spent EXCEPT !.faults = @ + 1]
    /\ UNCHANGED <<batch, row, employees, invited, pay, made, tries>> /\ RunsOnly

\* Mutant: an error that was caught is no failure of the row.
VerdictOfCheck(p) == "SUCCESS"

Verdict(p) == IF run[p].ok THEN "SUCCESS" ELSE "FAILED"

WriteRow(p) ==
    /\ At(p, "write")
    /\ row' = [row EXCEPT ![Current(p)] = Verdict(p)]
    /\ Moves(p, [run[p] EXCEPT !.left = @ \ {Current(p)}, !.ok = FALSE, !.pc = "count"])
    /\ UNCHANGED <<batch, employees, invited, pay, spent, made, tries>> /\ RunsOnly

Counted(s) == Cardinality({r \in Rows : row[r] = s})

\* syncJobCounts: three counts, then one update.
CountRows(p) ==
    /\ At(p, "count")
    /\ Moves(p, [run[p] EXCEPT !.tally = <<Counted("SUCCESS"), Counted("FAILED")>>, !.pc = "sync"])
    /\ UNCHANGED <<batch, row, employees, invited, pay, spent, made, tries>> /\ RunsOnly

\* Mutant: the counters are written from what was counted, plus one.
SyncOneMore(p) ==
    /\ At(p, "sync")
    /\ batch' = [batch EXCEPT !.success = run[p].tally[1] + 1, !.failed = run[p].tally[2]]
    /\ Moves(p, [run[p] EXCEPT !.tally = <<0, 0>>,
                              !.pc = IF run[p].left = {} THEN "complete" ELSE "row"])
    /\ UNCHANGED <<row, employees, invited, pay, spent, made, tries>> /\ RunsOnly

SyncJobCounts(p) ==
    /\ At(p, "sync")
    /\ batch' = [batch EXCEPT !.success = run[p].tally[1], !.failed = run[p].tally[2]]
    /\ Moves(p, [run[p] EXCEPT !.tally = <<0, 0>>,
                              !.pc = IF run[p].left = {} THEN "complete" ELSE "row"])
    /\ UNCHANGED <<row, employees, invited, pay, spent, made, tries>> /\ RunsOnly

CompleteBatch(p) ==
    /\ At(p, "complete")
    /\ batch' = [batch EXCEPT !.status = "COMPLETED"]
    /\ Ends(p, TRUE)
    /\ UNCHANGED <<row, employees, invited, pay, spent, made, tries>> /\ RunsOnly

\* A call outside the rows' own try fails.
RunFault(p) ==
    /\ run[p].pc \in {"fetch", "write", "count", "sync", "complete"}
    /\ spent.faults < MaxFaults
    /\ Moves(p, [Asleep EXCEPT !.pc = "fail"])
    /\ spent' = [spent EXCEPT !.faults = @ + 1]
    /\ UNCHANGED <<batch, row, employees, invited, pay, made, tries>> /\ RunsOnly

FailBatch(p) ==
    /\ At(p, "fail")
    /\ batch' = [batch EXCEPT !.status = "FAILED"]
    /\ Ends(p, FALSE)
    /\ UNCHANGED <<row, employees, invited, pay, spent, made, tries>> /\ RunsOnly

\* The batch cannot be read, or its failure cannot be written: the run throws.
ThrowBatch(p) ==
    /\ run[p].pc \in {"read", "fail"} /\ spent.faults < MaxFaults
    /\ Ends(p, FALSE)
    /\ spent' = [spent EXCEPT !.faults = @ + 1]
    /\ UNCHANGED <<batch, row, employees, invited, pay, made, tries>> /\ RunsOnly

\* The process dies with its runs and its requests; the queue finds out.
Crash ==
    /\ Working # {} /\ spent.crashes < MaxCrashes
    /\ spent' = [spent EXCEPT !.crashes = @ + 1]
    /\ run' = [p \in Runners |-> Asleep]
    /\ request' = NoRequest
    /\ queue' = AfterStall(queue)
    /\ UNCHANGED <<kind, email, batch, row, employees, invited, pay, made, tries, clean>>

-----------------------------------------------------------------------------

Handler ==
    \/ CreateEmployeeCreationBatch \/ CreateEmployeeInvitationBatch
    \/ CreateBulkUpdateBatch \/ CreateSendInvitationsBatch
    \/ CreateAllowanceAllocationBatch \/ CreateDeductionAllocationBatch
    \/ CreateRows \/ StartBatchJob
    \/ RetryBatchJob \/ ResetRows \/ ResetBatch
    \/ BeginBatchJobProcessing \/ Enqueue \/ RunInline \/ RequestFault

ProcessBatchJobById(p) ==
    \/ ReadBatch(p) \/ FetchRows(p) \/ CheckRow(p)
    \/ CreateEmployeeInternal(p) \/ CreateSalaryStructure(p)
    \/ CreateInvitationInternal(p) \/ UpdateUser(p)
    \/ DeleteLine(p) \/ CreateLine(p) \/ ReadStructure(p) \/ RecalcGrossForStructure(p)
    \/ WriteRow(p)
    \/ CountRows(p) \/ SyncJobCounts(p) \/ CompleteBatch(p) \/ FailBatch(p)

Faults(p) == RowFault(p) \/ SalaryFault(p) \/ RunFault(p) \/ ThrowBatch(p)

Next ==
    \/ Handler
    \/ \E p \in Runners : ProcessBatchJobById(p) \/ Faults(p)
    \/ Fetch \/ Promote \/ Forget \/ Crash

\* The queue hands out what it has, and a live process goes on with its runs.
Fairness ==
    /\ \A p \in Runners : WF_vars(ProcessBatchJobById(p))
    /\ WF_vars(Fetch) /\ WF_vars(Promote)

Spec == Init /\ [][Next]_vars /\ Fairness

-----------------------------------------------------------------------------

\* The state stays in its types.
TypeOK ==
    /\ kind \in Kinds \cup {"none"} /\ email \in [Rows -> Emails]
    /\ employees \subseteq Emails /\ invited \subseteq Emails
    /\ pay \in [Emails -> [held : BOOLEAN, line : Lines, gross : Lines]]
    /\ batch \in [status : {"none", "PENDING", "PROCESSING", "COMPLETED", "FAILED"},
                  success : 0..NumRows, failed : 0..NumRows]
    /\ row \in [Rows -> {"none", "PENDING", "SUCCESS", "FAILED"}]
    /\ queue.state \in Unfinished \cup {"none", "completed", "failed"}
    /\ \A p \in Runners : run[p].left \subseteq Rows

\* No address gets a second employee from the batch, by one row or by two, whichever
\* runs, deliveries, retries and crashes meet; nor a second pending invitation
\* while one run is at work.
OneEachPerAddress ==
    kind = "EMPLOYEE_CREATION" \/ (kind \in {"EMPLOYEE_INVITATION", "SETUP_INVITATION"} /\ clean) =>
       \A r, s \in Rows :
          /\ made[r] <= 1
          /\ email[r] = email[s] /\ r # s => made[r] + made[s] <= 1

\* A row says what it did: SUCCESS if it did all it is for, and a new employee of
\* such a row has a salary structure unless a call failed; FAILED after having
\* done it only when it was attempted once more, and met its own work.
RowsTellTheTruth ==
    \A r \in Rows :
       /\ row[r] = "SUCCESS" => made[r] > 0
       /\ row[r] = "FAILED" /\ made[r] > 0 => tries[r] > 1
       /\ kind = "EMPLOYEE_CREATION" /\ row[r] = "SUCCESS" =>
             pay[email[r]].held \/ spent.faults > 0

\* An allocation that says SUCCESS left the batch's line on the structure, and a
\* gross that was computed from it, unless two runs met; one that says FAILED at
\* its first attempt left the gross as it was, whatever became of the line.
AllocationsAreWhole ==
    kind = "ALLOCATION" =>
       \A r \in Rows :
          /\ clean /\ row[r] = "SUCCESS" =>
                pay[email[r]].line = "new" /\ pay[email[r]].gross = "new"
          /\ row[r] = "FAILED" /\ tries[r] = 1 => pay[email[r]].gross # "new"

\* A COMPLETED batch has a verdict for each of its rows, and counts them right,
\* unless it was started or reset while a run was under way.
CompletedIsWhole ==
    clean /\ batch.status = "COMPLETED" =>
       /\ \A r \in Rows : row[r] \in {"SUCCESS", "FAILED"}
       /\ batch.success = Counted("SUCCESS") /\ batch.failed = Counted("FAILED")

\* A batch the queue is working on gets a verdict, through failing calls, a
\* second attempt and a restart of the server, unless its attempts are used up.
QueuedBatchEnds ==
    queue.state = "active" ~> batch.status \in {"COMPLETED", "FAILED"} \/ queue.state = "failed"
=============================================================================
