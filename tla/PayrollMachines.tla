------------------------- MODULE PayrollMachines -------------------------
(***************************************************************************)
(* The state machines of a payroll run and of a pay period                 *)
(* (state-machines/payroll-run.machine.js, pay-period.machine.js) as the   *)
(* predicates that handlers, jobs and workers ask before they write a new  *)
(* status.                                                                 *)
(*                                                                         *)
(* A transition needs an edge of the machine and nothing else.  The        *)
(* machines name guards (canComplete, ...), but validateTransition reads   *)
(* `stateNode.on[event].guard`, and with the xstate 5 of package-lock.json *)
(* `on[event]` is an array of transitions, whose `guard` is undefined: no  *)
(* guard is ever called.                                                   *)
(***************************************************************************)
EXTENDS Integers

RunStatus == {"DRAFT", "PROCESSING", "COMPLETED", "FAILED"}

\* The events each state of the machine accepts; COMPLETED is final.
RunEvents == [DRAFT      |-> {"START", "DELETE"},
              PROCESSING |-> {"COMPLETE", "FAIL", "UPDATE_PROGRESS"},
              COMPLETED  |-> {},
              FAILED     |-> {"RETRY"}]

\* The event validateTransition derives from the requested status.
EventFor(from, to) ==
    CASE to = "PROCESSING" -> IF from = "FAILED" THEN "RETRY" ELSE "START"
      [] to = "COMPLETED"  -> "COMPLETE"
      [] to = "FAILED"     -> "FAIL"

ValidRunTransition(from, to) == to \notin {from, "DRAFT"} /\ EventFor(from, to) \in RunEvents[from]

\* Two plausible slips: recorded failures are not looked at; a status borrowed
\* from the pay period's machine, which processSingleEmployee expects to see.
FinalStatusIgnoringFailures(from, failed) ==
    IF ValidRunTransition(from, "COMPLETED") THEN "COMPLETED" ELSE "FAILED"

FinalStatusClosed(from, failed) == IF failed > 0 THEN "FAILED" ELSE "CLOSED"

\* The status finalizePayrollRun writes: the candidate that the recorded
\* failures call for, or FAILED when the machine rejects the candidate.
FinalStatus(from, failed) ==
    LET candidate == IF failed > 0 THEN "FAILED" ELSE "COMPLETED"
    IN  IF ValidRunTransition(from, candidate) THEN candidate ELSE "FAILED"

-----------------------------------------------------------------------------
PeriodStatus == {"DRAFT", "PROCESSING", "COMPLETED", "CLOSED"}

PeriodEvents == [DRAFT      |-> {"START_PROCESSING", "DELETE"},
                 PROCESSING |-> {"COMPLETE", "FAIL"},
                 COMPLETED  |-> {"PAUSE_AUTO_CLOSE", "RESUME_AUTO_CLOSE"},
                 CLOSED     |-> {}]

\* No event leads to DRAFT or to CLOSED.
ValidPeriodTransition(from, to) ==
    \/ to = "PROCESSING" /\ "START_PROCESSING" \in PeriodEvents[from]
    \/ to = "COMPLETED" /\ "COMPLETE" \in PeriodEvents[from]

=============================================================================
