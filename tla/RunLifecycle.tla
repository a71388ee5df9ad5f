--------------------------- MODULE RunLifecycle ---------------------------
(***************************************************************************)
(* What a payroll run promises to those who look at it from outside, as    *)
(* the header of state-machines/payroll-run.machine.js puts it: it starts  *)
(* from DRAFT, ends COMPLETED (for good, and with everybody paid) or       *)
(* FAILED, and a FAILED run may be processed again.                        *)
(***************************************************************************)
CONSTANT Employees

VARIABLES status, paid

Init == status = "DRAFT" /\ paid = {}

Start == status = "DRAFT" /\ status' = "PROCESSING" /\ UNCHANGED paid

\* Payslips appear one employee at a time, also while a FAILED run's jobs are retried.
Pay ==
    /\ status \in {"PROCESSING", "FAILED"}
    /\ \E e \in Employees \ paid : paid' = paid \cup {e}
    /\ UNCHANGED status

Complete == status = "PROCESSING" /\ paid = Employees /\ status' = "COMPLETED" /\ UNCHANGED paid

Fail == status = "PROCESSING" /\ status' = "FAILED" /\ UNCHANGED paid

Retry == status = "FAILED" /\ status' = "PROCESSING" /\ UNCHANGED paid

Next == Start \/ Pay \/ Complete \/ Fail \/ Retry

Spec == Init /\ [][Next]_<<status, paid>>

=============================================================================
