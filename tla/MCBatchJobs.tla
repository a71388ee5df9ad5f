---------------------------- MODULE MCBatchJobs ----------------------------
(* A batch among employees who have been paid before.                      *)
EXTENDS BatchJobs

\* A bound: an employee without a structure is refused an allocation as one who
\* does not exist is, and nothing else asks who has one.
MCInit == Init /\ \A a \in Emails : pay[a].held <=> a \in employees

MCSpec == MCInit /\ [][Next]_vars /\ Fairness
=============================================================================
