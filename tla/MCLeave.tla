------------------------------ MODULE MCLeave ------------------------------
(***************************************************************************)
(* Leave, instantiated for TLC.                                            *)
(***************************************************************************)
EXTENDS Leave, TLC

\* Two days in every year.
LeaveTier == [y \in Years |-> 2]

\* The initial policy, and one that differs in both respects.
LeavePolicies == {[method |-> "FRONT_LOADED", twoTier |-> TRUE],
                  [method |-> "ACCRUAL", twoTier |-> FALSE]}

\* Nothing tells one request from another, nor one call of the employee, of a
\* manager or of HR from another of the same.
LeaveSymmetry == Permutations(Requests) \cup Permutations(Clients) \cup Permutations(Staff)
=============================================================================
