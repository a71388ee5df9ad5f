---------------------------- MODULE MCEmployees ----------------------------
EXTENDS Employees, TLC

Symmetry == Permutations(Addresses) \cup Permutations(Clients)
=============================================================================
