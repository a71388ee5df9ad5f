------------------------- MODULE MCSalaryStructures -------------------------
EXTENDS SalaryStructures, TLC

Symmetry == Permutations(Clients) \cup Permutations(Types)
=============================================================================
