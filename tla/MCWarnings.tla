----------------------------- MODULE MCWarnings -----------------------------
(* One warning at a time, two handlers in flight.                          *)
EXTENDS Warnings, TLC

Symmetry == Permutations(Texts) \cup Permutations(Admins)
=============================================================================
