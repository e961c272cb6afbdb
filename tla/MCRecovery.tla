------------------------------ MODULE MCRecovery ------------------------------
(* Model values and symmetry for checking Recovery.                          *)
EXTENDS Recovery, TLC

CONSTANTS c1, c2, worker, s1, s2, e1, e2

Symmetry == Permutations(EventIds) \cup Permutations(Sweepers)
===============================================================================
