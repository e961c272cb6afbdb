---------------------------- MODULE MCCallStore ----------------------------
(* Model values and symmetry for checking CallStore.                        *)
EXTENDS CallStore, TLC

CONSTANTS c1, worker, sweeper, e1, e2, r1, r2

\* Owners, event ids and results are interchangeable in CallStore.
Symmetry == Permutations(Owners) \cup Permutations(EventIds) \cup Permutations(Results)
=============================================================================
