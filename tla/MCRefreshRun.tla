----------------------------- MODULE MCRefreshRun -----------------------------
(***************************************************************************)
(* TLC instances of RefreshRun: two symbols, one more than a run visits.   *)
(***************************************************************************)
EXTENDS RefreshRun, TLC

CONSTANTS s1, s2

Symmetry == Permutations({s1, s2})
==============================================================================
