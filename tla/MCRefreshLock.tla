---------------------------- MODULE MCRefreshLock ----------------------------
(***************************************************************************)
(* Instances of RefreshLock.                                               *)
(***************************************************************************)
EXTENDS RefreshLock, TLC

CONSTANTS cycle, preflight \* the background cycle and a UI thread

Symmetry == Permutations({cycle, preflight})
==============================================================================
