-------------------------- MODULE MCMaintenanceWindow --------------------------
(***************************************************************************)
(* TLC instances of MaintenanceWindow: the resilient launcher the watcher  *)
(* starts, one that leaves with its child, two process ids.                *)
(***************************************************************************)
EXTENDS MaintenanceWindow

CONSTANTS browser, ranking, recovery, lan
==============================================================================
