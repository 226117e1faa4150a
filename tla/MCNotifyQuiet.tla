-------------------------- MODULE MCNotifyQuiet --------------------------
(************************************************************************)
(* An instance of NotificationSchedule whose local                      *)
(* time is ahead of UTC: one poller, a daily report                     *)
(* that is due in every minute.                                         *)
(************************************************************************)
EXTENDS NotificationSchedule

MCDueAt    == [j \in Job |-> 0..(Day - 1)]
MCSeverity == [j \in Job |-> 3]
==========================================================================
