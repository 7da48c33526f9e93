------------------------ MODULE MCNotificationQueue ------------------------
(***************************************************************************)
(* A small instance of NotificationQueue for TLC.                          *)
(***************************************************************************)
EXTENDS NotificationQueue

CONSTANTS n1, n2, w1, w2

TwoLogs == {n1, n2}
TwoWorkers == {w1, w2}
==============================================================================
