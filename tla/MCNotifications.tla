-------------------------- MODULE MCNotifications --------------------------
(***************************************************************************)
(* TLC instances of Notifications.                                         *)
(***************************************************************************)
EXTENDS Notifications

CONSTANTS t1, t2, u1, u2
=============================================================================
