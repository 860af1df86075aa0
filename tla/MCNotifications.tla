-------------------------- MODULE MCNotifications --------------------------
(***************************************************************************)
(* Two notification numbers tell neighbours of a stream apart.             *)
(***************************************************************************)
EXTENDS NotificationsSystem

MCIds == {0, 1}
=============================================================================
