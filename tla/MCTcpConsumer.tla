--------------------------- MODULE MCTcpConsumer ---------------------------
(***************************************************************************)
(* The session that fires, the one that notifies, one that does neither    *)
(* and one whose 8 low bits are those of the one that fires.               *)
(***************************************************************************)
EXTENDS TcpConsumerSystem

MCTcpSessions == {64, 96, 1, 320}
MCKept == {1, 16}
MCOffsets == {0, 510}
=============================================================================
