----------------------------- MODULE MCArbiter -----------------------------
(* The arbiter of top.cpp has four buses; all streams have a depth of 1. *)
EXTENDS ArbiterSystem
=============================================================================
