-------------------------- MODULE MCParkHandshake --------------------------
(* ParkHandshake for TLC: the configurations choose the faults. *)
EXTENDS ParkHandshake
=============================================================================
