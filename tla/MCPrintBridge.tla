---------------------------- MODULE MCPrintBridge ----------------------------
(* PrintBridge with two tickets and three jobs. *)
EXTENDS PrintBridge

CONSTANTS x, y
=============================================================================
