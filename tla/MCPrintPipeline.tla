-------------------------- MODULE MCPrintPipeline --------------------------
(* PrintPipeline with one tab and up to two receipts. *)
EXTENDS PrintPipeline

CONSTANTS a, j1, j2, k1
=============================================================================
