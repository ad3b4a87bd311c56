---------------------------- MODULE MCPrintQueue ----------------------------
(***************************************************************************)
(* PrintQueue, with its history, for few tabs, tickets and rows.           *)
(***************************************************************************)
EXTENDS PrintQueueHistory, TLC

CONSTANTS a, b, j1, j2, j3, k1, k2

Symmetry == Permutations(Tabs) \cup Permutations(Jobs) \cup Permutations(Keys)
=============================================================================
