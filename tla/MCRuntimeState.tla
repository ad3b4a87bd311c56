--------------------------- MODULE MCRuntimeState ---------------------------
(***************************************************************************)
(* RuntimeState, with its history, for few tabs, tenants and keys.         *)
(***************************************************************************)
EXTENDS RuntimeStateHistory, TLC

CONSTANTS a, b, ten1, ten2, m, p, c1, c2

Symmetry == Permutations(Tabs) \cup Permutations(Calls) \cup Permutations(Tenants)
=============================================================================
