--------------------------- MODULE MCOfflineSync ---------------------------
(***************************************************************************)
(* OfflineSync, with its history, for few tabs, snapshots and requests.    *)
(***************************************************************************)
EXTENDS OfflineSyncHistory, TLC

CONSTANTS s1, s2, s3, a, b, n1, n2, n3

Symmetry == Permutations(Snapshots) \cup Permutations(Tabs) \cup Permutations(Requests)
=============================================================================
