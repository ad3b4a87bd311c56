-------------------------- MODULE SnapshotDelivery --------------------------
(***************************************************************************)
(* What the offline queue promises the cashier: a payment snapshot that is *)
(* queued may be stored by the server, once, and nothing else is stored.   *)
(***************************************************************************)
EXTENDS Naturals

CONSTANT Snapshots

VARIABLES
  queued,  \* snapshots that were ever queued
  stored   \* stored[s]: the rows the server holds for snapshot s

Init == queued = {} /\ stored = [s \in Snapshots |-> 0]

Queue(s) == /\ s \in Snapshots \ queued
            /\ queued' = queued \cup {s}
            /\ UNCHANGED stored

\* A request stores a batch of queued snapshots, those stored before excepted.
Store(batch) ==
  /\ batch \subseteq queued
  /\ \A s \in batch : stored[s] = 0
  /\ stored' = [s \in Snapshots |-> IF s \in batch THEN 1 ELSE stored[s]]
  /\ UNCHANGED queued

Next == (\E s \in Snapshots : Queue(s)) \/ (\E batch \in SUBSET Snapshots : Store(batch))

Spec == Init /\ [][Next]_<<queued, stored>>
=============================================================================
