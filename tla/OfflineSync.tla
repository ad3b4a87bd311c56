---------------------------- MODULE OfflineSync ----------------------------
(***************************************************************************)
(* The offline queue of a terminal, lib/offline-sync-store.ts, and the     *)
(* events the server stores for it, app/api/offline-sync/route.ts: one     *)
(* browser profile of one tenant.  Its tabs share an IndexedDB queue; each *)
(* tab has its own activeSyncs and knows nothing of the others.  A         *)
(* synchronisation reads the whole queue, writes it back row by row, sends *)
(* what was pending, and writes the rows it READ back a second time.       *)
(*                                                                         *)
(* Only payments are queued by the application, each under a random id;    *)
(* the functions that queue order, table and printer snapshots have no     *)
(* caller.                                                                 *)
(***************************************************************************)
EXTENDS Naturals, FiniteSets

CONSTANTS
  Snapshots,  \* queued payment snapshots, and their ids
  Tabs,       \* tabs of the browser
  Requests,   \* POSTs to /api/offline-sync; bounds their number
  Disturbances  \* what else happens: "close" a tab, "clear" the queue

ASSUME OfflineAssumption == Disturbances \subseteq {"close", "clear"}

Status == {"pending", "syncing", "failed", "synced"}
Absent == "absent"
Row == Status \cup {Absent}

VARIABLES
  queue,   \* queue[s]: status of the row of s in IndexedDB
  events,  \* events[s]: offline_events rows of s on the server
  queued,  \* snapshots that were ever queued
  sync,    \* sync[t]: the synchronisation under way in tab t
  post     \* post[n]: the n-th POST

vars == <<queue, events, queued, sync, post>>

Phases == {"idle", "marking", "sending", "waiting", "settling"}

\* copy: the queue as it was read; batch: pendingItems; target, todo: the rows
\* being written and those of them not written yet; request: the POST awaited.
Sync == [phase : Phases, copy : [Snapshots -> Row], batch : SUBSET Snapshots,
         target : [Snapshots -> Row], todo : SUBSET Snapshots, request : Requests \cup {Absent}]

NoRows == [s \in Snapshots |-> Absent]
NoSync == [phase |-> "idle", copy |-> NoRows, batch |-> {}, target |-> NoRows,
           todo |-> {}, request |-> Absent]

Post == [state : {"unsent", "sent", "stored", "ended"}, batch : SUBSET Snapshots]

-----------------------------------------------------------------------------

RowsOf(rows) == {s \in Snapshots : rows[s] # Absent}

Sendable(rows) == {s \in Snapshots : rows[s] \in {"pending", "failed"}}

\* Mutant: syncingQueue is made of the items to be sent only.
Marked_Batch(copy, batch) == [s \in batch |-> "syncing"]

\* syncingQueue: every row read, those to be sent as syncing.
Marked(copy, batch) == [s \in Snapshots |-> IF s \in batch THEN "syncing" ELSE copy[s]]

\* Mutant: every row read is taken as accepted.
Accepted_All(copy, batch) == [s \in Snapshots |-> IF copy[s] # Absent THEN "synced" ELSE Absent]

\* nextQueue after an answer: a row that was read as syncing is another tab's.
Accepted(copy, batch) == [s \in Snapshots |->
  IF s \in batch THEN "synced" ELSE IF copy[s] = "syncing" THEN "failed" ELSE copy[s]]

\* Mutant: after an error the rows are written as they were marked.
Rejected_KeepsMarks(copy, batch) == Marked(copy, batch)

\* nextQueue after an error.
Rejected(copy, batch) == [s \in Snapshots |-> IF s \in batch THEN "failed" ELSE copy[s]]

-----------------------------------------------------------------------------
(* queueOfflinePaymentSnapshot.                                             *)

QueuePayment(s) ==
  /\ s \notin queued
  /\ queued' = queued \cup {s}
  /\ queue' = [queue EXCEPT ![s] = "pending"]
  /\ UNCHANGED <<events, sync, post>>

-----------------------------------------------------------------------------
(* syncOfflineOrders in tab t.  A synchronisation that finds nothing to     *)
(* send changes no row.                                                     *)

Read(t) ==
  /\ sync[t].phase = "idle"
  /\ Sendable(queue) # {}
  /\ sync' = [sync EXCEPT ![t] =
       [phase |-> "marking", copy |-> queue, batch |-> Sendable(queue),
        target |-> Marked(queue, Sendable(queue)), todo |-> RowsOf(queue), request |-> Absent]]
  /\ UNCHANGED <<queue, events, queued, post>>

\* writeQueueItem: each row has a transaction of its own.
WriteRow(t, s) ==
  /\ sync[t].phase \in {"marking", "settling"}
  /\ s \in sync[t].todo
  /\ queue' = [queue EXCEPT ![s] = sync[t].target[s]]
  /\ sync' = [sync EXCEPT ![t].todo = @ \ {s}]
  /\ UNCHANGED <<events, queued, post>>

Send(t, n) ==
  /\ sync[t].phase = "marking" /\ sync[t].todo = {}
  /\ post[n].state = "unsent"
  /\ post' = [post EXCEPT ![n] = [state |-> "sent", batch |-> sync[t].batch]]
  /\ sync' = [sync EXCEPT ![t].phase = "waiting", ![t].request = n]
  /\ UNCHANGED <<queue, events, queued>>

Settle(t, target) ==
  sync' = [sync EXCEPT ![t].phase = "settling", ![t].target = target,
                       ![t].todo = RowsOf(sync[t].copy), ![t].request = Absent]

\* acceptedIds are the ids that were sent.
AnswerArrives(t) ==
  /\ sync[t].phase = "waiting"
  /\ post[sync[t].request].state = "stored"
  /\ post' = [post EXCEPT ![sync[t].request].state = "ended"]
  /\ Settle(t, Accepted(sync[t].copy, sync[t].batch))
  /\ UNCHANGED <<queue, events, queued>>

\* The fetch fails, or the server answers with an error.  What was sent may
\* have been stored, or be stored later.
AnswerLost(t) ==
  /\ sync[t].phase = "waiting"
  /\ Settle(t, Rejected(sync[t].copy, sync[t].batch))
  /\ UNCHANGED <<queue, events, queued, post>>

Finish(t) ==
  /\ sync[t].phase = "settling" /\ sync[t].todo = {}
  /\ sync' = [sync EXCEPT ![t] = NoSync]
  /\ UNCHANGED <<queue, events, queued, post>>

-----------------------------------------------------------------------------
(* POST of app/api/offline-sync.                                            *)

\* Mutant: createMany without skipDuplicates over a table without the index.
Stored_Again(n) ==
  [s \in Snapshots |-> IF s \in post[n].batch THEN events[s] + 1 ELSE events[s]]

\* createMany with skipDuplicates: the unique index is on the item's id.
Stored(n) ==
  [s \in Snapshots |-> IF s \in post[n].batch /\ events[s] = 0 THEN 1 ELSE events[s]]

StoreBatch(n) ==
  /\ post[n].state = "sent"
  /\ events' = Stored(n)
  /\ post' = [post EXCEPT ![n].state = "stored"]
  /\ UNCHANGED <<queue, queued, sync>>

\* The request is lost, or its transaction is rolled back.
LoseBatch(n) ==
  /\ post[n].state = "sent"
  /\ post' = [post EXCEPT ![n].state = "ended"]
  /\ UNCHANGED <<queue, events, queued, sync>>

-----------------------------------------------------------------------------
(* The tab is closed or reloaded; the queue is cleared by the cashier, or   *)
(* at the end of the session.                                               *)

CloseTab(t) ==
  /\ "close" \in Disturbances
  /\ sync[t].phase # "idle"
  /\ sync' = [sync EXCEPT ![t] = NoSync]
  /\ UNCHANGED <<queue, events, queued, post>>

ClearQueue ==
  /\ "clear" \in Disturbances
  /\ RowsOf(queue) # {}
  /\ queue' = NoRows
  /\ UNCHANGED <<events, queued, sync, post>>

-----------------------------------------------------------------------------

Init ==
  /\ queue = NoRows
  /\ events = [s \in Snapshots |-> 0]
  /\ queued = {}
  /\ sync = [t \in Tabs |-> NoSync]
  /\ post = [n \in Requests |-> [state |-> "unsent", batch |-> {}]]

Step(t) == \/ Read(t)
           \/ \E s \in Snapshots : WriteRow(t, s)
           \/ \E n \in Requests : Send(t, n)
           \/ AnswerArrives(t) \/ AnswerLost(t) \/ Finish(t) \/ CloseTab(t)

Next == \/ \E s \in Snapshots : QueuePayment(s)
        \/ \E t \in Tabs : Step(t)
        \/ \E n \in Requests : StoreBatch(n) \/ LoseBatch(n)
        \/ ClearQueue

Spec == Init /\ [][Next]_vars

-----------------------------------------------------------------------------
(* Properties of every interleaving.                                        *)

TypeOK ==
  /\ queue \in [Snapshots -> Row]
  /\ events \in [Snapshots -> Nat]
  /\ queued \subseteq Snapshots
  /\ sync \in [Tabs -> Sync]
  /\ post \in [Requests -> Post]
  /\ \A t \in Tabs : sync[t].phase = "waiting" => sync[t].request \in Requests

\* A row that says synced, in the queue or on its way to it, is about a snapshot
\* the server holds: nothing is forgotten because a stale copy called it done.
SyncedIsStored == \A s \in Snapshots : queue[s] = "synced" => events[s] > 0

\* "Replay events must be idempotent by tenant" (RUNTIME_SNAPSHOT_FORENSICS.md):
\* answers that get lost, tabs that send the same rows and requests that arrive
\* late store a snapshot once, and store nothing that was not queued.
Delivery == INSTANCE SnapshotDelivery WITH stored <- events
ImplementsDelivery == Delivery!Spec

\* "When the connection is back the queue is checked again": when no
\* synchronisation is under way, every snapshot the server does not hold is
\* one that the next synchronisation sends.
NothingStranded ==
  (\A t \in Tabs : sync[t].phase = "idle") =>
    \A s \in RowsOf(queue) : events[s] = 0 => s \in Sendable(queue)
=============================================================================
