------------------------- MODULE OfflineSyncProofs -------------------------
(***************************************************************************)
(* Whatever number of tabs share the queue, and however often they are     *)
(* closed, the queue cleared or an answer lost: a row that says synced is  *)
(* stored, and the server stores each queued snapshot once.  Neither is    *)
(* inductive: what a tab read before, and what it is about to write, must  *)
(* be true of the server too (CopiesTrue), and a tab that waits must wait  *)
(* for the request that carries its batch (Waits).                         *)
(***************************************************************************)
EXTENDS OfflineSyncHistory, TLAPS

OnlyQueued ==
  /\ \A s \in Snapshots : queue[s] # Absent => s \in queued
  /\ \A t \in Tabs :
       /\ sync[t].batch \subseteq queued
       /\ \A s \in Snapshots : sync[t].copy[s] # Absent => s \in queued
       /\ sync[t].todo \subseteq RowsOf(sync[t].copy)
  /\ \A n \in Requests : post[n].batch \subseteq queued

CopiesTrue ==
  \A t \in Tabs : \A s \in Snapshots :
    (sync[t].copy[s] = "synced" \/ sync[t].target[s] = "synced") => events[s] > 0

Waits ==
  \A t \in Tabs : sync[t].phase = "waiting" =>
    /\ sync[t].request \in Requests
    /\ post[sync[t].request].state # "unsent"
    /\ post[sync[t].request].batch = sync[t].batch

AnsweredIsStored ==
  \A n \in Requests : post[n].state = "stored" => \A s \in post[n].batch : events[s] > 0

OfflineInv == TypeOK /\ OnlyQueued /\ SyncedIsStored /\ CopiesTrue /\ Waits /\ AnsweredIsStored

-----------------------------------------------------------------------------
(* The rows the three passes write.                                         *)

LEMMA MarkedRows ==
  ASSUME NEW copy \in [Snapshots -> Row], NEW batch \in SUBSET Snapshots
  PROVE  /\ Marked(copy, batch) \in [Snapshots -> Row]
         /\ \A s \in Snapshots : Marked(copy, batch)[s] = "synced" => copy[s] = "synced"
  BY DEF Marked, Row, Status

LEMMA AcceptedRows ==
  ASSUME NEW copy \in [Snapshots -> Row], NEW batch \in SUBSET Snapshots
  PROVE  /\ Accepted(copy, batch) \in [Snapshots -> Row]
         /\ \A s \in Snapshots : Accepted(copy, batch)[s] = "synced" =>
              s \in batch \/ copy[s] = "synced"
  BY DEF Accepted, Row, Status

LEMMA RejectedRows ==
  ASSUME NEW copy \in [Snapshots -> Row], NEW batch \in SUBSET Snapshots
  PROVE  /\ Rejected(copy, batch) \in [Snapshots -> Row]
         /\ \A s \in Snapshots : Rejected(copy, batch)[s] = "synced" => copy[s] = "synced"
  BY DEF Rejected, Row, Status

LEMMA NoSyncTyped == NoSync \in Sync
  BY DEF NoSync, Sync, NoRows, Row, Phases

\* A tab with nothing under way satisfies every part that speaks of it.
LEMMA NoSyncHarmless ==
  /\ NoSync.phase # "waiting" /\ NoSync.batch = {} /\ NoSync.todo = {}
  /\ \A s \in Snapshots : NoSync.copy[s] = Absent /\ NoSync.target[s] = Absent
  BY DEF NoSync, NoRows

LEMMA InitInv == Init => OfflineInv
<1> SUFFICES ASSUME Init PROVE OfflineInv
  OBVIOUS
<1> USE DEF Init
<1>1. TypeOK
  BY NoSyncTyped, NoSyncHarmless DEF TypeOK, NoRows, Row, Post
<1>2. OnlyQueued
  BY NoSyncHarmless DEF OnlyQueued, NoRows, RowsOf
<1>3. SyncedIsStored
  BY DEF SyncedIsStored, NoRows, Absent
<1>4. CopiesTrue
  BY NoSyncHarmless DEF CopiesTrue, Absent
<1>5. Waits /\ AnsweredIsStored
  BY NoSyncHarmless DEF Waits, AnsweredIsStored
<1>6. QED
  BY <1>1, <1>2, <1>3, <1>4, <1>5 DEF OfflineInv

-----------------------------------------------------------------------------
(* One lemma per action.                                                    *)

LEMMA QueueKeeps ==
  ASSUME OfflineInv, NEW s \in Snapshots, QueuePayment(s) PROVE OfflineInv'
<1> USE DEF QueuePayment, OfflineInv
<1>1. TypeOK'
  BY DEF TypeOK, Row, Status
<1>2. OnlyQueued'
  BY DEF OnlyQueued, TypeOK, RowsOf
<1>3. SyncedIsStored'
  BY DEF SyncedIsStored, TypeOK
<1>4. (CopiesTrue /\ Waits /\ AnsweredIsStored)'
  BY DEF CopiesTrue, Waits, AnsweredIsStored
<1>5. QED
  BY <1>1, <1>2, <1>3, <1>4

LEMMA ReadKeeps ==
  ASSUME OfflineInv, NEW t \in Tabs, Read(t) PROVE OfflineInv'
<1> USE DEF Read, OfflineInv
<1> DEFINE new == [phase |-> "marking", copy |-> queue, batch |-> Sendable(queue),
                   target |-> Marked(queue, Sendable(queue)), todo |-> RowsOf(queue),
                   request |-> Absent]
<1>1. queue \in [Snapshots -> Row] /\ sync \in [Tabs -> Sync]
  BY DEF TypeOK
<1>2. Sendable(queue) \in SUBSET Snapshots /\ RowsOf(queue) \in SUBSET Snapshots
  BY DEF Sendable, RowsOf
<1>3. new \in Sync
  BY <1>1, <1>2, MarkedRows DEF Sync, Phases
<1>4. sync' = [sync EXCEPT ![t] = new]
  OBVIOUS
<1>5. \A u \in Tabs : sync'[u] = IF u = t THEN new ELSE sync[u]
  BY <1>1, <1>4
<1>6. TypeOK'
  BY <1>3, <1>4, <1>5 DEF TypeOK
<1>7. OnlyQueued'
  BY <1>5 DEF OnlyQueued, Sendable, RowsOf, Absent
<1>8. CopiesTrue'
  BY <1>1, <1>2, <1>5, MarkedRows DEF CopiesTrue, SyncedIsStored
<1>9. (SyncedIsStored /\ Waits /\ AnsweredIsStored)'
  BY <1>5 DEF SyncedIsStored, Waits, AnsweredIsStored
<1>10. QED
  BY <1>6, <1>7, <1>8, <1>9

LEMMA WriteKeeps ==
  ASSUME OfflineInv, NEW t \in Tabs, NEW s \in Snapshots, WriteRow(t, s) PROVE OfflineInv'
<1> USE DEF WriteRow, OfflineInv
<1>1. queue \in [Snapshots -> Row] /\ sync \in [Tabs -> Sync]
  BY DEF TypeOK
<1>2. sync[t] \in Sync
  BY <1>1
<1>3. sync' = [sync EXCEPT ![t].todo = sync[t].todo \ {s}]
  OBVIOUS
<1>4. \A u \in Tabs :
        /\ sync'[u].phase = sync[u].phase /\ sync'[u].copy = sync[u].copy
        /\ sync'[u].batch = sync[u].batch /\ sync'[u].target = sync[u].target
        /\ sync'[u].request = sync[u].request /\ sync'[u].todo \subseteq sync[u].todo
  BY <1>1, <1>3 DEF Sync
<1>5. sync' \in [Tabs -> Sync]
  BY <1>1, <1>2, <1>3 DEF Sync
<1>6. TypeOK'
  BY <1>1, <1>2, <1>4, <1>5 DEF TypeOK, Sync
<1>7. s \in queued
  BY DEF OnlyQueued, RowsOf
<1>8. OnlyQueued'
  BY <1>1, <1>4, <1>7 DEF OnlyQueued, RowsOf
<1>9. SyncedIsStored'
  BY <1>1 DEF SyncedIsStored, CopiesTrue
<1>10. (CopiesTrue /\ Waits /\ AnsweredIsStored)'
  BY <1>4 DEF CopiesTrue, Waits, AnsweredIsStored
<1>11. QED
  BY <1>6, <1>8, <1>9, <1>10

LEMMA SendKeeps ==
  ASSUME OfflineInv, NEW t \in Tabs, NEW n \in Requests, Send(t, n) PROVE OfflineInv'
<1>1. /\ TypeOK /\ OnlyQueued /\ SyncedIsStored /\ CopiesTrue /\ Waits /\ AnsweredIsStored
      /\ sync \in [Tabs -> Sync] /\ post \in [Requests -> Post] /\ sync[t] \in Sync
      /\ UNCHANGED <<queue, events, queued>> /\ post[n].state = "unsent"
  BY DEF OfflineInv, TypeOK, Send
<1>2. \A u \in Tabs :
        /\ sync'[u].copy = sync[u].copy /\ sync'[u].batch = sync[u].batch
        /\ sync'[u].target = sync[u].target /\ sync'[u].todo = sync[u].todo
        /\ u # t => sync'[u].phase = sync[u].phase /\ sync'[u].request = sync[u].request
  BY <1>1 DEF Send, Sync
<1>3. sync'[t].phase = "waiting" /\ sync'[t].request = n
  BY <1>1 DEF Send, Sync
<1>4. \A m \in Requests :
        post'[m] = IF m = n THEN [state |-> "sent", batch |-> sync[t].batch] ELSE post[m]
  BY <1>1 DEF Send
<1>5. sync' \in [Tabs -> Sync]
  BY <1>1 DEF Send, Sync, Phases
<1>6. post' \in [Requests -> Post]
  BY <1>1 DEF Send, Post, Sync
<1>7. TypeOK'
  BY <1>1, <1>2, <1>3, <1>5, <1>6 DEF TypeOK
<1>8. OnlyQueued'
  <2>1. \A m \in Requests : post'[m].batch \subseteq queued
    BY <1>1, <1>4 DEF OnlyQueued
  <2>2. QED
    BY <1>1, <1>2, <2>1 DEF OnlyQueued, RowsOf
<1>9. (SyncedIsStored /\ CopiesTrue)'
  BY <1>1, <1>2 DEF SyncedIsStored, CopiesTrue
<1>10. Waits'
  <2> SUFFICES ASSUME NEW u \in Tabs, sync'[u].phase = "waiting"
               PROVE  /\ sync'[u].request \in Requests
                      /\ post'[sync'[u].request].state # "unsent"
                      /\ post'[sync'[u].request].batch = sync'[u].batch
    BY DEF Waits
  <2>1. CASE u = t
    BY <1>2, <1>3, <1>4, <2>1
  <2>2. CASE u # t
    BY <1>1, <1>2, <1>4, <2>2 DEF Waits
  <2>3. QED
    BY <2>1, <2>2
<1>11. AnsweredIsStored'
  BY <1>1, <1>4 DEF AnsweredIsStored
<1>12. QED
  BY <1>7, <1>8, <1>9, <1>10, <1>11 DEF OfflineInv

\* Settling with rows of the right type, of which those that say synced are stored.
LEMMA SettleKeeps ==
  ASSUME OfflineInv, NEW t \in Tabs, NEW target \in [Snapshots -> Row], Settle(t, target),
         \A s \in Snapshots : target[s] = "synced" => events[s] > 0,
         UNCHANGED <<queue, events, queued>>, post' \in [Requests -> Post],
         \A n \in Requests :
           /\ post'[n].batch = post[n].batch
           /\ post'[n].state = post[n].state \/ post'[n].state = "ended"
  PROVE  OfflineInv'
<1>1. /\ TypeOK /\ OnlyQueued /\ SyncedIsStored /\ CopiesTrue /\ Waits /\ AnsweredIsStored
      /\ sync \in [Tabs -> Sync] /\ sync[t] \in Sync
  BY DEF OfflineInv, TypeOK
<1>2. /\ \A u \in Tabs : sync'[u].copy = sync[u].copy /\ sync'[u].batch = sync[u].batch
      /\ \A u \in Tabs \ {t} : sync'[u] = sync[u]
      /\ sync'[t].target = target /\ sync'[t].todo = RowsOf(sync[t].copy)
      /\ sync'[t].phase = "settling"
  BY <1>1 DEF Settle, Sync
<1>3. RowsOf(sync[t].copy) \in SUBSET Snapshots
  BY DEF RowsOf
<1>4. sync' \in [Tabs -> Sync]
  BY <1>1, <1>3 DEF Settle, Sync, Phases
<1>5. TypeOK'
  BY <1>1, <1>2, <1>4 DEF TypeOK
<1>6. OnlyQueued'
  <2>1. \A u \in Tabs : sync'[u].todo \subseteq RowsOf(sync'[u].copy)
    BY <1>1, <1>2 DEF OnlyQueued
  <2>2. QED
    BY <1>1, <1>2, <2>1 DEF OnlyQueued, RowsOf
<1>7. (SyncedIsStored /\ CopiesTrue)'
  <2>1. \A u \in Tabs : \A s \in Snapshots : sync'[u].target[s] = "synced" => events[s] > 0
    BY <1>1, <1>2 DEF CopiesTrue
  <2>2. QED
    BY <1>1, <1>2, <2>1 DEF SyncedIsStored, CopiesTrue
<1>8. Waits'
  <2> SUFFICES ASSUME NEW u \in Tabs, sync'[u].phase = "waiting"
               PROVE  /\ sync'[u].request \in Requests
                      /\ post'[sync'[u].request].state # "unsent"
                      /\ post'[sync'[u].request].batch = sync'[u].batch
    BY DEF Waits
  <2>1. sync'[u] = sync[u]
    BY <1>2
  <2>2. QED
    BY <1>1, <2>1 DEF Waits
<1>9. AnsweredIsStored'
  BY <1>1 DEF AnsweredIsStored
<1>10. QED
  BY <1>5, <1>6, <1>7, <1>8, <1>9 DEF OfflineInv

LEMMA AnswerKeeps ==
  ASSUME OfflineInv, NEW t \in Tabs, AnswerArrives(t) \/ AnswerLost(t) PROVE OfflineInv'
<1> DEFINE copy == sync[t].copy
           batch == sync[t].batch
<1>1. copy \in [Snapshots -> Row] /\ batch \in SUBSET Snapshots /\ post \in [Requests -> Post]
  BY DEF OfflineInv, TypeOK, Sync
<1>2. \A s \in Snapshots : copy[s] = "synced" => events[s] > 0
  BY DEF OfflineInv, CopiesTrue
<1>3. CASE AnswerArrives(t)
  <2>1. sync[t].request \in Requests /\ post[sync[t].request].state = "stored"
    BY <1>3 DEF AnswerArrives, OfflineInv, Waits
  <2>2. \A s \in batch : events[s] > 0
    BY <2>1, <1>3 DEF AnswerArrives, OfflineInv, Waits, AnsweredIsStored
  <2>3. \A s \in Snapshots : Accepted(copy, batch)[s] = "synced" => events[s] > 0
    BY <1>1, <1>2, <2>2, AcceptedRows
  <2>4. /\ post' \in [Requests -> Post]
        /\ \A n \in Requests :
             /\ post'[n].batch = post[n].batch
             /\ post'[n].state = post[n].state \/ post'[n].state = "ended"
    BY <1>1, <1>3, <2>1 DEF AnswerArrives, Post
  <2>5. QED
    BY <1>1, <1>3, <2>3, <2>4, AcceptedRows, SettleKeeps DEF AnswerArrives
<1>4. CASE AnswerLost(t)
  <2>1. \A s \in Snapshots : Rejected(copy, batch)[s] = "synced" => events[s] > 0
    BY <1>1, <1>2, RejectedRows
  <2>2. QED
    BY <1>1, <1>4, <2>1, RejectedRows, SettleKeeps DEF AnswerLost
<1>5. QED
  BY <1>3, <1>4

LEMMA IdleKeeps ==
  ASSUME OfflineInv, NEW t \in Tabs, Finish(t) \/ CloseTab(t) PROVE OfflineInv'
<1> USE DEF Finish, CloseTab, OfflineInv
<1>1. sync \in [Tabs -> Sync]
  BY DEF TypeOK
<1>2. \A u \in Tabs : sync'[u] = IF u = t THEN NoSync ELSE sync[u]
  BY <1>1
<1>3. sync' \in [Tabs -> Sync]
  BY <1>1, NoSyncTyped
<1>4. TypeOK'
  BY <1>2, <1>3, NoSyncHarmless DEF TypeOK
<1>5. OnlyQueued'
  BY <1>2, NoSyncHarmless DEF OnlyQueued, RowsOf
<1>6. (SyncedIsStored /\ CopiesTrue)'
  BY <1>2, NoSyncHarmless DEF SyncedIsStored, CopiesTrue, Absent
<1>7. (Waits /\ AnsweredIsStored)'
  BY <1>2, NoSyncHarmless DEF Waits, AnsweredIsStored
<1>8. QED
  BY <1>4, <1>5, <1>6, <1>7

LEMMA StoreKeeps ==
  ASSUME OfflineInv, NEW n \in Requests, StoreBatch(n) PROVE OfflineInv'
<1> USE DEF StoreBatch, OfflineInv
<1>1. events \in [Snapshots -> Nat] /\ post \in [Requests -> Post] /\ post[n].batch \in SUBSET Snapshots
  BY DEF TypeOK, Post
<1>2. /\ events' \in [Snapshots -> Nat]
      /\ \A s \in Snapshots : events[s] > 0 \/ s \in post[n].batch => events'[s] > 0
  BY <1>1 DEF Stored
<1>3. \A m \in Requests : /\ post'[m].batch = post[m].batch
                          /\ post'[m].state = IF m = n THEN "stored" ELSE post[m].state
  BY <1>1 DEF Post
<1>4. post' \in [Requests -> Post]
  BY <1>1 DEF Post
<1>5. TypeOK'
  BY <1>2, <1>4 DEF TypeOK
<1>6. OnlyQueued'
  BY <1>3 DEF OnlyQueued, RowsOf
<1>7. (SyncedIsStored /\ CopiesTrue)'
  BY <1>2 DEF SyncedIsStored, CopiesTrue
<1>8. Waits'
  BY <1>3 DEF Waits
<1>9. AnsweredIsStored'
  <2>1. \A m \in Requests : post[m].batch \subseteq Snapshots
    BY <1>1 DEF Post
  <2>2. QED
    BY <1>2, <1>3, <2>1 DEF AnsweredIsStored
<1>10. QED
  BY <1>5, <1>6, <1>7, <1>8, <1>9

LEMMA LoseKeeps ==
  ASSUME OfflineInv, NEW n \in Requests, LoseBatch(n) PROVE OfflineInv'
<1> USE DEF LoseBatch, OfflineInv
<1>1. post \in [Requests -> Post]
  BY DEF TypeOK
<1>2. \A m \in Requests : /\ post'[m].batch = post[m].batch
                          /\ post'[m].state = IF m = n THEN "ended" ELSE post[m].state
  BY <1>1 DEF Post
<1>3. TypeOK'
  BY <1>1 DEF TypeOK, Post
<1>4. OnlyQueued'
  BY <1>2 DEF OnlyQueued, RowsOf
<1>5. (SyncedIsStored /\ CopiesTrue /\ Waits /\ AnsweredIsStored)'
  BY <1>2 DEF SyncedIsStored, CopiesTrue, Waits, AnsweredIsStored
<1>6. QED
  BY <1>3, <1>4, <1>5

LEMMA ClearKeeps ==
  ASSUME OfflineInv, ClearQueue PROVE OfflineInv'
<1> USE DEF ClearQueue, OfflineInv
<1>1. TypeOK'
  BY DEF TypeOK, NoRows, Row
<1>2. OnlyQueued'
  BY DEF OnlyQueued, NoRows, RowsOf
<1>3. SyncedIsStored'
  BY DEF SyncedIsStored, NoRows, Absent
<1>4. (CopiesTrue /\ Waits /\ AnsweredIsStored)'
  BY DEF CopiesTrue, Waits, AnsweredIsStored
<1>5. QED
  BY <1>1, <1>2, <1>3, <1>4

LEMMA NextKeeps == OfflineInv /\ [Next]_vars => OfflineInv'
<1> SUFFICES ASSUME OfflineInv, [Next]_vars PROVE OfflineInv'
  OBVIOUS
<1>1. ASSUME NEW t \in Tabs, Step(t) PROVE OfflineInv'
  BY <1>1, ReadKeeps, WriteKeeps, SendKeeps, AnswerKeeps, IdleKeeps DEF Step
<1>2. CASE UNCHANGED vars
  BY <1>2 DEF vars, OfflineInv, TypeOK, OnlyQueued, SyncedIsStored, CopiesTrue, Waits,
              AnsweredIsStored, RowsOf
<1>3. QED
  BY <1>1, <1>2, QueueKeeps, StoreKeeps, LoseKeeps, ClearKeeps DEF Next

\* Whatever tabs do to the queue (lib/offline-sync-store.ts), every copy of it tells the
\* truth about what the server holds.
THEOREM OfflineInvariant == Spec => []OfflineInv
  BY InitInv, NextKeeps, PTL DEF Spec

\* A row that says synced is stored by the server, with any number of tabs, requests and
\* snapshots: syncOfflineOrders marks only ids the server acknowledged.
THEOREM SyncedStored == Spec => []SyncedIsStored
<1>1. OfflineInv => SyncedIsStored
  BY DEF OfflineInv
<1>2. QED
  BY <1>1, OfflineInvariant, PTL

-----------------------------------------------------------------------------
(* The refinement.                                                          *)

LEMMA InitDelivers == Init => Delivery!Init
  BY DEF Init, Delivery!Init

LEMMA StoreDelivers ==
  ASSUME OfflineInv, NEW n \in Requests, StoreBatch(n) PROVE Delivery!Next
<1> DEFINE fresh == {s \in post[n].batch : events[s] = 0}
<1>1. events \in [Snapshots -> Nat] /\ post[n].batch \subseteq Snapshots
  BY DEF OfflineInv, TypeOK, Post
<1>2. fresh \subseteq queued /\ fresh \in SUBSET Snapshots
  BY <1>1 DEF OfflineInv, OnlyQueued
<1>3. events' = [s \in Snapshots |-> IF s \in fresh THEN 1 ELSE events[s]]
  BY <1>1 DEF StoreBatch, Stored
<1>4. Delivery!Store(fresh)
  BY <1>2, <1>3 DEF StoreBatch, Delivery!Store
<1>5. QED
  BY <1>2, <1>4 DEF Delivery!Next

LEMMA NextDelivers ==
  OfflineInv /\ [Next]_vars => [Delivery!Next]_<<queued, events>>
<1> SUFFICES ASSUME OfflineInv, [Next]_vars PROVE [Delivery!Next]_<<queued, events>>
  OBVIOUS
<1>1. ASSUME NEW s \in Snapshots, QueuePayment(s) PROVE Delivery!Next
  BY <1>1 DEF QueuePayment, Delivery!Next, Delivery!Queue
<1>2. ASSUME NEW t \in Tabs, Step(t) PROVE UNCHANGED <<queued, events>>
  BY <1>2 DEF Step, Read, WriteRow, Send, AnswerArrives, AnswerLost, Finish, CloseTab
<1>3. ASSUME NEW n \in Requests, LoseBatch(n) PROVE UNCHANGED <<queued, events>>
  BY <1>3 DEF LoseBatch
<1>4. CASE ClearQueue \/ UNCHANGED vars
  BY <1>4 DEF ClearQueue, vars
<1>5. QED
  BY <1>1, <1>2, <1>3, <1>4, StoreDelivers DEF Next

\* The server stores queued snapshots only, each once, whatever is lost, repeated or
\* late: app/api/offline-sync/route.ts skips the ids it has.
THEOREM DeliveryImplemented == Spec => ImplementsDelivery
  BY OfflineInvariant, InitDelivers, NextDelivers, PTL DEF Spec, ImplementsDelivery, Delivery!Spec

\* Every row, copy and request keeps its type, however tabs are closed and the queue cleared.
THEOREM TypeCorrect == Spec => []TypeOK
<1>1. OfflineInv => TypeOK
  BY DEF OfflineInv
<1>2. QED
  BY <1>1, OfflineInvariant, PTL

-----------------------------------------------------------------------------
(* Tabs that take turns.  A row says syncing only while the synchronisation *)
(* that marked it is under way, and that one writes it again at its end.    *)

AtMostOne == \A t, u \in Tabs : (sync[t].phase # "idle" /\ sync[u].phase # "idle") => t = u

\* No synchronisation has read, or will settle for, a row that says syncing.
CopiesSettled ==
  \A t \in Tabs : \A s \in Snapshots :
    /\ sync[t].copy[s] # "syncing"
    /\ sync[t].phase = "settling" => sync[t].target[s] # "syncing"

\* Whose mark a row carries, and that it is still to be written.
MarksAreOwn ==
  \A s \in Snapshots : queue[s] = "syncing" =>
    \E t \in Tabs :
      /\ sync[t].phase \in {"marking", "waiting", "settling"}
      /\ s \in RowsOf(sync[t].copy)
      /\ sync[t].phase = "settling" => s \in sync[t].todo

TurnInv == alone => AtMostOne /\ CopiesSettled /\ MarksAreOwn

LEMMA InitTurn == HInit => TurnInv
<1> SUFFICES ASSUME HInit PROVE TurnInv
  OBVIOUS
<1>1. \A t \in Tabs : sync[t] = NoSync
  BY DEF HInit, Init
<1>2. NoSync.phase = "idle" /\ \A s \in Snapshots : NoSync.copy[s] # "syncing"
  BY DEF NoSync, NoRows, Absent
<1>3. \A s \in Snapshots : queue[s] # "syncing"
  BY DEF HInit, Init, NoRows, Absent
<1>4. QED
  BY <1>1, <1>2, <1>3 DEF TurnInv, AtMostOne, CopiesSettled, MarksAreOwn

\* The rows of the queue that a step leaves, in a state where the tabs took turns.
LEMMA ReadTurn ==
  ASSUME OfflineInv, AtMostOne, AtMostOne', CopiesSettled, MarksAreOwn, NEW t \in Tabs, Read(t)
  PROVE  (CopiesSettled /\ MarksAreOwn)'
<1>1. sync \in [Tabs -> Sync] /\ queue' = queue
  BY DEF OfflineInv, TypeOK, Read
<1>2. /\ \A u \in Tabs \ {t} : sync'[u] = sync[u]
      /\ sync'[t].phase = "marking" /\ sync'[t].copy = queue
  BY <1>1 DEF Read
<1>3. \A u \in Tabs : sync[u].phase = "idle"
  BY <1>2 DEF AtMostOne, Read
<1>4. \A s \in Snapshots : queue[s] # "syncing"
  BY <1>3 DEF MarksAreOwn
<1>5. QED
  BY <1>1, <1>2, <1>4 DEF CopiesSettled, MarksAreOwn

LEMMA WriteTurn ==
  ASSUME OfflineInv, CopiesSettled, MarksAreOwn, NEW t \in Tabs, NEW s \in Snapshots, WriteRow(t, s)
  PROVE  (CopiesSettled /\ MarksAreOwn)'
<1>1. sync \in [Tabs -> Sync] /\ queue \in [Snapshots -> Row]
  BY DEF OfflineInv, TypeOK
<1>2. \A u \in Tabs :
        /\ sync'[u].phase = sync[u].phase /\ sync'[u].copy = sync[u].copy
        /\ sync'[u].target = sync[u].target
        /\ sync'[u].todo = IF u = t THEN sync[u].todo \ {s} ELSE sync[u].todo
  BY <1>1 DEF WriteRow, Sync
<1>3. \A r \in Snapshots : queue'[r] = IF r = s THEN sync[t].target[s] ELSE queue[r]
  BY <1>1 DEF WriteRow
<1>4. s \in RowsOf(sync[t].copy) /\ sync[t].phase \in {"marking", "settling"}
  BY DEF OfflineInv, OnlyQueued, WriteRow
<1>5. CopiesSettled'
  BY <1>2 DEF CopiesSettled
<1>6. ASSUME NEW r \in Snapshots, queue'[r] = "syncing"
      PROVE  \E u \in Tabs :
               /\ sync'[u].phase \in {"marking", "waiting", "settling"}
               /\ r \in RowsOf(sync'[u].copy)
               /\ sync'[u].phase = "settling" => r \in sync'[u].todo
  <2>1. CASE r = s
    BY <1>2, <1>3, <1>4, <1>6, <2>1 DEF CopiesSettled
  <2>2. CASE r # s
    <3>1. PICK u \in Tabs : /\ sync[u].phase \in {"marking", "waiting", "settling"}
                            /\ r \in RowsOf(sync[u].copy)
                            /\ sync[u].phase = "settling" => r \in sync[u].todo
      BY <1>3, <1>6, <2>2 DEF MarksAreOwn
    <3>2. QED
      BY <1>2, <2>2, <3>1
  <2>3. QED
    BY <2>1, <2>2
<1>7. QED
  BY <1>5, <1>6 DEF MarksAreOwn

\* The request is sent, or answered: the rows stay marked until they are settled.
LEMMA SendTurn ==
  ASSUME OfflineInv, CopiesSettled, MarksAreOwn, NEW t \in Tabs, NEW n \in Requests, Send(t, n)
  PROVE  (CopiesSettled /\ MarksAreOwn)'
<1>1. sync \in [Tabs -> Sync] /\ queue' = queue
  BY DEF OfflineInv, TypeOK, Send
<1>2. \A u \in Tabs :
        /\ sync'[u].copy = sync[u].copy /\ sync'[u].target = sync[u].target
        /\ sync'[u].todo = sync[u].todo
        /\ sync'[u].phase = IF u = t THEN "waiting" ELSE sync[u].phase
  BY <1>1 DEF Send, Sync
<1>3. QED
  BY <1>1, <1>2 DEF CopiesSettled, MarksAreOwn

LEMMA SettleTurn ==
  ASSUME OfflineInv, CopiesSettled, MarksAreOwn, NEW t \in Tabs, AnswerArrives(t) \/ AnswerLost(t)
  PROVE  (CopiesSettled /\ MarksAreOwn)'
<1>1. sync \in [Tabs -> Sync] /\ sync[t] \in Sync /\ queue' = queue
  BY DEF OfflineInv, TypeOK, AnswerArrives, AnswerLost
<1>2. PICK target : /\ Settle(t, target)
                    /\ \A s \in Snapshots : target[s] # "syncing"
  BY <1>1 DEF AnswerArrives, AnswerLost, Accepted, Rejected, CopiesSettled
<1>3. /\ \A u \in Tabs : sync'[u].copy = sync[u].copy
      /\ \A u \in Tabs \ {t} : sync'[u] = sync[u]
      /\ sync'[t].target = target /\ sync'[t].todo = RowsOf(sync[t].copy)
      /\ sync'[t].phase = "settling"
  BY <1>1, <1>2 DEF Settle, Sync
<1>4. CopiesSettled'
  BY <1>2, <1>3 DEF CopiesSettled
<1>5. MarksAreOwn'
  BY <1>1, <1>3 DEF MarksAreOwn
<1>6. QED
  BY <1>4, <1>5

LEMMA FinishTurn ==
  ASSUME OfflineInv, CopiesSettled, MarksAreOwn, NEW t \in Tabs, Finish(t)
  PROVE  (CopiesSettled /\ MarksAreOwn)'
<1>1. sync \in [Tabs -> Sync] /\ queue' = queue
  BY DEF OfflineInv, TypeOK, Finish
<1>2. \A u \in Tabs : sync'[u] = IF u = t THEN NoSync ELSE sync[u]
  BY <1>1 DEF Finish
<1>3. NoSync.phase = "idle" /\ \A s \in Snapshots : NoSync.copy[s] # "syncing"
  BY DEF NoSync, NoRows, Absent
<1>4. CopiesSettled'
  BY <1>2, <1>3 DEF CopiesSettled
<1>5. MarksAreOwn'
  BY <1>1, <1>2 DEF MarksAreOwn, Finish
<1>6. QED
  BY <1>4, <1>5

LEMMA OthersTurn ==
  ASSUME OfflineInv, CopiesSettled, MarksAreOwn, UNCHANGED sync,
         \A s \in Snapshots : queue'[s] = "syncing" => queue[s] = "syncing"
  PROVE  (CopiesSettled /\ MarksAreOwn)'
  BY DEF CopiesSettled, MarksAreOwn

LEMMA NextTurn == OfflineInv /\ TurnInv /\ [HNext]_hvars => TurnInv'
<1> SUFFICES ASSUME OfflineInv, TurnInv, [HNext]_hvars, alone'
             PROVE  AtMostOne' /\ (CopiesSettled /\ MarksAreOwn)'
  BY DEF TurnInv
<1>1. CASE UNCHANGED hvars
  BY <1>1 DEF hvars, TurnInv, AtMostOne, CopiesSettled, MarksAreOwn
<1>2. CASE HNext
  <2>1. alone /\ AtMostOne' /\ \A t \in Tabs : CloseTab(t) => Finish(t)
    BY <1>2 DEF HNext, AtMostOne
  <2>2. AtMostOne /\ CopiesSettled /\ MarksAreOwn
    BY <2>1 DEF TurnInv
  <2>3. ASSUME NEW t \in Tabs, Step(t) PROVE (CopiesSettled /\ MarksAreOwn)'
    BY <2>1, <2>2, <2>3, ReadTurn, WriteTurn, SendTurn, SettleTurn, FinishTurn DEF Step
  <2>4. ASSUME NEW s \in Snapshots, QueuePayment(s) PROVE (CopiesSettled /\ MarksAreOwn)'
    <3>1. \A r \in Snapshots : queue'[r] = "syncing" => queue[r] = "syncing"
      BY <2>4 DEF QueuePayment, OfflineInv, TypeOK
    <3>2. QED
      BY <2>2, <2>4, <3>1, OthersTurn DEF QueuePayment
  <2>5. ASSUME NEW n \in Requests, StoreBatch(n) \/ LoseBatch(n) PROVE (CopiesSettled /\ MarksAreOwn)'
    BY <2>2, <2>5, OthersTurn DEF StoreBatch, LoseBatch
  <2>6. CASE ClearQueue
    BY <2>1, <2>2, <2>6, OthersTurn DEF ClearQueue, NoRows, Absent
  <2>7. QED
    BY <1>2, <2>1, <2>3, <2>4, <2>5, <2>6 DEF HNext, Next
<1>3. QED
  BY <1>1, <1>2

\* Tabs that synchronise one after the other leave nothing behind that the next
\* synchronisation does not send: a mark that its tab did not settle would be such a row.
THEOREM TurnsStrand == HSpec => []TurnsStrandNothing
<1>1. OfflineInv /\ TurnInv => TurnsStrandNothing
  <2> SUFFICES ASSUME OfflineInv, TurnInv, alone, \A t \in Tabs : sync[t].phase = "idle",
                      NEW s \in RowsOf(queue), events[s] = 0
               PROVE  s \in Sendable(queue)
    BY DEF TurnsStrandNothing, NothingStranded
  <2>1. s \in Snapshots /\ queue[s] \in Status
    BY DEF RowsOf, OfflineInv, TypeOK, Row
  <2>2. queue[s] # "syncing"
    BY <2>1 DEF TurnInv, MarksAreOwn
  <2>3. queue[s] # "synced"
    BY <2>1 DEF OfflineInv, SyncedIsStored
  <2>4. QED
    BY <2>1, <2>2, <2>3 DEF Sendable, Status
<1>2. HInit => Init
  BY DEF HInit
<1>3. [HNext]_hvars => [Next]_vars
  BY DEF HNext, hvars, vars
<1>4. QED
  BY <1>1, <1>2, <1>3, InitTurn, NextTurn, InitInv, NextKeeps, PTL DEF HSpec
=============================================================================
