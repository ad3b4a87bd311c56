# Adisyum: verification project

Adisyum is a multi-tenant point-of-sale system for restaurants: a Next.js application
whose API routes work on PostgreSQL through Prisma, browser terminals that keep
optimistic copies of what they work on, and local agents that drive the printers. This
directory holds TLA+ models of it, the TLC configurations that check them on small
instances, and theorems about them that TLAPS checks. `PROJECT.json` maps every
definition to the lines it models and lists runs, mutants, findings, hazards and
theorems.

A component is a module `X` that holds what the code keeps and does. Where a property
needs to know more of the past than the code remembers, `XHistory` extends it with one
history variable and states the property; a history variable restricts no step of `X`.
`MCX` gives the constants their values for TLC, and `XProofs` (for the table-order API
also `LineProofs`) holds the theorems, about `X` and `XHistory` alike.

## 1. Inventory

What keeps state, what changes it, how it is reached, and what makes it correct.

| Component | State | Operations | Hard because | Correct when |
|---|---|---|---|---|
| **Table-order API** `app/api/pos/table-orders/route.ts` | rows `orders`, `order_items`, `payments`, `cash_transactions`, `current_account_movements`; the runtime table state of the branch | add a product, change or remove a line, save, mark as sent, clear a table, pay in part, pay and close, cancel a payment | every terminal of a branch posts to the same tables; READ COMMITTED; the order is read before the transaction; locks taken in different orders; retries with one reconciliation key | a key is charged once; payments never exceed what was ordered; every payment and every void is booked once; a closed order has no lines and takes no payment; no line comes back |
| **Runtime table state** `app/api/runtime/table-state/route.ts`, `lib/table-payment-state.ts` | one JSON row per branch: live totals, requested payments, a version | merge of a client's state, read | second writer of the row the table-order API writes after its commit; versions from client clocks | the stored state converges to the open orders |
| **Runtime state** `lib/client/runtime-state.ts`, `app/api/runtime/state/[scope]/route.ts` | key-value snapshot in every tab, `dirty` and in-flight flags, the time of the last local write, one JSON row per tenant | local write, debounced POST, refresh, bootstrap, broadcast between tabs, clear, change of session | answers that arrive after a newer local write; tabs that broadcast; read-merge-write without a lock; requests that run under the cookie of another session | a recent write is not overwritten and is sent; the table state never goes back; tenants stay apart |
| **Order screen** `components/order-composer.tsx`, `lib/pos-runtime/*`, `lib/pos-order-reconciliation.ts`, `lib/client/authoritative-table-orders.ts` | lines shown per table, the last add, requests in flight | optimistic add, change, remove; save, send, pay; polls every 4 s and on focus, loads | a payload read before a commit arrives after it; a request fails on the screen and succeeds at the server | no old payload takes a pending line away or leaves it for ever; a newer change wins; the screen comes to show what is stored |
| **Offline queue** `lib/offline-sync-store.ts`, `app/api/offline-sync/*` | IndexedDB items with a status, one synchronisation per tab and tenant; server table `offline_events` | queue a payment snapshot, synchronise, clear | several tabs over one database; the queue is written back from an old copy; tab closed on the way; answer lost | every payment snapshot reaches the server, once |
| **Print queue of the browser** `lib/print-resilience-store.ts`, `lib/local-agent.ts` | IndexedDB rows with status, attempts, retry time | queue (with de-duplication), process, reprint, clear | several tabs with old copies; tab closed while printing; time-outs after which a request still arrives | `acked` means accepted; no row is lost before it is accepted |
| **Windows bridge** `tools/adisyum-pos-agent/Program.cs` | jobs in a file, one worker | `POST /print`, batch, retry, trim, restart | repeated requests, printers that throw, a full queue, a restart in the middle of a print | a ticket is printed once; every job is printed, given up or removed |
| **Cloud printing** `app/api/printers/local-agent/print`, `app/api/printers/print-requests`, `apps/desktop/src/main.cjs` | `tenant_print_jobs`; the cycle of the desktop application | submit, list, post to the bridge, report | reports that fail, a desktop that stops, jobs without a request id | what is reported printed was handed to a bridge |
| **Job queue and self-healing** `lib/queue/enterprise-queue.ts`, `lib/self-healing/engine.ts` | in-memory jobs per queue; attempts and cooldown per action | enqueue, process, fail, dead-letter, clean | overflow, retry budget shared with self-healing | no job is lost silently |
| **Sessions** `lib/server/session-revocation.ts`, `lib/server/auth-session-db.ts` | one JSON document of revocations per tenant; session rows | register, revoke session / user / tenant, test | read-modify-write of one document by concurrent requests | a revoked session stays revoked |
| **Everything else** | see `components` in `PROJECT.json`, each with the reason it is not modelled | | | |

How they interact: a terminal applies an operation optimistically and posts it to the
table-order API; the API commits it, reads the open orders back and stores them in the
branch's runtime table state, which all terminals poll; a terminal also polls the
table-order API itself and merges the payload into its optimistic lines. After a
payment a terminal writes its own journal and queues a payment snapshot in the offline
queue. Kitchen and customer tickets go to the print queue of the browser; that sends
each to the bridge of the machine or, where it cannot be reached, to the server, from
where the desktop application of a machine fetches it for its bridge. The runtime state
store carries the remaining screens' data between tabs and server.

The hazards of this code are listed at their lines in `PROJECT.json`.

## 2. Plan

1. `TableOrders` (done): the table-order API, because money goes through it and
   every other component only copies what it stores. Abstract specification:
   `PaymentLedger`.
2. `OfflineSync` (done): tabs, IndexedDB and event store. Abstract specification:
   `SnapshotDelivery`.
3. `PrintQueue`, `PrintBridge`, `CloudPrint` and their composition `PrintPipeline`
   (done): a receipt from the queue of the browser to the paper.
4. `RuntimeState` (done): the client store with its debounce, grace window and
   broadcasts, and the server's read-merge-upsert.
5. `OrderTerminal` (done): a table on the order screen over an abstract version of the
   table-order API: optimistic lines, answers, polls, loads.
6. Next, `SessionRevocation` (one JSON document rewritten without a lock) and `JobQueue`
   with the self-healing engine.
7. Proofs (done for every invariant that a run checks and expects to hold): type
   correctness, the safety invariants, the action properties and the two refinements.
   Next, the action properties and invariants of the modules of 6.

Which of a module's operations are real depends on what still calls them.
`PRODUCT_RECOVERY_MINIMAL_RUNTIME` in `components/providers/app-runtime-provider.tsx`
turns most of the periodic client loops off, the automatic synchronisation of the
offline queue among them. Nothing calls the reconciliation loop
`startAuthoritativeRuntimeSync`; `components/order-composer.tsx` polls on its own, every
four seconds and on focus.

## 3. Module `TableOrders`

**State.** `order`, `items`, `payments`, `cash`, `movements` are the tables of the
database as committed. `runtime` is the set of lines stored in the branch's runtime
table state. `pc[r]` is the statement request `r` runs next, `req[r]` its body and the
order row it read before its transaction, `work[r]` what its transaction read and wrote
without having committed it. There is one `orders` row per table: the route derives the
order number from the table (`tableOrderNo`) and upserts it, so the row lives through
all sittings of the table, and the model keeps that.

**Steps.** A transaction is cut wherever another request can commit in between. Prisma's
interactive transactions run at READ COMMITTED: each statement sees what was committed
when it started plus the transaction's own writes. The last statement of every
transaction is the update of the order row, so that statement and the commit are one
step; the writes before it wait in `work[r]`, and the locks they hold are derived from
`pc` (`LineHolders`, `AdvisoryHolders`, `HoldsOrderRow`).

| Operation | Actions, in order |
|---|---|
| `add_item` | `ReceiveAdd`, `AddUpsert` (upsert locks the order row; search for a matching line), `AddCommit` |
| `update_line_quantity`, `remove_line` | `ReceiveLine`, `LineFind`, `LineWrite` or `LineGone` (P2025), `LineCommit` |
| `mark_order_sent`, `save_order` | `ReceiveSave`, `SentFind`, `SentWrite` or `SentGone`, `SentCommit`; `SaveCommit` |
| `clear_table`, `delete_table` | `ReceiveClear`, `ClearLock`, `ClearCommit`, `Reload`, `Persist` |
| `add_partial_payment`, `finalize_payment`, `close_table_payment` | `ReceivePayment`, `PayDuplicate` / `PayRefused` / `PayCharge`, `PayLoad`, `PayScan` (the rows the DELETE sees), `PayCommit` or `PayConflict`, `Reload`, `Persist` |
| `cancel_partial_payment` | `ReceiveCancel`, `CancelRefused` / `CancelFind`, `CancelCommit`, `Reload`, `Persist` |
| any | `Fail` (statement error, transaction time-out, server stop), `DeadlockVictim` (PostgreSQL aborts one of two transactions that wait for each other) |

**Abstractions.** A product stands for a line's signature (product, price, note,
options): lines are merged exactly when it is equal. Amounts are integers. The key of a
payment is an opaque value. A request is served once; a retry is another request with
the same key. Rows a request inserts are named after it, which the code's random UUIDs
justify. Two upserts that both insert the same order row (P2002) and a deadlock that
involves the DELETE of a clearing are covered by `Fail`: the transaction ends without
effect. `LineWrite` merges the update of a line with the read of its siblings that
follows it at once, `ClearCommit` and `PayCommit` the DELETE with the order's update: the
DELETE only takes rows seen before (`PayScan`, `ClearLock`), so what another request
adds in between is kept, as in the database. `discount` and `subtotal` are kept because
`loadPaymentState` falls back on them when a table has no lines.

`PaymentLedger` is what the payment endpoint promises a terminal: a ledger of charges,
each for a positive amount, at most one per table and key, never changed except by
being voided as a whole. `TableOrders!Ledger` maps it to the `payments` rows that are
`paid`.

## 4. Runs

`TableOrdersHistory` extends `TableOrders` with a history variable that no code keeps:
`ordered`, what was ever put on a table, in money. It starts at the value of the lines
that are there, and a step that raises the value of a table's lines adds the difference;
a line that is removed, cleared or paid for takes nothing back. All runs start with one tea (price 2)
on the table, so that a payment, a change and a removal are possible at once.

| Run | Instance | Shows |
|---|---|---|
| `all` | 3 requests of any kind, 1 table, 1 product, quantities 0-1, 2 keys, cash and mixed payments, 1 account | `TypeOK`; `PaymentsReadAreCurrent`: between reading the payments and committing, no other request changes them; `OnePaymentPerKey`; `OneLinePerProduct`; `OnlyAddsCreateLines`: a removed line does not come back; `CollectedWithinOrdered`: over all sittings a table never pays more than was ordered at it; `LedgersFollowPayments`: a payment's cash and account parts are booked once each, and exactly a voided one is taken out of the drawer, once, at its stored cash amount; `ImplementsLedger` |
| `answered` | 3 of add, line, sent, close, under `Fairness` | `RequestsAnswered`: no wait for a lock lasts for ever |
| `closed_charge` | 2 closing payments, 2 keys | violates `ClosedOrderTakesNoPayment` |
| `void_account` | a partial payment on account, its cancellation | violates `VoidsReverseCharges`: the account keeps the charge of a voided payment |

The violations are explained under `findings` in `PROJECT.json`, with the lines of the
repository they contradict. Three more interleavings have the cause of `closed_charge`
and no run of their own: what `add_item` commits after a closing payment deleted the lines (route.ts
1350) stays on the closed order, where no screen shows it; `remove_line` closes an order
from a read that an add outdates (1053-1070); and `cancel_partial_payment` voids a
payment of an order that was closed after its status was read (1118). All three are
behaviours of the model.

**What the ledgers agree on.** `LedgersFollowPayments` says what the code does on both
sides of a payment, and no more. A void takes out of the drawer the cash amount that was
stored with the payment (`StoredCash`), exactly once; that is the amount the terminal
sent, before the charge was capped to what was left of the bill, and so it may be more
than the payment put in. The parts of a capped mixed payment may likewise add up to more
than the charge. On the account a void writes nothing: the update of the payment
replaces its metadata, and the account is looked up in the new one (1153-1184). That half
of a cancellation is `VoidsReverseCharges`, which the docs promise and `void_account` refutes.

**Bounds.** Three requests are enough for each of these properties to be at stake: every
mutant of these modules - a lock not waited for, or released early, a sum that ignores
status - is found with two or three. Three is also what a duplicate, a cancellation and
a third payment need, and what a circle of waiting transactions needs on one table. One
product and one price are enough, since no property compares two bills. Quantities 0 and
1 let lines be removed, kept and merged up to 4. `CHECK_DEADLOCK FALSE`: every request is
served once, so every run ends. `SYMMETRY` permutes the requests, which no definition
tells apart; it is not used where liveness is checked.

**Fairness.** `Fairness` is weak fairness of `Progress(r)` and `DeadlockVictim(r)`: a
request that arrived keeps running because Node and PostgreSQL do, and PostgreSQL's
deadlock detector ends every circle of waits. Nothing makes a terminal send a request,
and `Fail` is never required to happen nor excluded.

## 5. Module `OfflineSync`

**State.** `queue[s]` is the status of the row of snapshot `s` in the IndexedDB database
that the tabs of a browser share, or `"absent"`; `sync[t]` the locals of the
`syncOfflineOrders` under way in tab `t` (`activeSyncs` allows one per tab, and other
tabs do not see it); `post[n]` the n-th POST, which lives on when its tab is closed;
`events[s]` counts the `offline_events` rows of `s` on the server.

**Steps.** A synchronisation is cut at its awaits: `Read` takes the whole queue,
`WriteRow` puts one row (each has a transaction of its own, and `Promise.all` orders
nothing), `Send` posts the batch, `AnswerArrives` or `AnswerLost` chooses the second set
of rows, `WriteRow` puts them, `Finish` ends. Both passes write every row that was READ,
not only those of the batch; `Marked`, `Accepted` and `Rejected` are the three arrays.
On the server `StoreBatch` commits `createMany` with `skipDuplicates` over the unique
index of `offline_events`, `LoseBatch` loses or rolls back the request, and either may
come after its tab gave up. `CloseTab` and `ClearQueue` are the `Disturbances` a run
allows. Only `queueOfflinePaymentSnapshot` is called by the application, each time with
a new id, so `QueuePayment` happens once per snapshot.

`SnapshotDelivery` is what a cashier is promised: what is queued may be stored, once, and
nothing else is. `OfflineSync!Delivery` maps it to `queued` and `events`.

| Run | Instance | Shows |
|---|---|---|
| `tabs` | 2 tabs, 2 snapshots, 3 POSTs, tabs closed, queue cleared | `TypeOK`; `TurnsStrandNothing`: tabs that take turns leave nothing that no synchronisation would send; `SyncedIsStored`: no row says synced without the server holding it, although rows are written from stale copies; `ImplementsDelivery` |

`OfflineSyncHistory` adds the history variable `alone`: no tab was closed while it
synchronised, and no two synchronised at once. `NothingStranded` (between
synchronisations, every snapshot the server lacks is one the next synchronisation sends)
holds under it and not without: a tab that is closed leaves its rows `syncing`, which no
synchronisation selects, and a tab that read a row while another one was sending it
writes `syncing` back after the other settled it as failed. And the second write-back
puts every row it read, so a queue that is cleared in between (at logout, for instance)
is back afterwards.

`Requests` bounds the POSTs: three allow a lost one, its repetition by either tab, and a
late one. `CHECK_DEADLOCK FALSE`: the instance ends when they are used up. No fairness is
assumed and no liveness stated: the automatic synchronisation
(`app-runtime-provider.tsx`) is switched off by `PRODUCT_RECOVERY_MINIMAL_RUNTIME`, so
only a cashier's click starts one; `TurnsStrandNothing` says instead that a click
suffices.

## 6. Modules `PrintQueue`, `PrintBridge`, `CloudPrint` and `PrintPipeline`

A receipt is a row of the browser's queue. A tab that processes the queue sends it to the
bridge of its machine under the row's id, at one address after the other, and the last
one is the server, which keeps a job for the desktop application of some machine. That
application posts it to its own bridge, without an id. `PrintPipeline` composes the
three modules; a step of it is a step of one part or hands a ticket over.

| Module | State | Actions and code |
|---|---|---|
| `PrintQueue` | `rows` in IndexedDB; `call`, a `queuePrintJob` between its search for a duplicate and its write; `run[t]`, the processing of tab `t` with the copy it read; `late`, requests given up that may still arrive; `accepted`, a history | `QueueRead`, `QueueWrite` (`queuePrintJob`); `Process`; `Reprint`; `ReadRows`, `NextChunk`, `Mark`, `GiveUp`, `BadAnswer`, `WriteOutcome`, `Finish`, `End` (`processPrintQueue`, cut at its awaits); `Deliver` and `DeliverLate` (`fetchFromLocalAgent`); `ClearAcked`; `CloseTab`; `RetryDue` and `AckAges` (time) |
| `PrintBridge` | `jobs`, the file; `worker`, the batch it is at; `paper`, how often a ticket came out; `excused`, tickets that nothing is promised of | `Enqueue` (`POST /print`); `TakeBatch`, `StartPrint`, `PrintTicket`, `RecordAck`, `PrintThrows`, `Trim` (`ProcessBatch`, `TryPrint`); `RetryDue`; `Restart` |
| `CloudPrint` | `cloud`, `tenant_print_jobs`; `poll`, the cycle of the desktop; `sent`, a history | `Submit` (POST); `ReadJobs`, `MarkPrinting`, `SendToBridge`, `SendFails`, `ReportPrinted`, `ReportFailed`, `EndCycle` (the cycle); `StopDesktop` |
| `PrintPipeline` | all of these | `PrintDirectly` = `Deliver` and `Enqueue`; `PrintByServer` = `Deliver` and `Submit`; `ArriveLate` = `DeliverLate` and one of the two; `Forward` = `SendToBridge` and `Enqueue` |

A processing takes at most `MaxBatch` of the ready rows it read, prints them in chunks,
deletes the acked rows beyond the history and is then `"ending"`: it writes the meta row
and reads a summary, and until that is over a tab that is asked for another processing
joins this one, which reads no rows any more (print-resilience-store.ts 529-540, 637-641).
One that found nothing goes there at once. So a job queued at such a moment, like one
beyond the batch, stays until the next processing. An answer that is `ok: false` or no
JSON ends the attempt without another route (`BadAnswer`, local-agent.ts 364-378).
IndexedDB may refuse a write or a read, and the code goes on (`"storage"`): a row is not
stored at all, or its status stays as it was.

**Abstractions.** A key stands for what, order and printer of a receipt; a time is
whether it has passed (`later`, `recent`, `wait`). Which of the ready rows a batch takes,
the code decides by
their last change, the latest first (177); here it is any choice. A request takes effect at one moment
and its answer may be lost (`GiveUp` of a job that is `"taken"`); a request that was
given up may take effect later, at a bridge or at the server. All tickets are for one
printer, so the dedupe key of a job without a request id is one value. Everything that
happens in the bridge under its lock, the file included, is one step; a stop while the
file is written leaves it unreadable and empties the queue (`"corrupt"`). A printer may
throw before or after the paper came out. In `CloudPrint` a report that fails may have
been stored.

| Run | Instance | Shows |
|---|---|---|
| `print_queue` | 2 jobs, 1 key, 2 tabs, 2 attempts, 2 routes, batches and chunks of 1, a history of 1 acked row, every disturbance | `TypeOK`; `AckedIsAccepted`: no copy makes a row `acked` that no bridge took; `RowsKeptUntilAccepted`: no clearing, history limit or copy loses a stored row before; `NothingStrands`: no row gets out of reach of the processings to come; no deadlock |
| `bridge` | 2 tickets, 3 jobs, 2 attempts, batches of 2, 2 jobs kept, 1 restart, under `FairSpec` | `TypeOK`; `PrintedOnce`; `JobsSettle`: every job is printed, dead, removed or was interrupted by a stop |
| `print_pipeline` | 1 row, 1 key, 1 tab, 1 attempt, 2 routes (bridge, server), 2 jobs with 2 attempts, 1 job kept, 1 restart, 1 cloud job | `TypeOK`; `AckedIsHandedOn`: what a tab calls acked has a job at the bridge or the server; `PrintedWasSent`: what the server calls printed a bridge took |
| `print_cloud` | 2 receipts through the server | violates `PrintedWasQueued`: without a request id the second is a duplicate of the first (see `findings`) |

`PrintQueueHistory` adds the history variable `orderly`: no tab was closed, and no write of
a row that is being printed failed. Queuing offline, in a tab whose processing has read
its rows already, beyond the batch, and processing in several tabs at once are all
orderly. Then every row that is not acked is either being printed by a tab or ready for a
processing: for any if it is pending, for a forced one otherwise (`NothingStrands`). Without
it this does not hold, which is a hazard of this code: a tab that is closed, or a failed
write of the outcome, leaves a row `printing`, which no processing selects. That a
processing follows is not promised, and the code does not see to it: the heartbeats that
would are off (`PRODUCT_RECOVERY_MINIMAL_RUNTIME`, app-runtime-provider.tsx 21), so it
takes another print, a printer that is found again or a click. Nor is it that the batch
has room: rows that used up their attempts stay ready for ever (585) and can fill it.

**Bounds.** Two tabs are what a stale copy needs; one key makes the two rows
duplicates; batches of one leave the second row behind; two attempts are one retry and
the last one; two routes let a request that timed out at the first arrive beside the second. Two jobs kept of three make the
bridge remove one that was not printed, two tickets let one overtake the other, and
batches of two leave the third behind. In the pipeline one receipt is enough for what it
promises - that the bridge prints a ticket once is shown in `bridge` and not repeated -: the two routes, the repetition, the late request and the restart meet in it.

**Fairness.** In `bridge`: weak fairness of `WorkerStep` (a loop that sleeps at most 1.5 s)
and of `RetryDue` (time passes). Nobody is forced to send tickets, and a printer may throw
every time. The queue of the browser has no fairness: no timer processes it.

## 7. Module `RuntimeState`

**State.** `tab[t]` are the module variables of the scope `tenant` in tab `t`: the tenant
it works for, its copy of the keys, `dirty`, the save timer (`flush`), a save under way
(`saving`), a write less than eight seconds old (`recent`), and the lock after a 401
(`locked`). `call[c]` is a request, `mail[t]` the broadcasts `t` has not read, `row[u]` the
stored payload of tenant `u`, `session` the cookie all tabs share. Values are numbered in
the order they were written, `made[n]` remembers for whom.

| Operation | Actions |
|---|---|
| `writeRuntimeItem` | `Write`: the copy, the grace, the broadcast, and the timer if it is to be saved |
| `persistRuntimeScope` | `Save` (by the timer, or at once), `SaveAnswered`, `Fail`; `TimerStopped` when locked |
| `bootstrapRuntimeScope`, `refreshRuntimeScope` | `Bootstrap`, `Refresh`, `LoadAnswered`, `Fail` |
| broadcast between tabs | `Hear` (`Broadcast` is part of `Write`, `Clear` and of taking over an answer) |
| `clearRuntimeScope` and the provider at a change of session | `Clear`; `SignOut`, `SignIn`; `Login` in another page; `Unlock` |
| GET, POST, DELETE of the route | `Read` and `Prune`; `Read` and `Upsert`; `Delete`: the row that was read is written after other requests ran |

**Abstractions.** The version of the table state is its number, since a terminal stamps
it with its clock when it writes; `TableKeys` share one version and are at most one key
here. A tenant has one branch. A broadcast reaches any subset of the other tabs of the
tenant, since a tab opens its channel with its own first broadcast. The metadata of a row is the tenant it
names; `PostedSchema` and `ServerSchema` are what the client sends and what the route's
guard asks for: they differ, so a POST is answered ok and what it carried is not kept
(`Incoming`; route.ts 105-117, runtime-state.ts 254-283). A forced refresh always keeps
the domain keys the tab has: these are two options of `refreshRuntimeScope` (594), and its
only caller that forces passes both. Requests run under the cookie at the moment the server reads it, not under
the one at which they were made.

| Run | Instance | Shows |
|---|---|---|
| `runtime_tabs` | 2 tabs, 1 tenant, 1 table key, 1 request at a time, 2 writes, 1 broadcast unread, failures, clearing | `RecentWritesStay`: no answer or broadcast overwrites a recent write; `TableNeverOlder`; `UnsentIsScheduled` (with `unsent` of `RuntimeStateHistory`): a value written to be saved is posted or has its timer |
| `runtime_tenants` | 2 tabs, 2 tenants, 1 plain key, 2 requests, 1 write, failures, changes of session | `TypeOK`; `TenantsApart`: no tab shows and no row holds a value written for another tenant |

**Bounds.** The two questions need different instances: the order of writes needs two
values of one key, two tabs and one tenant; the tenants need one value, a change of
session and two requests, one of each session. A broadcast not yet read is enough to be
overtaken by an answer. No fairness: a failed save is not tried again, and an answered
one is not kept, so nothing can be promised to arrive; `UnsentIsScheduled` ends at the
POST. Since nothing posted is kept, the half of `TenantsApart` that speaks of rows
concerns what the server has stored otherwise and rewrites; the half about tabs does not
depend on it.

## 8. Module `OrderTerminal`

**State.** One table of the order screen: `screen` are its lines in `ordersByTable` of the
page, `db` those of the open order at the server, `active` whether the table is the
selected one, `guard` the age of the last add there (`orderMutationGuardRef`), `click[m]`
the `m`-th request with what it asked for and what its answer holds, `get` the GET under
way. A line knows the request that made it (`id`) and the one that changed it last (`by`,
its `clientMutationId`); an optimistic line is that of an add.

| Operation | Actions |
|---|---|
| `addProductToOrder`, the product card | `Add`, then `Answered` or `Refuse`/`GiveUp` with `RolledBack` |
| `changeLineQuantity` with `persistLineMutation`, one more or one less | `Change` (while a change of the line is under way the screen changes and nothing is sent), `Answered`, `Refuse`, `GiveUp` |
| `sendOrder`, payments | `SendOrPay`, `Answered` (the answer replaces the screen) |
| polls, loads, selecting a table | `ReadLines`, `PollAnswered`, `LoadAnswered`, `GetFails`; `Select` |
| the server, for this terminal and others | `Commit`, then `ReadBack`; `Other` |
| `mergeAuthoritativeOrders` | `Merge` with `Kept` and `Surviving` |

**Abstractions.** The inside of a request is `TableOrders`; here it commits in one step
and reads back in another, between which others commit. A product stands for what makes
two lines equal at the server; `SharedKeys` are those whose id is the same on the screen
and at the server, where the merge also compares product and quantity. `undoLastAction`,
`startRepeatAction`, `returnLine` and `removeLine` are defined and called by nothing (the
buttons call `changeLineQuantity`, 4895 and 4903) and are left out, as are moving, merging
and splitting tables, which change the screen only. One GET is under
way at a time: two polls share one, and a poll that runs beside a load of the page reads
the same lines. A connection that breaks may leave the request to the server (`lost`).

| Run | Instance | Shows |
|---|---|---|
| `terminal` | 2 clicks, 1 product, quantities up to 2, 1 request of another terminal, failures, another table selected | `TypeOK`; `PendingLineStays`: no answer, poll or load takes the line of a pending add away but for a line of the server that is its own or looks the same, or when a request to send or pay replaces the screen; `GhostsWereOvertaken`: an optimistic line that is answered or failed is gone, unless its row was changed before its answer was read; `NewerChangeStays`: an older change of a line is not applied after a newer one; `ScreenCatchesUp` |

`OrderTerminalHistory` adds the history variable `overtaken` for `GhostsWereOvertaken`. It is
needed: two quick adds of one product, whose answers are both read after the second
committed, leave the first optimistic line on the screen, because the row now carries the
second's `clientMutationId` (route.ts 2021) and another quantity. A later payload does
not remove it.

**Bounds.** Two clicks are what two adds of one product, two changes of one line, or a
change and a payment need; the other terminal comes in between; polls and loads are not
bounded. **Fairness.** `ScreenCatchesUp` needs that the page polls (every four seconds, as
long as it is open) and that its polls do not fail for ever: weak fairness of `ReadLines`,
strong of `PollAnswered`. It excepts a table that has no lines at the server: an empty
payload never empties the selected table. It compares the lines that are not optimistic;
which optimistic ones may stay, `GhostsWereOvertaken` says. A click on a line whose change is
under way changes the screen and sends nothing: what it showed is taken back by the next
payload, and the screen then agrees with the server, not with the cashier.

## 9. Proofs

TLAPS checks these for every number of requests, tables, tabs, keys and so on, from the
assumptions on the constants of each module only (`ConstantsAssumption` and
`SeedAssumption`, `QueueAssumption`, `BridgeAssumption`, `PipelineAssumption`,
`RuntimeAssumption`, `TerminalAssumption`). `SeedAssumption` says that a table starts
with finitely many lines: without it a bill would be a sum over an infinite set.

| Module | Theorem | Argument |
|---|---|---|
| `TableOrdersProofs` | `TypeCorrect`: `Spec => []TypeOK` | `TypeOK` is inductive once it says which kind of request runs which step (`StepOK`): that is what gives `req[r].order` or `req[r].offer` a meaning at a step. One lemma per action; sums are integers by `decimalToNumber`. |
| `TableOrdersProofs` | `OnePayment`, `ReadsAreCurrent`, `LedgerImplemented` | `PaymentInv`: at most one request is past the advisory lock of an order and not yet committed (`AdvisoryExclusive`); what it read of the payments is still current (`ReadCurrent`); so a key found free stays free until the payment is inserted. The refinement follows step by step: `PayCommit` is `Record`, `CancelCommit` is `Void`, all others stutter. |
| `TableOrdersProofs` | `LedgersFollowed` | `LedgerInv`: a payment is the one of its id (`PaymentIdsUnique`), has the entries its method asks for (`PaymentBooked`), and is taken out of the drawer at its stored amount exactly when it is voided (`VoidBooked`); an entry is of a payment, and its id says which request wrote it (`CashBooked`, `MovementBooked`); what is taken out of a payment is one row (`VoidedOnce`, from `AdvisoryExclusive`). |
| `LineProofs` | `OneLine`, `LinesComeFromAdds` | `LineInv`: a line id is unique and, once inserted, belongs to a request that is done; every id a request remembers is known, or was, and of its table; at most one add holds an order row, and a line is held by one request. An add that found no matching line is the only one that can insert one before it commits. |
| `LineProofs` | `Collected` | `CollectedInv`: see below. |
| `OfflineSyncProofs` | `SyncedStored`, `DeliveryImplemented`, `TypeCorrect` | `OfflineInv`: what a tab read, and what it is about to write, is as true of the server as the queue is (`CopiesTrue`), because `events` never shrinks; a tab that waits does so for the POST that carries its batch (`Waits`), and an answered POST is stored (`AnsweredIsStored`), so an answer justifies the marks. `StoreBatch` is `Store` of the ids that were not there, `QueuePayment` is `Queue`, all others stutter. |
| `OfflineSyncProofs` | `TurnsStrand` | `TurnInv`, as long as tabs take turns: at most one synchronises (`AtMostOne`); it neither read nor will settle for a row that says `syncing` (`CopiesSettled`); and each row that says so carries a mark of the tab that will still write it (`MarksAreOwn`), so at rest there is none. |
| `PrintQueueProofs` | `TypeCorrect`, `AckedAccepted`, `RowsKept` | `QueueInv` = `TypeOK`, `AckedIsAccepted`, `TakenIsAccepted`, `RowsKeptUntilAccepted`. A tab writes `acked` only after its own request was taken (`TakenIsAccepted`), and `accepted` never shrinks; rows that clearing or the history limit delete are acked. |
| `PrintQueueProofs` | `NoneStrands` | `ReachInv`: as long as it is orderly, a tab is at every row that says `printing` (`PrintingAttended`), for a tab that wrote it leaves it only with the outcome; a pending row has no time to wait for (`PendingIsDue`); and a tab with a job at a route is working (`ChunkIsWorked`). |
| `PrintBridgeProofs` | `TypeCorrect`, `PrintedOnceHolds` | `BridgeInv` = `TypeOK`, `KnownTickets`, `BatchWaits`, `OneJob`, `Sheet`. A ticket that is not excused has at most one job under its own key (`OneJob`), the jobs of a batch are still to be printed (`BatchWaits`), and a sheet came out only of a job that says so (`Sheet`). |
| `PrintPipelineProofs` | `ComposedOfParts`, `TypeCorrect`, `AckedHandedOn`, `PrintedSent` | Every step of the pipeline is a step or a stutter of each part, so the invariants of the parts, `PrintedOnce` of the bridge among them, hold in the whole; `PipelineInv` adds `Blank` and `Handed`: an accepted row has a job at the bridge or the server. The parts' proofs are used by INSTANCE (`QP`, `BP`). |
| `RuntimeStateProofs` | `TypeCorrect`, `TenantsKeptApart`, `RecentWritesKept`, `TableForward` | `RuntimeInv` = `TabPart`, `MailPart`, `RowPart`, `CallPart`, `MadePart`: copies, broadcasts and rows hold values of their tenant, and a payload on its way holds values of the tenant it names, or of the one whose row it was read from. What is taken over passed the identity check or came from a tab of the same tenant. The two action properties follow step by step from the tests the merges make. |
| `RuntimeStateProofs` | `UnsentScheduled` | `UnsentInv`: a tab with something unsent has its timer set and is not locked. The lemma `FlushStays` goes through every action: only a save, a lock or a change of tenant stops the timer of an unlocked tab. |
| `OrderTerminalProofs` | `TypeCorrect`, `PendingStays`, `NewerStays` | `TerminalInv` = `TypeOK`, `PayloadsPlain`, `LinesNamed`, `UnusedBlank`, `UsedInOrder`, `OneChangeUnderWay`. What was read of the server has no optimistic line, so a merge drops one for a line of the server only (`MergeKeeps`); a rollback takes away the line of a request that is over. Requests are used in order, and at most the latest change of a line is under way, so a change that commits while the terminal waits has no later one. |
| `OrderTerminalProofs` | `Ghosts` | `GhostInv` adds `ReadKnows`: what an add read back after its commit holds its row, unless the row was overtaken. So its answer finds the line that replaces the optimistic one; a failure rolls it back. |

`OfflineSyncProofs` needs nothing of the constants: any number of tabs, snapshots and
requests, even infinite, and any disturbance.

**What is collected.** `CollectedWithinOrdered` is not about one read: a payment commits
against a bill that its request read statements earlier, from the lines or, when there
are none, from the order row, whose totals were computed by some other request from lines
that may be gone. `CollectedInv` therefore bounds each of these by `ordered`, which never
falls: the lines of a table, the totals of every order row, stored or remembered by a
request (`Worth`), a bill carried from one statement to the next, and, between reading
the payments and committing, the charge plus the payments read (`ReadWithin`). By
`ReadCurrent` the payments read are still those of the table when the charge is
added to them. A change of a line that computed its total before another terminal's
commit is bounded by how much its own write adds.

The proof adds sums up. The code's totals are modelled with the community fold
`MapThenSumSet`, which picks the elements in an order that CHOOSE decides, and no
induction theorem of the library can be used (they take an operator as a parameter).
`TableOrdersProofs` shows that such a sum does not depend on the order: a sum over a finite
set is the value of any function on its subsets that adds one element's weight at a time
(`SumsUnique`, `SumsExist`, `SumsAnyOrder`), by taking a smallest set for which this fails
(`SmallestPart`, from the well-foundedness of strict subsets of a finite set). `SumAdd` and `ItemTotalAdd`, which all
later steps use, follow.

Not proved, only model-checked: `RequestsAnswered`, `JobsSettle` and `ScreenCatchesUp`
(liveness: TLAPS cannot reason about the fairness they need). Every other property of a
passing run is stated by a theorem.

## 10. Not modelled

`PROJECT.json` lists every component with its reason. What is left out of the modelled
components, and what reading them showed that no property states:

- Table-order API: GET (it reads), request parsing and tenant and branch checks (they
  only refuse), discounts and complimentary lines beyond a price of 0, and the kitchen,
  delivery and audit rows, which nothing here reads back. In the model and without a
  property: the next sitting's payment is refused because earlier payments of the table
  count (703-733, 1251); the stored balance of an account charged from two tables (1312); the
  runtime table state stored out of order (1379-1402); the quantity marked as sent that exceeds a
  changed one (847); a late save that opens a paid order again (865). Also: a repeated
  `add_item` adds twice (1970).
- Offline queue: the three other kinds of items and `upsertQueueItem`, which nothing
  calls, the tenant's meta row, `offline-sync/orders`. Rows of a closed tab stay
  `syncing` (offline-sync-store.ts 503, 542).
- Print queue: heartbeats, the content of the meta row, the order in which rows are taken,
  and a transaction of IndexedDB that aborts after its request succeeded. Two overlapping
  `queuePrintJob` calls find no duplicate (394); a row that used up its attempts is ready
  at once, for ever (585). Both are in the model.
- Windows bridge: `SyncQueueService` (559-638), `FiscalTransactionQueue` (1429-1524), device
  discovery and the HTTP surface. A repeated request for a dead job is answered ok and
  never printed (423); a job interrupted by a stop stays `printing` (498).
- Cloud printing: POST of `print-requests`, which no print of the browser uses, the
  choice of the device, the limit of 10 jobs per cycle. A stop of the desktop leaves a job
  `printing`, and a failed one is tried without limit; a ticket whose direct print timed
  out goes to the server under a random id and comes out twice.
- Runtime state: the scope `system-admin`, rows of other schemas, values that name a
  tenant in their text, snapshots over 512 kB, the filter of sale products, and
  operations nothing calls. In the model and without a property: a failed save leaves
  `dirty` set and nothing scheduled (632); the DELETE of a sign-out runs under the next
  session's cookie and deletes that tenant's row; a POST that read the row before a DELETE
  writes it again; removed keys never leave by a merge.
- Order screen: moving, merging and splitting tables, prices that follow the
  catalogue. A failed change of a line is not taken back on the screen; the last lines
  of the selected table stay when it was emptied elsewhere.
- Enterprise job queue, self-healing, sessions, device sessions, delivery, recipes:
  later in the plan or candidates for it. System administration, catalogue import,
  finance forms, observability and backup: data conversions and sequential handlers, or
  counters that the point of sale does not read.
