----------------------------- MODULE PrintQueue -----------------------------
(***************************************************************************)
(* The print queue of a browser profile, lib/print-resilience-store.ts,    *)
(* with the client of the bridge, lib/local-agent.ts.  The tabs of the     *)
(* profile share an IndexedDB queue; each knows only of its own            *)
(* processing.  A processing reads the queue once, prints what was ready   *)
(* chunk by chunk, and writes every row from the copy it read.  Until it   *)
(* has ended, whoever asks the tab for a processing joins it.              *)
(***************************************************************************)
EXTENDS Naturals, FiniteSets

CONSTANTS
  Jobs,         \* row ids; bounds the number of rows
  Keys,         \* dedupe keys: what is printed, for which order and printer
  Tabs,
  MaxAttempts,  \* 8 in the code
  Routes,       \* places a print is sent to, one after the other: 1 in the desktop shell, 3 in a browser
  MaxBatch,     \* rows of one processing: 20 in the code
  Parallel,     \* 2 in the code
  AckHistory,   \* 300 in the code
  Disturbances  \* what else happens: "close", "clear", "offline", "reprint", "storage"

ASSUME QueueAssumption ==
  /\ MaxAttempts \in Nat \ {0} /\ Routes \in Nat \ {0}
  /\ MaxBatch \in Nat \ {0} /\ Parallel \in Nat \ {0} /\ AckHistory \in Nat
  /\ Disturbances \subseteq {"close", "clear", "offline", "reprint", "storage"}

\* later: nextRetryAt is in the future; recent: ackAt is less than two minutes ago.
RowStatus == {"absent", "pending", "printing", "acked", "failed"}
Row == [status : RowStatus, key : Keys \cup {"none"}, attempts : 0 .. MaxAttempts,
        later : BOOLEAN, recent : BOOLEAN]

NoRow == [status |-> "absent", key |-> "none", attempts |-> 0, later |-> FALSE, recent |-> FALSE]

\* A queuePrintJob that found no duplicate, before it writes its row; used: the
\* row was written, lost: IndexedDB refused it, and the code went on.
Call == [state : {"unused", "writing", "used", "lost"}, tab : Tabs \cup {"none"}, key : Keys \cup {"none"}]
NoCall == [state |-> "unused", tab |-> "none", key |-> "none"]

\* copy: the ready rows as they were read; step[j]: of a job of the chunk;
\* route[j]: where it was sent last; ending: all is printed, or nothing was ready.
Steps == {"none", "queued", "sent", "taken", "error"}
Run == [phase : {"idle", "starting", "working", "ending"}, force : BOOLEAN, copy : [Jobs -> Row],
        todo : SUBSET Jobs, step : [Jobs -> Steps], route : [Jobs -> 0 .. Routes]]

NoRun == [phase |-> "idle", force |-> FALSE, copy |-> [j \in Jobs |-> NoRow], todo |-> {},
          step |-> [j \in Jobs |-> "none"], route |-> [j \in Jobs |-> 0]]

VARIABLES
  rows,      \* rows[j]: the row of j in IndexedDB
  call,      \* call[j]: the queuePrintJob that made row j
  run,       \* run[t]: the processing under way in tab t
  late,      \* jobs of requests that were given up and may still arrive
  accepted   \* jobs that a printer bridge took, at any time

vars == <<rows, call, run, late, accepted>>

-----------------------------------------------------------------------------

Lesser(a, b) == IF a <= b THEN a ELSE b

Existing == {j \in Jobs : rows[j].status # "absent"}
AckedRows == {j \in Jobs : rows[j].status = "acked"}

Duplicate(k) == \E j \in Existing :
  /\ rows[j].key = k
  /\ rows[j].status \in {"pending", "printing"} \/ (rows[j].status = "acked" /\ rows[j].recent)

\* A failed row without a retry time is ready: those that used up their
\* attempts have none.
Ready(force) == {j \in Existing :
  rows[j].status \in {"pending", "failed"} /\ (rows[j].later => force)}

Chunk(t) == {j \in Jobs : run[t].step[j] # "none"}

\* IndexedDB may fail: errors of a read or a write are swallowed.
StorageFails == "storage" \in Disturbances

Write(j, row) ==
  \/ rows' = [rows EXCEPT ![j] = row]
  \/ StorageFails /\ rows' = rows

Printing(row) == [row EXCEPT !.status = "printing", !.attempts = Lesser(@ + 1, MaxAttempts)]

Acked(row) == [row EXCEPT !.status = "acked", !.attempts = Lesser(@ + 1, MaxAttempts),
                          !.later = FALSE, !.recent = TRUE]

Failed(row) == [row EXCEPT !.status = "failed", !.attempts = Lesser(@ + 1, MaxAttempts),
                           !.later = row.attempts + 1 < MaxAttempts]

-----------------------------------------------------------------------------
(* queuePrintJob, and the processing it starts in its tab unless one is     *)
(* under way there or the browser is offline.                               *)

QueueRead(t, k, j) ==
  /\ ~Duplicate(k) \/ StorageFails
  /\ call[j] = NoCall
  /\ call' = [call EXCEPT ![j] = [state |-> "writing", tab |-> t, key |-> k]]
  /\ UNCHANGED <<rows, run, late, accepted>>

Started(t, force) ==
  IF run[t].phase = "idle" THEN [run EXCEPT ![t].phase = "starting", ![t].force = force] ELSE run

StoreNew(j, k) ==
  \/ /\ rows' = [rows EXCEPT ![j] = [NoRow EXCEPT !.status = "pending", !.key = k]]
     /\ call' = [call EXCEPT ![j] = [NoCall EXCEPT !.state = "used"]]
  \/ /\ StorageFails
     /\ rows' = rows
     /\ call' = [call EXCEPT ![j] = [NoCall EXCEPT !.state = "lost"]]

QueueWrite(t, j) ==
  /\ call[j].state = "writing" /\ call[j].tab = t
  /\ StoreNew(j, call[j].key)
  /\ \/ run' = Started(t, FALSE)
     \/ "offline" \in Disturbances /\ UNCHANGED run
  /\ UNCHANGED <<late, accepted>>

\* The toolbar's buttons force; a print and a printer that is found again do not.
Process(t, force) ==
  /\ run[t].phase = "idle"
  /\ run' = Started(t, force)
  /\ UNCHANGED <<rows, call, late, accepted>>

\* reprintFailedJob: the row is copied, whatever its status by now.
Reprint(t, j, i) ==
  /\ "reprint" \in Disturbances
  /\ j \in Existing
  /\ call[i] = NoCall
  /\ StoreNew(i, rows[j].key)
  /\ run' = Started(t, TRUE)
  /\ UNCHANGED <<late, accepted>>

-----------------------------------------------------------------------------
(* processPrintQueue in tab t.                                              *)

\* Of the ready rows it takes no more than the batch; which ones, their order
\* decides, which is abstracted.  Nothing ready, or unreadable: the run ends.
ReadRows(t) ==
  LET ready == Ready(run[t].force)
  IN /\ run[t].phase = "starting"
     /\ \E batch \in SUBSET ready :
          /\ \/ Cardinality(batch) = Lesser(MaxBatch, Cardinality(ready))
             \/ StorageFails /\ batch = {}
          /\ run' = [run EXCEPT ![t] =
               IF batch = {} THEN [NoRun EXCEPT !.phase = "ending"]
               ELSE [NoRun EXCEPT !.phase = "working", !.todo = batch,
                              !.copy = [j \in Jobs |-> IF j \in batch THEN rows[j] ELSE NoRow]]]
     /\ UNCHANGED <<rows, call, late, accepted>>

NextChunk(t) ==
  /\ run[t].phase = "working" /\ Chunk(t) = {} /\ run[t].todo # {}
  /\ \E chunk \in SUBSET run[t].todo :
       /\ Cardinality(chunk) = Lesser(Parallel, Cardinality(run[t].todo))
       /\ run' = [run EXCEPT ![t].todo = @ \ chunk,
            ![t].step = [j \in Jobs |-> IF j \in chunk THEN "queued" ELSE "none"]]
  /\ UNCHANGED <<rows, call, late, accepted>>

\* The row is written, and the request goes to the first route.
Mark(t, j) ==
  /\ run[t].step[j] = "queued"
  /\ Write(j, Printing(run[t].copy[j]))
  /\ run' = [run EXCEPT ![t].step[j] = "sent", ![t].route[j] = 1]
  /\ UNCHANGED <<call, late, accepted>>

Deliver(t, j) ==
  /\ run[t].step[j] = "sent"
  /\ run' = [run EXCEPT ![t].step[j] = "taken"]
  /\ accepted' = accepted \cup {j}
  /\ UNCHANGED <<rows, call, late>>

\* Mutant: one route too many.
NextRoute_TooMany(t, j) ==
  IF run[t].route[j] <= Routes
  THEN [run EXCEPT ![t].step[j] = "sent", ![t].route[j] = @ + 1]
  ELSE [run EXCEPT ![t].step[j] = "error"]

NextRoute(t, j) ==
  IF run[t].route[j] < Routes
  THEN [run EXCEPT ![t].step[j] = "sent", ![t].route[j] = @ + 1]
  ELSE [run EXCEPT ![t].step[j] = "error"]

\* An error, no connection, or no answer in time; a request that is given up
\* may have arrived, or arrive later.
GiveUp(t, j) ==
  /\ run[t].step[j] \in {"sent", "taken"}
  /\ run' = NextRoute(t, j)
  /\ \/ UNCHANGED late
     \/ run[t].step[j] = "sent" /\ late' = late \cup {j}
  /\ UNCHANGED <<rows, call, accepted>>

\* An answer that says ok: false, or is no JSON: no other route is tried.
BadAnswer(t, j) ==
  /\ run[t].step[j] \in {"sent", "taken"}
  /\ run' = [run EXCEPT ![t].step[j] = "error"]
  /\ UNCHANGED <<rows, call, late, accepted>>

DeliverLate(j) ==
  /\ j \in late
  /\ late' = late \ {j}
  /\ accepted' = accepted \cup {j}
  /\ UNCHANGED <<rows, call, run>>

\* Mutants: a print that failed everywhere is written as acked; or as it was.
Outcome_Acked(row, step) == Acked(row)
Outcome_Uncaught(row, step) == IF step = "taken" THEN Acked(row) ELSE Printing(row)

Outcome(row, step) == IF step = "taken" THEN Acked(row) ELSE Failed(row)

WriteOutcome(t, j) ==
  /\ run[t].step[j] \in {"taken", "error"}
  /\ Write(j, Outcome(run[t].copy[j], run[t].step[j]))
  /\ run' = [run EXCEPT ![t].step[j] = "none", ![t].route[j] = 0, ![t].copy[j] = NoRow]
  /\ UNCHANGED <<call, late, accepted>>

\* The oldest acked rows beyond the history are deleted.
Finish(t) ==
  /\ run[t].phase = "working" /\ Chunk(t) = {} /\ run[t].todo = {}
  /\ \E kept \in SUBSET AckedRows :
       /\ LET limit == Lesser(AckHistory, Cardinality(AckedRows))
          IN \/ Cardinality(kept) = limit
             \/ StorageFails /\ Cardinality(kept) > limit
       /\ rows' = [j \in Jobs |-> IF j \in AckedRows \ kept THEN NoRow ELSE rows[j]]
  /\ run' = [run EXCEPT ![t] = [NoRun EXCEPT !.phase = "ending"]]
  /\ UNCHANGED <<call, late, accepted>>

\* The meta row is written and the summary read; only then can another one start.
End(t) ==
  /\ run[t].phase = "ending"
  /\ run' = [run EXCEPT ![t] = NoRun]
  /\ UNCHANGED <<rows, call, late, accepted>>

-----------------------------------------------------------------------------
(* Time passes; the cashier clears what was printed; a tab is closed.       *)

RetryDue(j) ==
  /\ rows[j].status = "failed" /\ rows[j].later
  /\ rows' = [rows EXCEPT ![j].later = FALSE]
  /\ UNCHANGED <<call, run, late, accepted>>

AckAges(j) ==
  /\ rows[j].status = "acked" /\ rows[j].recent
  /\ rows' = [rows EXCEPT ![j].recent = FALSE]
  /\ UNCHANGED <<call, run, late, accepted>>

\* Mutant: the rows that failed are cleared too.
Cleared_Failed == {j \in Existing : rows[j].status \in {"acked", "failed"}}

Cleared == AckedRows

ClearAcked ==
  /\ "clear" \in Disturbances
  /\ Cleared # {}
  /\ \E gone \in SUBSET Cleared :
       /\ gone = Cleared \/ StorageFails
       /\ rows' = [j \in Jobs |-> IF j \in gone THEN NoRow ELSE rows[j]]
  /\ UNCHANGED <<call, run, late, accepted>>

CloseTab(t) ==
  /\ "close" \in Disturbances
  /\ run[t].phase # "idle" \/ \E j \in Jobs : call[j].tab = t
  /\ run' = [run EXCEPT ![t] = NoRun]
  /\ call' = [j \in Jobs |-> IF call[j].tab = t THEN NoCall ELSE call[j]]
  /\ late' = late \cup {j \in Jobs : run[t].step[j] = "sent"}
  /\ UNCHANGED <<rows, accepted>>

-----------------------------------------------------------------------------

Init ==
  /\ rows = [j \in Jobs |-> NoRow]
  /\ call = [j \in Jobs |-> NoCall]
  /\ run = [t \in Tabs |-> NoRun]
  /\ late = {}
  /\ accepted = {}

RunStep(t) == \/ ReadRows(t) \/ NextChunk(t) \/ Finish(t) \/ End(t)
              \/ \E j \in Jobs : Mark(t, j) \/ GiveUp(t, j) \/ BadAnswer(t, j) \/ WriteOutcome(t, j)

Local == \/ \E t \in Tabs, j \in Jobs : QueueWrite(t, j)
         \/ \E t \in Tabs, k \in Keys, j \in Jobs : QueueRead(t, k, j)
         \/ \E t \in Tabs, i, j \in Jobs : Reprint(t, j, i)
         \/ \E t \in Tabs, force \in BOOLEAN : Process(t, force)
         \/ \E t \in Tabs : RunStep(t) \/ CloseTab(t)
         \/ \E j \in Jobs : RetryDue(j) \/ AckAges(j)
         \/ ClearAcked

Next == Local \/ (\E t \in Tabs, j \in Jobs : Deliver(t, j)) \/ (\E j \in Jobs : DeliverLate(j))

Spec == Init /\ [][Next]_vars

-----------------------------------------------------------------------------
TypeOK ==
  /\ rows \in [Jobs -> Row]
  /\ call \in [Jobs -> Call]
  /\ run \in [Tabs -> Run]
  /\ late \subseteq Jobs
  /\ accepted \subseteq Jobs

\* "ACK is verified" (print-resilience-toolbar.tsx): a row that says acked is
\* about a job a bridge took, whatever copy it was written from.
AckedIsAccepted == \A j \in AckedRows : j \in accepted

\* A job that was stored and that no bridge took keeps its row: no clearing, no
\* history limit and no tab that writes an old copy takes it out of the queue.
RowsKeptUntilAccepted ==
  \A j \in Jobs \ accepted : call[j].state = "used" => rows[j].status # "absent"
=============================================================================
