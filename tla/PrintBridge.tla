---------------------------- MODULE PrintBridge ----------------------------
(***************************************************************************)
(* The print queue of the Windows bridge, PrintQueueService and            *)
(* BridgeStateStore of tools/adisyum-pos-agent/Program.cs.  POST /print    *)
(* appends a job unless one with its dedupe key is there and has not       *)
(* failed; one worker takes the oldest ready jobs, prints them one after   *)
(* the other, and trims the queue.  Every change of the queue is made      *)
(* under a lock and saved to a file before the lock is released.           *)
(***************************************************************************)
EXTENDS Naturals, FiniteSets

CONSTANTS
  Tickets,      \* what is to be printed, all on one printer; its id is the request id
  NoRequestId,  \* of a request without one
  SlotCount,    \* bounds the number of jobs the bridge ever accepts
  MaxAttempts,  \* 8 in the code
  BatchSize,    \* 5 in the code
  QueueLimit,   \* 1000 in the code
  MaxRestarts,  \* bounds the number of restarts
  Troubles      \* what can go wrong: "throw", "age", "corrupt"

ASSUME BridgeAssumption ==
  /\ SlotCount \in Nat /\ MaxAttempts \in Nat \ {0} /\ BatchSize \in Nat \ {0}
  /\ QueueLimit \in Nat \ {0} /\ MaxRestarts \in Nat
  /\ NoRequestId \notin Tickets
  /\ Troubles \subseteq {"throw", "age", "corrupt"}

Slots == 1 .. SlotCount
NoSlot == 0
JobStatus == {"free", "pending", "printing", "acked", "failed", "dead", "gone"}

\* wait: nextRetryAt is in the future.
Job == [key : Tickets \cup {NoRequestId}, ticket : Tickets \cup {NoRequestId},
        status : JobStatus, attempts : Nat, wait : BOOLEAN]

NoJob == [key |-> NoRequestId, ticket |-> NoRequestId, status |-> "free",
          attempts |-> 0, wait |-> FALSE]

VARIABLES
  jobs,      \* jobs[n]: the n-th job accepted; "free" before, "gone" once removed
  worker,    \* the batch being processed
  paper,     \* paper[x]: how often ticket x came out of the printer
  excused,   \* tickets sent without a request id, whose print threw, whose job was removed
  restarts

vars == <<jobs, worker, paper, excused, restarts>>

Worker == [phase : {"idle", "batch", "printing", "printed", "trim"},
           batch : SUBSET Slots, current : Slots \cup {NoSlot}]

IdleWorker == [phase |-> "idle", batch |-> {}, current |-> NoSlot]

-----------------------------------------------------------------------------
(* POST /print.                                                             *)

Queued == {n \in Slots : jobs[n].status \notin {"free", "gone"}}

\* The dedupe key without a request id is a hash of the printer and of the text
\* "System.Byte[]": one key for all such jobs of a printer.
DedupeKey(x, identified) == IF identified THEN x ELSE NoRequestId

\* Mutant: a job that was printed is no longer in the way.
Duplicate_NotPrinted(key) ==
  \E n \in Queued : jobs[n].key = key /\ jobs[n].status \notin {"failed", "acked"}

Duplicate(key) == \E n \in Queued : jobs[n].key = key /\ jobs[n].status # "failed"

NextSlot == {n \in Slots : jobs[n].status = "free" /\ \A m \in Slots : m < n => jobs[m].status # "free"}

NewJob(x, identified) ==
  [key |-> DedupeKey(x, identified), ticket |-> x, status |-> "pending", attempts |-> 0, wait |-> FALSE]

\* Both a new job and a duplicate are answered ok and queued.
Enqueue(x, identified) ==
  /\ \/ /\ Duplicate(DedupeKey(x, identified))
        /\ UNCHANGED jobs
     \/ /\ ~Duplicate(DedupeKey(x, identified))
        /\ \E n \in NextSlot : jobs' = [jobs EXCEPT ![n] = NewJob(x, identified)]
  /\ excused' = IF identified THEN excused ELSE excused \cup {x}
  /\ UNCHANGED <<worker, paper, restarts>>

-----------------------------------------------------------------------------
(* The worker: ProcessBatch and TryPrint.                                   *)

Ready == {n \in Queued : jobs[n].status \in {"pending", "failed"} /\ ~jobs[n].wait}

TakeBatch ==
  /\ worker.phase = "idle"
  /\ Ready # {}
  /\ worker' = [phase |-> "batch", current |-> NoSlot,
                batch |-> {n \in Ready : Cardinality({m \in Ready : m < n}) < BatchSize}]
  /\ UNCHANGED <<jobs, paper, excused, restarts>>

\* Mutant: the job is not marked.
StartPrint_Unmarked(n) ==
  /\ worker.phase = "batch"
  /\ n \in worker.batch
  /\ \A m \in worker.batch : n <= m
  /\ worker' = [phase |-> "printing", batch |-> worker.batch \ {n}, current |-> n]
  /\ UNCHANGED <<jobs, paper, excused, restarts>>

StartPrint(n) ==
  /\ worker.phase = "batch"
  /\ n \in worker.batch
  /\ \A m \in worker.batch : n <= m
  /\ jobs' = [jobs EXCEPT ![n].status = "printing", ![n].attempts = @ + 1]
  /\ worker' = [phase |-> "printing", batch |-> worker.batch \ {n}, current |-> n]
  /\ UNCHANGED <<paper, excused, restarts>>

PrintTicket(n) ==
  /\ worker.phase = "printing" /\ n = worker.current
  /\ paper' = [paper EXCEPT ![jobs[n].ticket] = @ + 1]
  /\ worker' = [worker EXCEPT !.phase = "printed"]
  /\ UNCHANGED <<jobs, excused, restarts>>

Done == [phase |-> IF worker.batch = {} THEN "trim" ELSE "batch",
         batch |-> worker.batch, current |-> NoSlot]

RecordAck(n) ==
  /\ worker.phase = "printed" /\ n = worker.current
  /\ jobs' = [jobs EXCEPT ![n].status = "acked"]
  /\ worker' = Done
  /\ UNCHANGED <<paper, excused, restarts>>

\* Mutant: a failure resets the attempts.
AfterThrow_Resets(job) == [job EXCEPT !.status = "failed", !.attempts = 0, !.wait = TRUE]

AfterThrow(job) ==
  [job EXCEPT !.status = IF job.attempts >= MaxAttempts THEN "dead" ELSE "failed", !.wait = TRUE]

\* The adapter throws before anything came out, or after.
PrintThrows(n) ==
  /\ "throw" \in Troubles
  /\ worker.phase \in {"printing", "printed"} /\ n = worker.current
  /\ jobs' = [jobs EXCEPT ![n] = AfterThrow(@)]
  /\ worker' = Done
  /\ excused' = excused \cup {jobs[n].ticket}
  /\ UNCHANGED <<paper, restarts>>

RetryDue(n) ==
  /\ jobs[n].status = "failed" /\ jobs[n].wait
  /\ jobs' = [jobs EXCEPT ![n].wait = FALSE]
  /\ UNCHANGED <<worker, paper, excused, restarts>>

\* Jobs that were printed six hours ago, and all but the newest QueueLimit jobs.
Removed(aged) ==
  aged \cup {n \in Queued \ aged : Cardinality({m \in Queued \ aged : m > n}) >= QueueLimit}

Excused(removed) == excused \cup {jobs[n].ticket : n \in removed}

Without(removed) ==
  [n \in Slots |-> IF n \in removed THEN [NoJob EXCEPT !.status = "gone"] ELSE jobs[n]]

Trim ==
  /\ worker.phase = "trim" \/ (worker.phase = "idle" /\ Ready = {})
  /\ \E aged \in SUBSET {n \in Queued : jobs[n].status = "acked"} :
       /\ aged # {} => "age" \in Troubles
       /\ jobs' = Without(Removed(aged))
       /\ excused' = Excused(Removed(aged))
  /\ worker' = IdleWorker
  /\ UNCHANGED <<paper, restarts>>

-----------------------------------------------------------------------------
(* The bridge stops and starts again from its file, which a stop in the     *)
(* middle of a write leaves unreadable.                                     *)

Restart ==
  /\ restarts < MaxRestarts
  /\ restarts' = restarts + 1
  /\ worker' = IdleWorker
  /\ \/ UNCHANGED <<jobs, excused>>
     \/ /\ "corrupt" \in Troubles
        /\ jobs' = Without(Queued)
        /\ excused' = Excused(Queued)
  /\ UNCHANGED paper

-----------------------------------------------------------------------------

Init ==
  /\ jobs = [n \in Slots |-> NoJob]
  /\ worker = IdleWorker
  /\ paper = [x \in Tickets |-> 0]
  /\ excused = {}
  /\ restarts = 0

WorkerStep == \/ TakeBatch \/ Trim
              \/ \E n \in Slots : StartPrint(n) \/ PrintTicket(n) \/ RecordAck(n) \/ PrintThrows(n)

Next == \/ WorkerStep \/ Restart
        \/ \E n \in Slots : RetryDue(n)
        \/ \E x \in Tickets, identified \in BOOLEAN : Enqueue(x, identified)

Spec == Init /\ [][Next]_vars

\* The worker is a loop that waits at most 1.5 seconds, and time passes.
Fairness == WF_vars(WorkerStep) /\ \A n \in Slots : WF_vars(RetryDue(n))

FairSpec == Spec /\ Fairness

-----------------------------------------------------------------------------
TypeOK ==
  /\ jobs \in [Slots -> Job]
  /\ worker \in Worker
  /\ worker.phase \in {"printing", "printed"} =>
       worker.current \in Slots /\ jobs[worker.current].status = "printing"
  /\ paper \in [Tickets -> Nat]
  /\ excused \subseteq Tickets
  /\ restarts \in 0 .. MaxRestarts

\* "Duplicate print protection: strong through tenant/request dedupe key"
\* (HARDWARE_COMPATIBILITY_REPORT.md): a ticket sent any number of times under
\* its request id, across restarts, comes out of the printer once, unless an
\* attempt threw or its job was removed.
PrintedOnce == \A x \in Tickets \ excused : paper[x] <= 1

\* A stop of the bridge leaves the job it was printing so for ever.
Interrupted(n) == jobs[n].status = "printing" /\ worker.current # n

\* "ack or retry -> dead queue after maxAttempts": no job is retried for ever, or
\* kept from its turn by those that are retried.
JobsSettle ==
  \A n \in Slots : jobs[n].status \in {"pending", "failed"} ~>
                     (jobs[n].status \in {"acked", "dead", "gone"} \/ Interrupted(n))
=============================================================================
