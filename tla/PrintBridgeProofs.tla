-------------------------- MODULE PrintBridgeProofs --------------------------
(***************************************************************************)
(* For any number of tickets and jobs, batch size, limit and attempts: a   *)
(* ticket that is sent under its request id comes out once.  The invariant *)
(* follows a ticket that is not excused: it has one job in the queue,      *)
(* under its own key (OneJob), and paper came out for it only if that job  *)
(* was acknowledged or is past its printing (Sheet).  The batch the worker *)
(* holds is a copy; its jobs are still waiting (BatchWaits).               *)
(***************************************************************************)
EXTENDS PrintBridge, TLAPS

KnownTickets == \A n \in Queued : jobs[n].ticket \in Tickets

BatchWaits ==
  /\ \A n \in worker.batch : jobs[n].status \in {"pending", "failed"}
  /\ worker.phase \in {"idle", "trim"} => worker.batch = {}

OneJob ==
  \A n \in Queued : jobs[n].ticket \notin excused =>
    /\ jobs[n].key = jobs[n].ticket
    /\ jobs[n].status \notin {"failed", "dead"}
    /\ \A m \in Queued : jobs[m].ticket = jobs[n].ticket => m = n

\* The adapter may have printed job n.
PastPrinting(n) ==
  \/ jobs[n].status = "acked"
  \/ jobs[n].status = "printing" /\ ~(worker.phase = "printing" /\ worker.current = n)

Sheet ==
  \A x \in Tickets \ excused :
    \/ paper[x] = 0
    \/ paper[x] = 1 /\ \E n \in Queued : jobs[n].ticket = x /\ PastPrinting(n)

BridgeInv == TypeOK /\ KnownTickets /\ BatchWaits /\ OneJob /\ Sheet

-----------------------------------------------------------------------------

LEMMA IdleTyped == IdleWorker \in Worker /\ IdleWorker.phase = "idle" /\ IdleWorker.batch = {}
  BY DEF IdleWorker, Worker

LEMMA BridgeInit == Init => BridgeInv
<1> SUFFICES ASSUME Init PROVE BridgeInv
  OBVIOUS
<1> USE DEF Init
<1>1. Queued = {} /\ NoJob \in Job
  BY DEF Queued, NoJob, Job, JobStatus
<1>2. TypeOK
  BY <1>1, IdleTyped, BridgeAssumption DEF TypeOK
<1>3. KnownTickets /\ BatchWaits /\ OneJob /\ Sheet
  BY <1>1, IdleTyped DEF KnownTickets, BatchWaits, OneJob, Sheet
<1>4. QED
  BY <1>2, <1>3 DEF BridgeInv

-----------------------------------------------------------------------------
(* Requests.                                                                *)

LEMMA NewJobTyped ==
  ASSUME NEW x \in Tickets, NEW identified \in BOOLEAN
  PROVE  /\ NewJob(x, identified) \in Job
         /\ NewJob(x, identified).ticket = x /\ NewJob(x, identified).status = "pending"
         /\ identified => NewJob(x, identified).key = x
  BY DEF NewJob, Job, JobStatus, DedupeKey

LEMMA EnqueueKeeps ==
  ASSUME BridgeInv, NEW x \in Tickets, NEW identified \in BOOLEAN, Enqueue(x, identified)
  PROVE  BridgeInv'
<1> USE DEF BridgeInv
<1>1. excused' = (IF identified THEN excused ELSE excused \cup {x})
      /\ UNCHANGED <<worker, paper, restarts>>
  BY DEF Enqueue
<1>2. CASE UNCHANGED jobs
  <2>1. TypeOK'
    BY <1>1, <1>2 DEF TypeOK
  <2>2. Queued' = Queued /\ excused \subseteq excused'
    BY <1>1, <1>2 DEF Queued
  <2>3. (KnownTickets /\ BatchWaits /\ OneJob /\ Sheet)'
    BY <1>1, <1>2, <2>2 DEF KnownTickets, BatchWaits, OneJob, Sheet, PastPrinting
  <2>4. QED
    BY <2>1, <2>3
<1>3. ASSUME ~Duplicate(DedupeKey(x, identified)), NEW n \in NextSlot,
             jobs' = [jobs EXCEPT ![n] = NewJob(x, identified)]
      PROVE  BridgeInv'
  <2> DEFINE job == NewJob(x, identified)
  <2>1. n \in Slots /\ jobs[n].status = "free" /\ jobs \in [Slots -> Job]
    BY DEF NextSlot, TypeOK
  <2>2. /\ job \in Job /\ job.ticket = x /\ job.status = "pending"
        /\ identified => job.key = x
    BY NewJobTyped
  <2>3. \A m \in Slots : jobs'[m] = IF m = n THEN job ELSE jobs[m]
    BY <1>3, <2>1
  <2>4. Queued' = Queued \cup {n} /\ n \notin Queued
    BY <2>1, <2>2, <2>3 DEF Queued
  <2>5. TypeOK'
    <3>1. jobs' \in [Slots -> Job]
      BY <1>3, <2>1, <2>2
    <3>2. worker.phase \in {"printing", "printed"} => worker.current # n
      BY <2>1 DEF TypeOK
    <3>3. QED
      BY <1>1, <2>3, <3>1, <3>2 DEF TypeOK
  <2>6. KnownTickets'
    BY <2>2, <2>3, <2>4 DEF KnownTickets, Queued
  <2>7. BatchWaits'
    <3>1. n \notin worker.batch
      BY <2>1 DEF BatchWaits
    <3>2. worker.batch \subseteq Slots
      BY DEF TypeOK, Worker
    <3>3. QED
      BY <1>1, <2>3, <3>1, <3>2 DEF BatchWaits
  <2>8. x \notin excused' => identified /\ \A m \in Queued : jobs[m].ticket # x
    <3>1. SUFFICES ASSUME x \notin excused', NEW m \in Queued, jobs[m].ticket = x PROVE FALSE
      BY <1>1
    <3>2. identified /\ x \notin excused
      BY <1>1, <3>1
    <3>3. jobs[m].key = x /\ jobs[m].status # "failed"
      BY <3>1, <3>2 DEF OneJob
    <3>4. QED
      BY <1>3, <3>2, <3>3 DEF Duplicate, DedupeKey
  <2>9. OneJob'
    BY <1>1, <2>2, <2>3, <2>4, <2>8 DEF OneJob, Queued
  <2>10. Sheet'
    <3>1. \A m \in Queued : PastPrinting(m)' <=> PastPrinting(m)
      BY <1>1, <2>3, <2>4 DEF PastPrinting, Queued
    <3>2. QED
      BY <1>1, <2>3, <2>4, <3>1 DEF Sheet, Queued
  <2>11. QED
    BY <2>5, <2>6, <2>7, <2>9, <2>10
<1>4. QED
  BY <1>2, <1>3 DEF Enqueue

-----------------------------------------------------------------------------
(* The worker.                                                              *)

LEMMA TakeKeeps == ASSUME BridgeInv, TakeBatch PROVE BridgeInv'
<1> USE DEF BridgeInv, TakeBatch
<1>1. Queued' = Queued /\ Ready \subseteq Slots
  BY DEF Queued, Ready
<1>2. TypeOK'
  BY <1>1 DEF TypeOK, Worker
<1>3. (KnownTickets /\ OneJob)'
  BY <1>1 DEF KnownTickets, OneJob
<1>4. BatchWaits'
  BY <1>1 DEF BatchWaits, Ready
<1>5. Sheet'
  BY <1>1 DEF Sheet, PastPrinting
<1>6. QED
  BY <1>2, <1>3, <1>4, <1>5

LEMMA StartKeeps == ASSUME BridgeInv, NEW n \in Slots, StartPrint(n) PROVE BridgeInv'
<1> USE DEF BridgeInv, StartPrint
<1> DEFINE job == [jobs[n] EXCEPT !.status = "printing", !.attempts = jobs[n].attempts + 1]
<1>1. jobs \in [Slots -> Job] /\ jobs[n] \in Job /\ worker \in Worker
  BY DEF TypeOK
<1>2. jobs[n].status \in {"pending", "failed"}
  BY DEF BatchWaits
<1>3. /\ job \in Job /\ job.status = "printing"
       /\ job.ticket = jobs[n].ticket /\ job.key = jobs[n].key
  BY <1>1 DEF Job, JobStatus
<1>4. jobs' = [jobs EXCEPT ![n] = job]
  OBVIOUS
<1>5. jobs'[n] = job /\ \A m \in Slots \ {n} : jobs'[m] = jobs[m]
  BY <1>1, <1>4
<1> HIDE DEF job
<1>6. Queued' = Queued /\ n \in Queued
  BY <1>2, <1>5, <1>3 DEF Queued
<1>7. TypeOK'
  <2>1. jobs' \in [Slots -> Job]
    BY <1>1, <1>3, <1>4
  <2>2. worker' \in Worker
    BY <1>1 DEF Worker
  <2>3. QED
    BY <1>5, <1>3, <2>1, <2>2 DEF TypeOK
<1>8. KnownTickets'
  BY <1>5, <1>6, <1>3 DEF KnownTickets, Queued
<1>9. BatchWaits'
  BY <1>1, <1>5 DEF BatchWaits, Worker
<1> HIDE DEF StartPrint
<1>10. \A m \in Queued : /\ m \in Slots /\ jobs'[m].ticket = jobs[m].ticket
                         /\ jobs'[m].key = jobs[m].key
                         /\ jobs'[m].status = "printing" \/ jobs'[m] = jobs[m]
  BY <1>5, <1>3 DEF Queued
<1>11. UNCHANGED <<excused, paper>>
  BY DEF StartPrint
<1>12. OneJob'
  BY <1>6, <1>10, <1>11 DEF OneJob
<1>13. Sheet'
  <2>1. \A m \in Queued : PastPrinting(m) => PastPrinting(m)'
    BY <1>2, <1>5, <1>6 DEF PastPrinting, Queued, StartPrint
  <2>2. QED
    BY <1>6, <1>10, <1>11, <2>1 DEF Sheet
<1>14. QED
  BY <1>7, <1>8, <1>9, <1>12, <1>13

LEMMA PrintKeeps == ASSUME BridgeInv, NEW n \in Slots, PrintTicket(n) PROVE BridgeInv'
<1> USE DEF BridgeInv, PrintTicket
<1>1. /\ worker \in Worker /\ jobs[n].status = "printing" /\ n \in Queued
      /\ paper \in [Tickets -> Nat] /\ jobs[n].ticket \in Tickets
  BY DEF TypeOK, Queued, KnownTickets
<1>2. /\ worker'.phase = "printed" /\ worker'.batch = worker.batch
      /\ worker'.current = worker.current /\ worker' \in Worker
  BY <1>1 DEF Worker
<1>3. Queued' = Queued
  BY DEF Queued
<1>4. TypeOK'
  BY <1>1, <1>2 DEF TypeOK
<1>5. (KnownTickets /\ BatchWaits /\ OneJob)'
  BY <1>2, <1>3 DEF KnownTickets, BatchWaits, OneJob
<1>6. jobs[n].ticket \notin excused => paper[jobs[n].ticket] = 0
  BY <1>1 DEF Sheet, OneJob, PastPrinting
<1>7. Sheet'
  <2>1. \A m \in Queued : PastPrinting(m) => PastPrinting(m)'
    BY <1>2 DEF PastPrinting
  <2>2. PastPrinting(n)'
    BY <1>1, <1>2 DEF PastPrinting
  <2>3. SUFFICES ASSUME NEW x \in Tickets \ excused
                 PROVE  \/ paper'[x] = 0
                        \/ paper'[x] = 1 /\ \E m \in Queued : jobs[m].ticket = x /\ PastPrinting(m)'
    BY <1>3 DEF Sheet
  <2>4. CASE x = jobs[n].ticket
    BY <1>1, <1>6, <2>2, <2>4
  <2>5. CASE x # jobs[n].ticket
    BY <1>1, <2>1, <2>5 DEF Sheet
  <2>6. QED
    BY <2>4, <2>5
<1>8. QED
  BY <1>4, <1>5, <1>7

LEMMA DoneTyped ==
  ASSUME worker \in Worker
  PROVE  /\ Done \in Worker /\ Done.phase \in {"trim", "batch"} /\ Done.batch = worker.batch
         /\ Done.phase = "trim" => worker.batch = {}
  BY DEF Done, Worker

LEMMA AckKeeps == ASSUME BridgeInv, NEW n \in Slots, RecordAck(n) PROVE BridgeInv'
<1> USE DEF BridgeInv, RecordAck
<1>1. /\ jobs \in [Slots -> Job] /\ jobs[n] \in Job /\ worker \in Worker
      /\ jobs[n].status = "printing"
  BY DEF TypeOK
<1>2. \A m \in Slots : /\ jobs'[m].ticket = jobs[m].ticket /\ jobs'[m].key = jobs[m].key
                       /\ jobs'[m].status = IF m = n THEN "acked" ELSE jobs[m].status
  BY <1>1 DEF Job
<1>3. Queued' = Queued
  BY <1>1, <1>2 DEF Queued
<1>4. jobs' \in [Slots -> Job]
  BY <1>1 DEF Job, JobStatus
<1>5. TypeOK'
  BY <1>1, <1>4, DoneTyped DEF TypeOK
<1>6. KnownTickets'
  BY <1>2, <1>3 DEF KnownTickets, Queued
<1>7. BatchWaits'
  BY <1>1, <1>2, DoneTyped DEF BatchWaits, Worker
<1>8. OneJob'
  BY <1>2, <1>3 DEF OneJob, Queued
<1>9. Sheet'
  BY <1>1, <1>2, <1>3, DoneTyped DEF Sheet, PastPrinting, Queued
<1>10. QED
  BY <1>5, <1>6, <1>7, <1>8, <1>9

LEMMA ThrowKeeps == ASSUME BridgeInv, NEW n \in Slots, PrintThrows(n) PROVE BridgeInv'
<1> USE DEF BridgeInv, PrintThrows
<1>1. /\ jobs \in [Slots -> Job] /\ jobs[n] \in Job /\ worker \in Worker
      /\ jobs[n].status = "printing" /\ n \in Queued /\ jobs[n].ticket \in Tickets
  BY DEF TypeOK, Queued, KnownTickets
<1>2. /\ AfterThrow(jobs[n]) \in Job /\ AfterThrow(jobs[n]).status \in {"failed", "dead"}
      /\ AfterThrow(jobs[n]).ticket = jobs[n].ticket /\ AfterThrow(jobs[n]).key = jobs[n].key
  BY <1>1 DEF AfterThrow, Job, JobStatus
<1>3. \A m \in Slots : jobs'[m] = IF m = n THEN AfterThrow(jobs[n]) ELSE jobs[m]
  BY <1>1
<1>4. Queued' = Queued
  BY <1>1, <1>2, <1>3 DEF Queued
<1>5. TypeOK'
  BY <1>1, <1>2, DoneTyped DEF TypeOK
<1>6. KnownTickets'
  BY <1>2, <1>3, <1>4 DEF KnownTickets, Queued
<1>7. BatchWaits'
  BY <1>1, <1>2, <1>3, DoneTyped DEF BatchWaits, Worker
<1>8. OneJob'
  BY <1>2, <1>3, <1>4 DEF OneJob, Queued
<1>9. Sheet'
  BY <1>1, <1>2, <1>3, <1>4, DoneTyped DEF Sheet, PastPrinting, Queued
<1>10. QED
  BY <1>5, <1>6, <1>7, <1>8, <1>9

LEMMA RetryKeeps == ASSUME BridgeInv, NEW n \in Slots, RetryDue(n) PROVE BridgeInv'
<1> USE DEF BridgeInv, RetryDue
<1>1. jobs \in [Slots -> Job] /\ jobs[n] \in Job
  BY DEF TypeOK
<1>2. \A m \in Slots : /\ jobs'[m].ticket = jobs[m].ticket /\ jobs'[m].key = jobs[m].key
                       /\ jobs'[m].status = jobs[m].status
  BY <1>1 DEF Job
<1>3. jobs' \in [Slots -> Job]
  BY <1>1 DEF Job
<1>4. Queued' = Queued
  BY <1>2 DEF Queued
<1>5. TypeOK'
  BY <1>2, <1>3 DEF TypeOK
<1>6. KnownTickets' /\ OneJob'
  BY <1>2, <1>4 DEF KnownTickets, OneJob, Queued
<1>7. BatchWaits'
  BY <1>2 DEF BatchWaits, TypeOK, Worker
<1>8. Sheet'
  BY <1>2, <1>4 DEF Sheet, PastPrinting, Queued
<1>9. QED
  BY <1>5, <1>6, <1>7, <1>8

\* Jobs that leave the queue take their tickets with them: Trim, and a restart
\* that cannot read the file.
LEMMA RemovalKeeps ==
  ASSUME BridgeInv, NEW removed \in SUBSET Queued,
         jobs' = Without(removed), excused' = Excused(removed),
         worker' = IdleWorker, UNCHANGED paper, restarts' \in 0 .. MaxRestarts
  PROVE  BridgeInv'
<1> USE DEF BridgeInv
<1> DEFINE none == [NoJob EXCEPT !.status = "gone"]
<1>1. jobs \in [Slots -> Job] /\ none \in Job /\ none.status = "gone" /\ Queued \subseteq Slots
  BY DEF TypeOK, NoJob, Job, JobStatus, Queued
<1>2. \A m \in Slots : jobs'[m] = IF m \in removed THEN none ELSE jobs[m]
  BY DEF Without
<1>3. Queued' = Queued \ removed
  BY <1>1, <1>2 DEF Queued
<1>4. \A m \in Queued' : jobs'[m] = jobs[m]
  BY <1>1, <1>2, <1>3
<1>5. excused \subseteq excused' /\ \A m \in removed : jobs[m].ticket \in excused'
  BY DEF Excused
<1>6. TypeOK'
  <2>1. jobs' \in [Slots -> Job]
    BY <1>1 DEF Without
  <2>2. excused' \subseteq Tickets
    BY DEF Excused, KnownTickets, TypeOK
  <2>3. QED
    BY <2>1, <2>2, IdleTyped DEF TypeOK
<1>7. (KnownTickets /\ OneJob)'
  BY <1>3, <1>4, <1>5 DEF KnownTickets, OneJob
<1>8. BatchWaits'
  BY IdleTyped DEF BatchWaits
<1>9. Sheet'
  <2>1. \A m \in Queued' : PastPrinting(m) => PastPrinting(m)'
    BY <1>4, IdleTyped DEF PastPrinting
  <2>2. QED
    BY <1>3, <1>4, <1>5, <2>1 DEF Sheet
<1>10. QED
  BY <1>6, <1>7, <1>8, <1>9

LEMMA TrimKeeps == ASSUME BridgeInv, Trim PROVE BridgeInv'
<1>1. PICK aged \in SUBSET {n \in Queued : jobs[n].status = "acked"} :
        jobs' = Without(Removed(aged)) /\ excused' = Excused(Removed(aged))
  BY DEF Trim
<1>2. Removed(aged) \in SUBSET Queued
  BY DEF Removed
<1>3. restarts' \in 0 .. MaxRestarts /\ worker' = IdleWorker /\ UNCHANGED paper
  BY DEF Trim, BridgeInv, TypeOK
<1>4. QED
  BY <1>1, <1>2, <1>3, RemovalKeeps

LEMMA RestartKeeps == ASSUME BridgeInv, Restart PROVE BridgeInv'
<1>1. restarts' \in 0 .. MaxRestarts /\ worker' = IdleWorker /\ UNCHANGED paper
  BY BridgeAssumption DEF Restart, BridgeInv, TypeOK
<1>2. CASE jobs' = Without(Queued) /\ excused' = Excused(Queued)
  BY <1>1, <1>2, RemovalKeeps
<1>3. CASE UNCHANGED <<jobs, excused>>
  <2>1. jobs' = Without({}) /\ excused' = Excused({})
    BY <1>3 DEF Without, Excused, BridgeInv, TypeOK
  <2>2. QED
    BY <1>1, <2>1, RemovalKeeps
<1>4. QED
  BY <1>2, <1>3 DEF Restart

-----------------------------------------------------------------------------

LEMMA BridgeNext == BridgeInv /\ [Next]_vars => BridgeInv'
<1> SUFFICES ASSUME BridgeInv, [Next]_vars PROVE BridgeInv'
  OBVIOUS
<1>1. CASE WorkerStep
  BY <1>1, TakeKeeps, TrimKeeps, StartKeeps, PrintKeeps, AckKeeps, ThrowKeeps DEF WorkerStep
<1>2. CASE UNCHANGED vars
  BY <1>2 DEF vars, BridgeInv, TypeOK, KnownTickets, BatchWaits, OneJob, Sheet, Queued, PastPrinting
<1>3. QED
  BY <1>1, <1>2, RestartKeeps, RetryKeeps, EnqueueKeeps DEF Next

LEMMA BridgeInvariant == Spec => []BridgeInv
  BY BridgeInit, BridgeNext, PTL DEF Spec

\* The queue, the worker and the counters are well typed, and the worker prints
\* a job that is marked "printing".
THEOREM TypeCorrect == Spec => []TypeOK
<1>1. BridgeInv => TypeOK
  BY DEF BridgeInv
<1>2. QED
  BY <1>1, BridgeInvariant, PTL

\* "Duplicate print protection" for every number of tickets, requests, restarts
\* and retries: one ticket, one request id, one print.
THEOREM PrintedOnceHolds == Spec => []PrintedOnce
<1>1. BridgeInv => PrintedOnce
  BY DEF BridgeInv, Sheet, PrintedOnce
<1>2. QED
  BY <1>1, BridgeInvariant, PTL
=============================================================================
