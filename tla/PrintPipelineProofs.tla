------------------------ MODULE PrintPipelineProofs ------------------------
(***************************************************************************)
(* The composition behaves like each of its parts: every step of it is a   *)
(* step of the browser's queue, of the bridge and of the server, or leaves *)
(* that part alone.  The theorems about the queue and the bridge therefore *)
(* hold of it.  On them rests what no part says alone: a job the browser   *)
(* counts as accepted has been handed on (Handed).                         *)
(***************************************************************************)
EXTENDS PrintPipeline, TLAPS

BP == INSTANCE PrintBridgeProofs WITH Tickets <- Jobs, MaxAttempts <- BridgeAttempts
\* The history of the queue is not used here.
QP == INSTANCE PrintQueueProofs WITH MaxAttempts <- QueueAttempts, orderly <- TRUE

-----------------------------------------------------------------------------
(* The parts.                                                               *)

LEMMA NextOfQueue == [Next]_vars => [Queue!Next]_queueVars
<1> SUFFICES ASSUME [Next]_vars PROVE [Queue!Next]_queueVars
  OBVIOUS
<1>1. CASE \E t \in Tabs, j \in Jobs : PrintDirectly(t, j) \/ PrintByServer(t, j)
  BY <1>1 DEF PrintDirectly, PrintByServer, Queue!Next
<1>2. CASE \E j \in Jobs : ArriveLate(j)
  BY <1>2 DEF ArriveLate, Queue!Next
<1>3. CASE \E c \in Cloud!Rows : Forward(c)
  BY <1>3 DEF Forward, queueVars
<1>4. CASE UNCHANGED vars
  BY <1>4 DEF vars, queueVars
<1>5. QED
  BY <1>1, <1>2, <1>3, <1>4 DEF Next, Queue!Next

LEMMA NextOfCloud == [Next]_vars => [Cloud!Next]_cloudVars
<1> SUFFICES ASSUME [Next]_vars PROVE [Cloud!Next]_cloudVars
  OBVIOUS
<1>1. CASE \E t \in Tabs, j \in Jobs : PrintDirectly(t, j) \/ PrintByServer(t, j)
  BY <1>1 DEF PrintDirectly, PrintByServer, Cloud!Next, cloudVars
<1>2. CASE \E j \in Jobs : ArriveLate(j)
  BY <1>2 DEF ArriveLate, Cloud!Next, cloudVars
<1>3. CASE \E c \in Cloud!Rows : Forward(c)
  BY <1>3 DEF Forward, Cloud!Next
<1>4. CASE UNCHANGED vars
  BY <1>4 DEF vars, cloudVars
<1>5. QED
  BY <1>1, <1>2, <1>3, <1>4 DEF Next, Cloud!Next

-----------------------------------------------------------------------------
(* The server and the desktop application.                                  *)

\* A row in use has a ticket, and a poll speaks of rows in use.
RowsUsed ==
  /\ \A c \in Cloud!Rows :
       \/ cloud[c].status = "free" /\ cloud[c].ticket = Cloud!NoRow
       \/ cloud[c].status # "free" /\ cloud[c].ticket \in Jobs
  /\ \A c \in poll.batch : cloud[c].status # "free"
  /\ poll.step \in {"send", "report", "failing"} => cloud[poll.current].status # "free"

ReportedWasSent == poll.step = "report" => poll.current \in sent

CloudInv == Cloud!TypeOK /\ RowsUsed /\ Cloud!PrintedWasSent /\ ReportedWasSent

\* Only a free row gets a ticket, and no row loses one.
LEMMA PatchTyped ==
  ASSUME CloudInv, NEW c \in Cloud!Rows, cloud[c].status # "free",
         NEW status \in Cloud!CloudStatus \ {"free"}
  PROVE  /\ Cloud!Patched(c, status) \in [Cloud!Rows -> Cloud!CloudJob]
         /\ \A d \in Cloud!Rows : /\ Cloud!Patched(c, status)[d].ticket = cloud[d].ticket
                                  /\ Cloud!Patched(c, status)[d].status =
                                       IF d = c THEN status ELSE cloud[d].status
<1> DEFINE new == [cloud[c] EXCEPT !.status = status]
<1>1. cloud \in [Cloud!Rows -> Cloud!CloudJob] /\ cloud[c] \in Cloud!CloudJob
  BY DEF CloudInv, Cloud!TypeOK
<1>2. new \in Cloud!CloudJob /\ new.ticket = cloud[c].ticket /\ new.status = status
  BY <1>1 DEF Cloud!CloudJob
<1>3. Cloud!Patched(c, status) = [cloud EXCEPT ![c] = new]
  BY DEF Cloud!Patched
<1> HIDE DEF new
<1>4. QED
  BY <1>1, <1>2, <1>3

LEMMA CloudInit == Cloud!Init => CloudInv
<1> SUFFICES ASSUME Cloud!Init PROVE CloudInv
  OBVIOUS
<1> USE DEF Cloud!Init, Cloud!NoPoll
<1>1. Cloud!TypeOK
  BY DEF Cloud!TypeOK, Cloud!CloudJob, Cloud!CloudStatus, Cloud!Poll
<1>2. RowsUsed /\ Cloud!PrintedWasSent /\ ReportedWasSent
  BY DEF RowsUsed, Cloud!PrintedWasSent, ReportedWasSent
<1>3. QED
  BY <1>1, <1>2 DEF CloudInv

LEMMA SubmitKeeps == ASSUME CloudInv, NEW x \in Jobs, Cloud!Submit(x) PROVE CloudInv'
<1>1. PICK c \in Cloud!Rows : cloud[c].status = "free"
        /\ cloud' = [cloud EXCEPT ![c] = [ticket |-> x, status |-> "pending"]]
  BY DEF Cloud!Submit
<1>2. UNCHANGED <<poll, sent>> /\ cloud \in [Cloud!Rows -> Cloud!CloudJob]
      /\ poll \in Cloud!Poll
  BY DEF Cloud!Submit, CloudInv, Cloud!TypeOK
<1>3. cloud'[c] = [ticket |-> x, status |-> "pending"] /\ \A d \in Cloud!Rows \ {c} : cloud'[d] = cloud[d]
  BY <1>1, <1>2
<1>4. [ticket |-> x, status |-> "pending"] \in Cloud!CloudJob
  BY DEF Cloud!CloudJob, Cloud!CloudStatus
<1>5. (Cloud!TypeOK)'
  BY <1>1, <1>2, <1>4 DEF CloudInv, Cloud!TypeOK
<1>6. RowsUsed'
  BY <1>1, <1>2, <1>3 DEF CloudInv, RowsUsed, Cloud!Poll, Cloud!TypeOK
<1>7. (Cloud!PrintedWasSent)' /\ ReportedWasSent'
  BY <1>1, <1>2, <1>3 DEF CloudInv, Cloud!PrintedWasSent, ReportedWasSent
<1>8. QED
  BY <1>5, <1>6, <1>7 DEF CloudInv

\* A step of the poll patches the row of its job, or none.
LEMMA PollKeeps ==
  ASSUME CloudInv, poll' \in Cloud!Poll, sent' \subseteq Cloud!Rows, sent \subseteq sent',
         \/ cloud' = cloud
         \/ \E c \in Cloud!Rows, status \in {"printing", "printed", "failed"} :
              /\ cloud[c].status # "free" /\ cloud' = Cloud!Patched(c, status)
              /\ status = "printed" => c \in sent,
         \A c \in poll'.batch : c \in poll.batch \/ cloud[c].status # "free",
         poll'.step \in {"send", "report", "failing"} =>
           poll'.current \in Cloud!Rows /\ cloud[poll'.current].status # "free",
         ReportedWasSent'
  PROVE  CloudInv'
<1>1. poll'.batch \subseteq Cloud!Rows
  BY DEF Cloud!Poll
<1>2. CASE cloud' = cloud
  BY <1>1, <1>2 DEF CloudInv, Cloud!TypeOK, RowsUsed, Cloud!PrintedWasSent
<1>3. ASSUME NEW c \in Cloud!Rows, NEW status \in {"printing", "printed", "failed"},
             cloud[c].status # "free", cloud' = Cloud!Patched(c, status), status = "printed" => c \in sent
      PROVE  CloudInv'
  <2>1. status \in Cloud!CloudStatus \ {"free"}
    BY DEF Cloud!CloudStatus
  <2>2. /\ cloud' \in [Cloud!Rows -> Cloud!CloudJob]
        /\ \A d \in Cloud!Rows : /\ cloud'[d].ticket = cloud[d].ticket
                                 /\ cloud'[d].status = IF d = c THEN status ELSE cloud[d].status
    BY <1>3, <2>1, PatchTyped
  <2>3. (Cloud!TypeOK)'
    BY <2>2 DEF Cloud!TypeOK
  <2>4. RowsUsed'
    BY <1>1, <1>3, <2>1, <2>2 DEF CloudInv, RowsUsed
  <2>5. (Cloud!PrintedWasSent)'
    BY <1>3, <2>2 DEF CloudInv, Cloud!PrintedWasSent
  <2>6. QED
    BY <2>3, <2>4, <2>5 DEF CloudInv
<1>4. QED
  BY <1>2, <1>3

LEMMA PollTyped ==
  ASSUME CloudInv
  PROVE  /\ poll \in Cloud!Poll /\ sent \subseteq Cloud!Rows /\ Cloud!NoPoll \in Cloud!Poll
         /\ Cloud!NoPoll.step = "idle" /\ Cloud!NoPoll.batch = {}
         /\ \A c \in poll.batch : c \in Cloud!Rows /\ cloud[c].status # "free"
         /\ poll.step \in {"send", "report", "failing"} =>
              poll.current \in Cloud!Rows /\ cloud[poll.current].status # "free"
  BY DEF CloudInv, Cloud!TypeOK, Cloud!Poll, Cloud!NoPoll, RowsUsed

LEMMA CloudNext == CloudInv /\ [Cloud!Next]_cloudVars => CloudInv'
<1> SUFFICES ASSUME CloudInv, [Cloud!Next]_cloudVars PROVE CloudInv'
  OBVIOUS
<1>1. /\ poll \in Cloud!Poll /\ sent \subseteq Cloud!Rows /\ Cloud!NoPoll \in Cloud!Poll
      /\ Cloud!NoPoll.step = "idle" /\ Cloud!NoPoll.batch = {}
      /\ \A c \in poll.batch : c \in Cloud!Rows /\ cloud[c].status # "free"
      /\ poll.step \in {"send", "report", "failing"} =>
           poll.current \in Cloud!Rows /\ cloud[poll.current].status # "free"
  BY PollTyped
<1>2. CASE Cloud!EndCycle \/ Cloud!StopDesktop
  BY <1>1, <1>2, PollKeeps DEF Cloud!EndCycle, Cloud!StopDesktop, ReportedWasSent
<1>3. CASE Cloud!ReadJobs
  <2>1. Cloud!Listed \subseteq Cloud!Rows /\ \A c \in Cloud!Listed : cloud[c].status # "free"
    BY DEF Cloud!Listed
  <2>2. poll'.step = "next" /\ poll'.batch = Cloud!Listed /\ poll' \in Cloud!Poll
        /\ UNCHANGED <<cloud, sent>>
    BY <1>3, <2>1 DEF Cloud!ReadJobs, Cloud!Poll
  <2>3. QED
    BY <1>1, <2>1, <2>2, PollKeeps DEF ReportedWasSent
<1>4. ASSUME NEW c \in Cloud!Rows, Cloud!MarkPrinting(c) PROVE CloudInv'
  <2>1. /\ poll'.step \in {"send", "failing"} /\ poll'.batch \subseteq poll.batch /\ poll'.current = c
        /\ poll' \in Cloud!Poll
    BY <1>1, <1>4 DEF Cloud!MarkPrinting, Cloud!AfterLostPatch, Cloud!Poll
  <2>2. cloud[c].status # "free" /\ UNCHANGED sent /\ cloud' \in {cloud, Cloud!Patched(c, "printing")}
    BY <1>1, <1>4 DEF Cloud!MarkPrinting
  <2>3. QED
    BY <1>1, <2>1, <2>2, PollKeeps DEF ReportedWasSent
<1>5. ASSUME NEW c \in Cloud!Rows, Cloud!SendToBridge(c) PROVE CloudInv'
  <2>1. /\ poll'.step = "report" /\ poll'.batch = poll.batch /\ poll'.current = c /\ poll' \in Cloud!Poll
        /\ sent' = sent \cup {c} /\ cloud' = cloud /\ poll.step = "send" /\ c = poll.current
    BY <1>1, <1>5 DEF Cloud!SendToBridge, Cloud!Poll
  <2>2. QED
    BY <1>1, <2>1, PollKeeps DEF ReportedWasSent
<1>6. ASSUME NEW c \in Cloud!Rows, Cloud!SendFails(c) PROVE CloudInv'
  <2>1. /\ poll'.step = "failing" /\ poll'.batch = poll.batch /\ poll'.current = c /\ poll' \in Cloud!Poll
        /\ UNCHANGED <<cloud, sent>> /\ poll.step = "send" /\ c = poll.current
    BY <1>1, <1>6 DEF Cloud!SendFails, Cloud!Poll
  <2>2. QED
    BY <1>1, <2>1, PollKeeps DEF ReportedWasSent
<1>7. ASSUME NEW c \in Cloud!Rows, Cloud!ReportPrinted(c) PROVE CloudInv'
  <2>1. /\ poll'.step \in {"next", "failing"} /\ poll'.batch = poll.batch /\ poll' \in Cloud!Poll
        /\ poll'.step = "failing" => poll'.current = c
    BY <1>1, <1>7 DEF Cloud!ReportPrinted, Cloud!AfterLostPatch, Cloud!Poll
  <2>2. /\ poll.step = "report" /\ c = poll.current /\ UNCHANGED sent
        /\ cloud' \in {cloud, Cloud!Patched(c, "printed")}
    BY <1>7 DEF Cloud!ReportPrinted
  <2>3. c \in sent
    BY <2>2 DEF CloudInv, ReportedWasSent
  <2>4. QED
    BY <1>1, <2>1, <2>2, <2>3, PollKeeps DEF ReportedWasSent
<1>8. ASSUME NEW c \in Cloud!Rows, Cloud!ReportFailed(c) PROVE CloudInv'
  <2>1. /\ poll'.step = "next" /\ poll'.batch = poll.batch /\ poll' \in Cloud!Poll
    BY <1>1, <1>8 DEF Cloud!ReportFailed, Cloud!Poll
  <2>2. /\ poll.step = "failing" /\ c = poll.current /\ UNCHANGED sent
        /\ cloud' \in {cloud, Cloud!Patched(c, "failed")}
    BY <1>8 DEF Cloud!ReportFailed
  <2>3. QED
    BY <1>1, <2>1, <2>2, PollKeeps DEF ReportedWasSent
<1>9. CASE UNCHANGED cloudVars
  BY <1>1, <1>9, PollKeeps DEF cloudVars, CloudInv, ReportedWasSent
<1>10. QED
  BY <1>2, <1>3, <1>4, <1>5, <1>6, <1>7, <1>8, <1>9, SubmitKeeps DEF Cloud!Next, Cloud!PollStep

LEMMA CloudInvariant == Spec => []CloudInv
<1>1. Init => CloudInv
  BY CloudInit DEF Init
<1>2. CloudInv /\ [Next]_vars => CloudInv'
  BY NextOfCloud, CloudNext
<1>3. QED
  BY <1>1, <1>2, PTL DEF Spec

LEMMA NextOfBridge == CloudInv /\ [Next]_vars => [Bridge!Next]_bridgeVars
<1> SUFFICES ASSUME CloudInv, [Next]_vars PROVE [Bridge!Next]_bridgeVars
  OBVIOUS
<1>1. CASE \E t \in Tabs, j \in Jobs : PrintDirectly(t, j) \/ PrintByServer(t, j)
  BY <1>1 DEF PrintDirectly, PrintByServer, Bridge!Next, bridgeVars
<1>2. CASE \E j \in Jobs : ArriveLate(j)
  BY <1>2 DEF ArriveLate, Bridge!Next, bridgeVars
<1>3. ASSUME NEW c \in Cloud!Rows, Forward(c) PROVE Bridge!Next
  <2>1. cloud[c].ticket \in Jobs
    BY <1>3 DEF Forward, Cloud!SendToBridge, CloudInv, RowsUsed
  <2>2. QED
    BY <1>3, <2>1 DEF Forward, Bridge!Next
<1>4. CASE UNCHANGED vars
  BY <1>4 DEF vars, bridgeVars
<1>5. QED
  BY <1>1, <1>2, <1>3, <1>4 DEF Next, Bridge!Next

-----------------------------------------------------------------------------
(* Bridge!Next is the step of the instance the composition makes, BP!Next   *)
(* that of the instance whose lemmas are cited: two names of one formula,   *)
(* which the provers see only once both are expanded.                       *)

LEMMA SameBridge ==
  /\ Bridge!Init <=> BP!Init
  /\ Bridge!TypeOK <=> BP!TypeOK
  BY DEF Bridge!Slots, Bridge!NoSlot, Bridge!JobStatus, Bridge!Job, Bridge!NoJob, Bridge!Worker,
         Bridge!IdleWorker, Bridge!Init, Bridge!TypeOK,
         BP!Slots, BP!NoSlot, BP!JobStatus, BP!Job, BP!NoJob, BP!Worker,
         BP!IdleWorker, BP!Init, BP!TypeOK

LEMMA SameCardinality == \A S : Bridge!Cardinality(S) = BP!Cardinality(S)
  BY DEF Bridge!Cardinality, BP!Cardinality, Bridge!IsFiniteSet, BP!IsFiniteSet

LEMMA SameSets ==
  /\ Bridge!Slots = BP!Slots /\ Bridge!Queued = BP!Queued /\ Bridge!Ready = BP!Ready
  /\ Bridge!NoJob = BP!NoJob /\ Bridge!NoSlot = BP!NoSlot /\ Bridge!IdleWorker = BP!IdleWorker
  /\ Bridge!Done = BP!Done /\ Bridge!NextSlot = BP!NextSlot
  BY DEF Bridge!Slots, Bridge!Queued, Bridge!Ready, Bridge!NoJob, Bridge!NoSlot, Bridge!IdleWorker,
         Bridge!Done, Bridge!NextSlot,
         BP!Slots, BP!Queued, BP!Ready, BP!NoJob, BP!NoSlot, BP!IdleWorker, BP!Done, BP!NextSlot

LEMMA SameRequest ==
  ASSUME NEW x, NEW identified, Bridge!Enqueue(x, identified) PROVE BP!Enqueue(x, identified)
  BY SameSets DEF Bridge!Enqueue, Bridge!Duplicate, Bridge!DedupeKey, Bridge!NewJob,
                  BP!Enqueue, BP!Duplicate, BP!DedupeKey, BP!NewJob

LEMMA SameRemoval ==
  ASSUME NEW aged
  PROVE  /\ Bridge!Removed(aged) = BP!Removed(aged)
         /\ Bridge!Without(aged) = BP!Without(aged) /\ Bridge!Excused(aged) = BP!Excused(aged)
<1>1. Bridge!Removed(aged) = BP!Removed(aged)
  BY SameSets, SameCardinality DEF Bridge!Removed, BP!Removed
<1>2. Bridge!Without(aged) = BP!Without(aged)
  BY SameSets, Zenon DEF Bridge!Without, BP!Without
<1>3. Bridge!Excused(aged) = BP!Excused(aged)
  BY DEF Bridge!Excused, BP!Excused
<1>4. QED
  BY <1>1, <1>2, <1>3

LEMMA SameTake == ASSUME Bridge!TakeBatch PROVE BP!TakeBatch
  BY SameSets, SameCardinality DEF Bridge!TakeBatch, BP!TakeBatch

LEMMA SamePrint ==
  ASSUME NEW n
  PROVE  /\ Bridge!StartPrint(n) => BP!StartPrint(n)
         /\ Bridge!PrintTicket(n) => BP!PrintTicket(n)
         /\ Bridge!RecordAck(n) => BP!RecordAck(n)
         /\ Bridge!RetryDue(n) => BP!RetryDue(n)
         /\ Bridge!PrintThrows(n) => BP!PrintThrows(n)
<1>1. Bridge!AfterThrow(jobs[n]) = BP!AfterThrow(jobs[n])
  BY DEF Bridge!AfterThrow, BP!AfterThrow
<1>2. QED
  BY <1>1, SameSets
     DEF Bridge!StartPrint, Bridge!PrintTicket, Bridge!RecordAck, Bridge!RetryDue, Bridge!PrintThrows,
         BP!StartPrint, BP!PrintTicket, BP!RecordAck, BP!RetryDue, BP!PrintThrows

LEMMA SameTrim ==
  /\ Bridge!Trim => BP!Trim
  /\ Bridge!Restart => BP!Restart
  BY SameSets, SameRemoval DEF Bridge!Trim, Bridge!Restart, BP!Trim, BP!Restart

LEMMA SameStep == [Bridge!Next]_bridgeVars => [BP!Next]_BP!vars
<1>1. Bridge!WorkerStep => BP!WorkerStep
  BY SameSets, SameTake, SamePrint, SameTrim DEF Bridge!WorkerStep, BP!WorkerStep
<1>2. Bridge!Next => BP!Next
  BY <1>1, SameSets, SamePrint, SameRequest, SameTrim DEF Bridge!Next, BP!Next
<1>3. UNCHANGED bridgeVars => UNCHANGED BP!vars
  BY DEF bridgeVars, BP!vars
<1>4. QED
  BY <1>2, <1>3

-----------------------------------------------------------------------------
(* The queue, likewise.                                                     *)

LEMMA SameRows ==
  /\ Queue!NoRow = QP!NoRow /\ Queue!NoCall = QP!NoCall /\ Queue!NoRun = QP!NoRun
  /\ Queue!Existing = QP!Existing /\ Queue!AckedRows = QP!AckedRows /\ Queue!Cleared = QP!Cleared
  /\ \A a, b : Queue!Lesser(a, b) = QP!Lesser(a, b)
  /\ \A force : Queue!Ready(force) = QP!Ready(force)
  /\ \A S : Queue!Cardinality(S) = QP!Cardinality(S)
  /\ Queue!StorageFails <=> QP!StorageFails
<1>1. \A S : Queue!Cardinality(S) = QP!Cardinality(S)
  BY DEF Queue!Cardinality, QP!Cardinality, Queue!IsFiniteSet, QP!IsFiniteSet
<1>2. Queue!NoRow = QP!NoRow /\ Queue!NoCall = QP!NoCall
  BY DEF Queue!NoRow, QP!NoRow, Queue!NoCall, QP!NoCall
<1>3. Queue!NoRun = QP!NoRun
  BY <1>2, Zenon DEF Queue!NoRun, QP!NoRun
<1>4. Queue!Existing = QP!Existing /\ Queue!AckedRows = QP!AckedRows
  BY DEF Queue!Existing, QP!Existing, Queue!AckedRows, QP!AckedRows
<1>5. Queue!Cleared = QP!Cleared /\ \A force : Queue!Ready(force) = QP!Ready(force)
  BY <1>4 DEF Queue!Cleared, QP!Cleared, Queue!Ready, QP!Ready
<1>6. \A a, b : Queue!Lesser(a, b) = QP!Lesser(a, b)
  BY DEF Queue!Lesser, QP!Lesser
<1>7. Queue!StorageFails <=> QP!StorageFails
  BY DEF Queue!StorageFails, QP!StorageFails
<1>8. QED
  BY <1>1, <1>2, <1>3, <1>4, <1>5, <1>6, <1>7

LEMMA SameTab ==
  ASSUME NEW t
  PROVE  /\ Queue!Chunk(t) = QP!Chunk(t)
         /\ \A force : Queue!Started(t, force) = QP!Started(t, force)
         /\ \A j : Queue!NextRoute(t, j) = QP!NextRoute(t, j)
  BY DEF Queue!Chunk, QP!Chunk, Queue!Started, QP!Started, Queue!NextRoute, QP!NextRoute

LEMMA SameOutcome ==
  ASSUME NEW row, NEW step
  PROVE  Queue!Printing(row) = QP!Printing(row) /\ Queue!Outcome(row, step) = QP!Outcome(row, step)
<1>1. Queue!Printing(row) = QP!Printing(row) /\ Queue!Acked(row) = QP!Acked(row)
  BY SameRows DEF Queue!Printing, QP!Printing, Queue!Acked, QP!Acked
<1>2. Queue!Failed(row) = QP!Failed(row)
  BY SameRows, Zenon DEF Queue!Failed, QP!Failed
<1>3. QED
  BY <1>1, <1>2 DEF Queue!Outcome, QP!Outcome

LEMMA SameCalls ==
  ASSUME NEW t, NEW j, NEW i, NEW k, NEW force
  PROVE  /\ Queue!QueueRead(t, k, j) => QP!QueueRead(t, k, j)
         /\ Queue!QueueWrite(t, j) => QP!QueueWrite(t, j)
         /\ Queue!Process(t, force) => QP!Process(t, force)
         /\ Queue!Reprint(t, j, i) => QP!Reprint(t, j, i)
  BY SameRows, SameTab
     DEF Queue!QueueRead, Queue!QueueWrite, Queue!Process, Queue!Reprint, Queue!Duplicate, Queue!StoreNew,
         QP!QueueRead, QP!QueueWrite, QP!Process, QP!Reprint, QP!Duplicate, QP!StoreNew

LEMMA SameRun ==
  ASSUME NEW t
  PROVE  Queue!RunStep(t) => QP!RunStep(t)
<1>1. Queue!ReadRows(t) => QP!ReadRows(t)
  <2>1. Queue!Ready(run[t].force) = QP!Ready(run[t].force) /\ Queue!NoRun = QP!NoRun /\ Queue!NoRow = QP!NoRow
    BY SameRows
  <2>2. \A a, b, S : Queue!Lesser(a, b) = QP!Lesser(a, b) /\ Queue!Cardinality(S) = QP!Cardinality(S)
    BY SameRows
  <2>3. Queue!StorageFails <=> QP!StorageFails
    BY SameRows
  <2>4. ASSUME Queue!ReadRows(t)
        PROVE  QP!ReadRows(t)
    <3>1. PICK batch \in SUBSET Queue!Ready(run[t].force) :
            /\ \/ Queue!Cardinality(batch)
                    = Queue!Lesser(MaxBatch, Queue!Cardinality(Queue!Ready(run[t].force)))
               \/ Queue!StorageFails /\ batch = {}
            /\ run' = [run EXCEPT ![t] =
                 IF batch = {} THEN [Queue!NoRun EXCEPT !.phase = "ending"]
                 ELSE [Queue!NoRun EXCEPT !.phase = "working", !.todo = batch,
                         !.copy = [j \in Jobs |-> IF j \in batch THEN rows[j] ELSE Queue!NoRow]]]
      BY <2>4, Zenon DEF Queue!ReadRows
    <3>2. batch \in SUBSET QP!Ready(run[t].force)
      BY <2>1
    <3>3. \/ QP!Cardinality(batch) = QP!Lesser(MaxBatch, QP!Cardinality(QP!Ready(run[t].force)))
          \/ QP!StorageFails /\ batch = {}
      BY <3>1, <2>1, <2>2, <2>3
    <3>4. run' = [run EXCEPT ![t] =
            IF batch = {} THEN [QP!NoRun EXCEPT !.phase = "ending"]
            ELSE [QP!NoRun EXCEPT !.phase = "working", !.todo = batch,
                    !.copy = [j \in Jobs |-> IF j \in batch THEN rows[j] ELSE QP!NoRow]]]
      BY <3>1, <2>1
    <3>5. run[t].phase = "starting" /\ UNCHANGED <<rows, call, late, accepted>>
      BY <2>4 DEF Queue!ReadRows
    <3>6. QED
      BY <3>2, <3>3, <3>4, <3>5 DEF QP!ReadRows
  <2>5. QED
    BY <2>4
<1>2. Queue!NextChunk(t) => QP!NextChunk(t)
  BY SameRows, SameTab DEF Queue!NextChunk, QP!NextChunk
<1>3. (Queue!Finish(t) => QP!Finish(t)) /\ (Queue!End(t) => QP!End(t))
  BY SameRows, SameTab DEF Queue!Finish, QP!Finish, Queue!End, QP!End
<1>4. \A j : /\ Queue!Mark(t, j) => QP!Mark(t, j)
             /\ Queue!GiveUp(t, j) => QP!GiveUp(t, j)
             /\ Queue!BadAnswer(t, j) => QP!BadAnswer(t, j)
             /\ Queue!WriteOutcome(t, j) => QP!WriteOutcome(t, j)
  BY SameRows, SameTab, SameOutcome
     DEF Queue!Mark, Queue!GiveUp, Queue!BadAnswer, Queue!WriteOutcome, Queue!Write,
         QP!Mark, QP!GiveUp, QP!BadAnswer, QP!WriteOutcome, QP!Write
<1>5. QED
  BY <1>1, <1>2, <1>3, <1>4 DEF Queue!RunStep, QP!RunStep

LEMMA SameTime ==
  /\ \A j : /\ Queue!RetryDue(j) => QP!RetryDue(j)
            /\ Queue!AckAges(j) => QP!AckAges(j)
            /\ Queue!DeliverLate(j) => QP!DeliverLate(j)
  /\ \A t, j : Queue!Deliver(t, j) => QP!Deliver(t, j)
  /\ \A t : Queue!CloseTab(t) => QP!CloseTab(t)
  /\ Queue!ClearAcked => QP!ClearAcked
  BY SameRows DEF Queue!RetryDue, Queue!AckAges, Queue!DeliverLate, Queue!Deliver, Queue!CloseTab,
     Queue!ClearAcked, QP!RetryDue, QP!AckAges, QP!DeliverLate, QP!Deliver, QP!CloseTab, QP!ClearAcked

LEMMA SameQueueStep == [Queue!Next]_queueVars => [QP!Next]_QP!vars
<1>1. Queue!Local => QP!Local
  BY SameCalls, SameRun, SameTime DEF Queue!Local, QP!Local
<1>2. Queue!Next => QP!Next
  BY <1>1, SameTime DEF Queue!Next, QP!Next
<1>3. QED
  BY <1>2 DEF queueVars, QP!vars

-----------------------------------------------------------------------------
(* What was accepted has been handed on.                                    *)

Blank == \A n \in BP!Slots : /\ jobs[n].status = "free" => jobs[n].ticket = NoRequestId
                             /\ jobs[n].key \in {NoRequestId, jobs[n].ticket}

HandedOn(j) ==
  \/ j \in excused
  \/ \E n \in BP!Slots : jobs[n].ticket = j
  \/ \E c \in Cloud!Rows : cloud[c].ticket = j

Handed == \A j \in accepted : HandedOn(j)

\* Removal forgets the ticket of a job, and excuses it.
Forgotten(removed) ==
  /\ jobs' = BP!Without(removed)
  /\ excused' = BP!Excused(removed)

LEMMA RemovalBlank ==
  ASSUME Blank, NEW removed, Forgotten(removed)
  PROVE  /\ Blank' /\ excused \subseteq excused'
         /\ \A n \in BP!Slots : jobs'[n].ticket = jobs[n].ticket \/ jobs[n].ticket \in excused'
<1>1. \A n \in BP!Slots : jobs'[n] = IF n \in removed THEN [BP!NoJob EXCEPT !.status = "gone"] ELSE jobs[n]
  BY Zenon DEF Forgotten, BP!Without
<1>2. /\ BP!NoJob.ticket = NoRequestId /\ BP!NoJob.key = NoRequestId
      /\ \A n \in removed : jobs[n].ticket \in excused'
      /\ excused \subseteq excused'
  BY DEF BP!NoJob, Forgotten, BP!Excused
<1>3. \A n \in BP!Slots \cap removed : jobs'[n].status = "gone" /\ jobs'[n].ticket = NoRequestId
                                       /\ jobs'[n].key = NoRequestId
  BY <1>1 DEF BP!NoJob
<1>4. \A n \in BP!Slots \ removed : jobs'[n] = jobs[n]
  BY <1>1
<1>5. ASSUME NEW n \in BP!Slots
      PROVE  /\ jobs'[n].status = "free" => jobs'[n].ticket = NoRequestId
             /\ jobs'[n].key \in {NoRequestId, jobs'[n].ticket}
             /\ jobs'[n].ticket = jobs[n].ticket \/ jobs[n].ticket \in excused'
  <2>1. CASE n \in removed
    BY <1>2, <1>3, <2>1
  <2>2. CASE n \notin removed
    BY <1>4, <2>2 DEF Blank
  <2>3. QED
    BY <2>1, <2>2
<1>6. Blank'
  BY <1>5 DEF Blank
<1>7. QED
  BY <1>2, <1>5, <1>6

\* A job of the bridge keeps its ticket, or the ticket is excused.
LEMMA TicketsStay ==
  ASSUME BP!TypeOK, Blank, [BP!Next]_BP!vars
  PROVE  /\ Blank' /\ excused \subseteq excused'
         /\ \A n \in BP!Slots : jobs[n].ticket = NoRequestId \/ jobs'[n].ticket = jobs[n].ticket
                                \/ jobs[n].ticket \in excused'
<1> USE DEF Blank
<1>1. jobs \in [BP!Slots -> BP!Job]
  BY DEF BP!TypeOK
<1>2. ASSUME NEW x, NEW identified, BP!Enqueue(x, identified)
      PROVE  /\ Blank' /\ excused \subseteq excused'
             /\ \A n \in BP!Slots : jobs[n].ticket = NoRequestId \/ jobs'[n].ticket = jobs[n].ticket
  <2>1. CASE UNCHANGED jobs
    BY <1>2, <2>1 DEF BP!Enqueue
  <2>2. ASSUME NEW n \in BP!NextSlot, jobs' = [jobs EXCEPT ![n] = BP!NewJob(x, identified)]
        PROVE  /\ Blank'
               /\ \A m \in BP!Slots : jobs[m].ticket = NoRequestId \/ jobs'[m].ticket = jobs[m].ticket
    <3>1. n \in BP!Slots /\ jobs[n].status = "free" /\ jobs'[n] = BP!NewJob(x, identified)
          /\ \A m \in BP!Slots \ {n} : jobs'[m] = jobs[m]
      BY <1>1, <2>2 DEF BP!NextSlot
    <3>2. BP!NewJob(x, identified).status = "pending" /\ BP!NewJob(x, identified).ticket = x
          /\ BP!NewJob(x, identified).key \in {NoRequestId, x}
      BY DEF BP!NewJob, BP!DedupeKey
    <3>3. QED
      BY <3>1, <3>2
  <2>3. QED
    BY <1>2, <2>1, <2>2 DEF BP!Enqueue
<1>3. ASSUME NEW n \in BP!Slots,
             \/ BP!StartPrint(n) \/ BP!PrintTicket(n) \/ BP!RecordAck(n) \/ BP!PrintThrows(n) \/ BP!RetryDue(n)
      PROVE  /\ Blank' /\ excused \subseteq excused'
             /\ \A m \in BP!Slots : jobs'[m].ticket = jobs[m].ticket
  <2>1. jobs[n] \in BP!Job
    BY <1>1
  <2>2. CASE BP!PrintTicket(n)
    BY <2>2 DEF BP!PrintTicket
  <2>3. CASE BP!StartPrint(n)
    BY <1>1, <2>1, <2>3 DEF BP!StartPrint, BP!Job
  <2>4. CASE BP!RecordAck(n) \/ BP!RetryDue(n)
    BY <1>1, <2>1, <2>4 DEF BP!RecordAck, BP!RetryDue, BP!Job
  <2>5. CASE BP!PrintThrows(n)
    <3>1. PICK status \in {"dead", "failed"} :
            BP!AfterThrow(jobs[n]) = [jobs[n] EXCEPT !.status = status, !.wait = TRUE]
      BY DEF BP!AfterThrow
    <3>2. BP!AfterThrow(jobs[n]).status = status /\ BP!AfterThrow(jobs[n]).ticket = jobs[n].ticket
          /\ BP!AfterThrow(jobs[n]).key = jobs[n].key
      BY <2>1, <3>1 DEF BP!Job
    <3>3. QED
      BY <1>1, <2>5, <3>2 DEF BP!PrintThrows
  <2>6. QED
    BY <1>3, <2>2, <2>3, <2>4, <2>5
<1>4. CASE BP!TakeBatch \/ UNCHANGED BP!vars
  BY <1>4 DEF BP!TakeBatch, BP!vars
<1>5. CASE BP!Trim \/ BP!Restart
  <2>1. UNCHANGED <<jobs, excused>> \/ \E removed : Forgotten(removed)
    BY <1>5 DEF BP!Trim, BP!Restart, Forgotten
  <2>2. QED
    BY <2>1, RemovalBlank
<1>6. QED
  BY <1>2, <1>3, <1>4, <1>5 DEF BP!Next, BP!WorkerStep

\* A row of the server keeps its ticket.
LEMMA RowTicketsStay ==
  ASSUME CloudInv, [Cloud!Next]_cloudVars
  PROVE  \A c \in Cloud!Rows : cloud[c].ticket = 0 \/ cloud'[c].ticket = cloud[c].ticket
<1>1. cloud \in [Cloud!Rows -> Cloud!CloudJob]
      /\ poll.step \in {"send", "report", "failing"} => poll.current \in Cloud!Rows
  BY DEF CloudInv, Cloud!TypeOK
<1>2. ASSUME NEW c \in Cloud!Rows, NEW status, cloud' = Cloud!Patched(c, status)
      PROVE  \A d \in Cloud!Rows : cloud'[d].ticket = cloud[d].ticket
  BY <1>1, <1>2 DEF Cloud!Patched, Cloud!CloudJob
<1>3. ASSUME NEW x \in Jobs, Cloud!Submit(x)
      PROVE  \A c \in Cloud!Rows : cloud[c].ticket = 0 \/ cloud'[c].ticket = cloud[c].ticket
  BY <1>1, <1>3 DEF Cloud!Submit, CloudInv, RowsUsed, Cloud!NoRow
<1>4. CASE Cloud!PollStep
  BY <1>2, <1>4 DEF Cloud!PollStep, Cloud!ReadJobs, Cloud!EndCycle, Cloud!MarkPrinting, Cloud!SendFails,
                    Cloud!ReportPrinted, Cloud!ReportFailed
<1>5. CASE Cloud!StopDesktop \/ UNCHANGED cloudVars
  BY <1>5 DEF Cloud!StopDesktop, cloudVars
<1>6. ASSUME NEW c \in Cloud!Rows, Cloud!SendToBridge(c) PROVE UNCHANGED cloud
  BY <1>6 DEF Cloud!SendToBridge
<1>7. QED
  BY <1>3, <1>4, <1>5, <1>6 DEF Cloud!Next

\* A job that is accepted in a step is handed on in it.
LEMMA AcceptedInStep ==
  ASSUME CloudInv, BP!TypeOK, Blank, [Next]_vars
  PROVE  \A j \in accepted' \ accepted : j \in Jobs /\ HandedOn(j)'
<1>1. ASSUME NEW j \in Jobs, Bridge!Enqueue(j, TRUE) PROVE HandedOn(j)'
  <2>1. CASE BP!Duplicate(j) /\ UNCHANGED jobs
    <3>1. PICK n \in BP!Queued : jobs[n].key = j
      BY <2>1 DEF BP!Duplicate
    <3>2. n \in BP!Slots /\ jobs[n].ticket = j
      BY <3>1, PipelineAssumption DEF BP!Queued, Blank
    <3>3. QED
      BY <2>1, <3>2 DEF HandedOn
  <2>2. CASE \E n \in BP!NextSlot : jobs' = [jobs EXCEPT ![n] = BP!NewJob(j, TRUE)]
    <3>1. PICK n \in BP!NextSlot : jobs' = [jobs EXCEPT ![n] = BP!NewJob(j, TRUE)]
      BY <2>2
    <3>2. n \in BP!Slots /\ BP!NewJob(j, TRUE).ticket = j
      BY <3>1 DEF BP!NextSlot, BP!NewJob
    <3>3. jobs \in [BP!Slots -> BP!Job]
      BY DEF BP!TypeOK
    <3>4. QED
      BY <3>1, <3>2, <3>3 DEF HandedOn
  <2>3. QED
    BY <1>1, <2>1, <2>2, SameRequest DEF BP!Enqueue, BP!DedupeKey
<1>2. ASSUME NEW j \in Jobs, Cloud!Submit(j) PROVE HandedOn(j)'
  BY <1>2 DEF Cloud!Submit, CloudInv, Cloud!TypeOK, HandedOn
<1>3. ASSUME NEW t \in Tabs, NEW j \in Jobs, PrintDirectly(t, j) \/ PrintByServer(t, j)
      PROVE  HandedOn(j)' /\ accepted' = accepted \cup {j}
  BY <1>1, <1>2, <1>3 DEF PrintDirectly, PrintByServer, Queue!Deliver
<1>4. ASSUME NEW j \in Jobs, ArriveLate(j)
      PROVE  HandedOn(j)' /\ accepted' = accepted \cup {j}
  BY <1>1, <1>2, <1>4 DEF ArriveLate, Queue!DeliverLate
<1>5. CASE Queue!Local
  <2>1. ASSUME NEW t \in Tabs, Queue!RunStep(t) PROVE accepted' = accepted
    BY <2>1, Zenon DEF Queue!RunStep, Queue!ReadRows, Queue!NextChunk, Queue!Finish, Queue!End, Queue!Mark,
       Queue!GiveUp, Queue!BadAnswer, Queue!WriteOutcome
  <2>2. QED
    BY <1>5, <2>1 DEF Queue!Local, Queue!QueueWrite, Queue!QueueRead, Queue!Reprint, Queue!Process,
       Queue!CloseTab, Queue!RetryDue, Queue!AckAges, Queue!ClearAcked
<1>6. CASE UNCHANGED queueVars
  BY <1>6 DEF queueVars
<1>7. QED
  BY <1>3, <1>4, <1>5, <1>6 DEF Next, Forward, vars, queueVars

PipelineInv ==
  /\ QP!QueueInv /\ BP!BridgeInv /\ CloudInv
  /\ Blank /\ Handed

LEMMA PartAssumptions == QP!QueueAssumption /\ BP!BridgeAssumption
  BY PipelineAssumption DEF QP!QueueAssumption, BP!BridgeAssumption

LEMMA PipelineInit == Init => PipelineInv
<1> SUFFICES ASSUME Init PROVE PipelineInv
  OBVIOUS
<1>1. QP!Init
  BY SameRows DEF Init, Queue!Init, QP!Init
<1>2. BP!Init
  BY SameBridge DEF Init
<1>3. QP!QueueInv /\ BP!BridgeInv /\ CloudInv
  BY <1>1, <1>2, CloudInit, PartAssumptions, QP!QueueInit, BP!BridgeInit DEF Init
<1>4. Blank /\ Handed
  BY <1>1, <1>2 DEF QP!Init, BP!Init, BP!NoJob, Blank, Handed
<1>5. QED
  BY <1>3, <1>4 DEF PipelineInv

LEMMA PipelineNext == PipelineInv /\ [Next]_vars => PipelineInv'
<1> SUFFICES ASSUME PipelineInv, [Next]_vars PROVE PipelineInv'
  OBVIOUS
<1> USE DEF PipelineInv
<1>1. [QP!Next]_QP!vars
  BY NextOfQueue, SameQueueStep
<1>2. [BP!Next]_BP!vars
  BY NextOfBridge, SameStep
<1>3. QP!QueueInv' /\ BP!BridgeInv' /\ CloudInv'
  BY <1>1, <1>2, NextOfCloud, CloudNext, PartAssumptions, QP!QueueNext, BP!BridgeNext
<1>4. QP!TypeOK /\ BP!TypeOK /\ accepted \subseteq Jobs
  BY DEF QP!QueueInv, BP!BridgeInv, QP!TypeOK
<1>5. /\ Blank' /\ excused \subseteq excused'
      /\ \A n \in BP!Slots : jobs[n].ticket = NoRequestId \/ jobs'[n].ticket = jobs[n].ticket
                             \/ jobs[n].ticket \in excused'
  BY <1>2, <1>4, TicketsStay
<1>6. \A c \in Cloud!Rows : cloud[c].ticket = 0 \/ cloud'[c].ticket = cloud[c].ticket
  BY NextOfCloud, RowTicketsStay
<1>7. ASSUME NEW j \in accepted PROVE HandedOn(j)'
  <2>1. HandedOn(j) /\ j # NoRequestId /\ j # 0
    BY <1>4, <1>7, PipelineAssumption DEF Handed
  <2>2. QED
    BY <1>5, <1>6, <2>1 DEF HandedOn
<1>8. Handed'
  BY <1>4, <1>7, AcceptedInStep DEF Handed
<1>9. QED
  BY <1>3, <1>5, <1>8

LEMMA PipelineInvariant == Spec => []PipelineInv
  BY PipelineInit, PipelineNext, PTL DEF Spec

-----------------------------------------------------------------------------

\* Every behaviour of the composition is, for the browser, one of its queue
\* alone, for the bridge one of the bridge, and for the server one of its jobs.
THEOREM ComposedOfParts == Spec => Queue!Spec /\ Bridge!Spec /\ Cloud!Spec
<1>1. Init => Queue!Init /\ Bridge!Init /\ Cloud!Init
  BY DEF Init
<1>2. [Next]_vars => [Queue!Next]_Queue!vars
  BY NextOfQueue DEF queueVars, Queue!vars
<1>3. [Next]_vars => [Cloud!Next]_Cloud!vars
  BY NextOfCloud DEF cloudVars, Cloud!vars
<1>4. CloudInv /\ [Next]_vars => [Bridge!Next]_Bridge!vars
  BY NextOfBridge DEF bridgeVars, Bridge!vars
<1>5. QED
  BY <1>1, <1>2, <1>3, <1>4, CloudInvariant, PTL DEF Spec, Queue!Spec, Bridge!Spec, Cloud!Spec

\* The queue of the browser, the bridge and the jobs of the server are well typed.
THEOREM TypeCorrect == Spec => []TypeOK
<1>1. Queue!TypeOK <=> QP!TypeOK
  BY DEF Queue!TypeOK, Queue!Row, Queue!RowStatus, Queue!Call, Queue!Run, Queue!Steps,
         QP!TypeOK, QP!Row, QP!RowStatus, QP!Call, QP!Run, QP!Steps
<1>2. PipelineInv => TypeOK
  BY <1>1, SameBridge DEF PipelineInv, QP!QueueInv, BP!BridgeInv, CloudInv, TypeOK
<1>3. QED
  BY <1>2, PipelineInvariant, PTL

\* A row of the browser that says acked was handed on: the bridge has its job,
\* the server stores it, or the bridge dropped it and the ticket is excused.
THEOREM AckedHandedOn == Spec => []AckedIsHandedOn
<1>1. PipelineInv => AckedIsHandedOn
  BY SameSets, SameRows DEF PipelineInv, QP!QueueInv, QP!AckedIsAccepted, Handed, HandedOn, AckedIsHandedOn
<1>2. QED
  BY <1>1, PipelineInvariant, PTL

\* What the server stores as printed was sent to a bridge, whatever reports of
\* the desktop application were lost before.
THEOREM PrintedSent == Spec => []PrintedWasSent
<1>1. CloudInv => PrintedWasSent
  BY DEF CloudInv, PrintedWasSent
<1>2. QED
  BY <1>1, CloudInvariant, PTL
=============================================================================
