-------------------------- MODULE PrintQueueProofs --------------------------
(***************************************************************************)
(* For any number of tabs, rows, attempts and routes: a row that says      *)
(* acked is about a job a bridge took, and a job no bridge took keeps its  *)
(* row, although every tab writes rows from a copy that may be old.  A row *)
(* is written as acked only by a tab whose own request was answered        *)
(* (TakenIsAccepted), and only acked rows are ever deleted.  A row that    *)
(* says printing is one that a tab is at, unless a tab was closed or a row *)
(* could not be written (ReachInv).                                        *)
(***************************************************************************)
EXTENDS PrintQueueHistory, TLAPS

TakenIsAccepted ==
  \A t \in Tabs, j \in Jobs : run[t].step[j] = "taken" => j \in accepted

QueueInv == TypeOK /\ AckedIsAccepted /\ TakenIsAccepted /\ RowsKeptUntilAccepted

-----------------------------------------------------------------------------
(* The rows and the runs that are written.                                  *)

LEMMA NextAttempt ==
  ASSUME NEW n \in 0 .. MaxAttempts PROVE Lesser(n + 1, MaxAttempts) \in 0 .. MaxAttempts
  BY QueueAssumption DEF Lesser

LEMMA RowsTyped ==
  ASSUME NEW row \in Row
  PROVE  /\ Printing(row) \in Row /\ Printing(row).status = "printing"
         /\ Acked(row) \in Row /\ Acked(row).status = "acked"
         /\ Failed(row) \in Row /\ Failed(row).status = "failed"
<1> DEFINE again == row.attempts + 1 < MaxAttempts
<1>1. row.attempts \in 0 .. MaxAttempts /\ Lesser(row.attempts + 1, MaxAttempts) \in 0 .. MaxAttempts
  BY NextAttempt DEF Row
<1>2. Printing(row) = [row EXCEPT !.status = "printing", !.attempts = Lesser(row.attempts + 1, MaxAttempts)]
  BY DEF Printing
<1>3. Acked(row) = [row EXCEPT !.status = "acked", !.attempts = Lesser(row.attempts + 1, MaxAttempts),
                               !.later = FALSE, !.recent = TRUE]
  BY DEF Acked
<1>4. Failed(row) = [row EXCEPT !.status = "failed", !.attempts = Lesser(row.attempts + 1, MaxAttempts),
                                !.later = again]
      /\ again \in BOOLEAN
  BY DEF Failed
<1> HIDE DEF again
<1>5. Printing(row) \in Row /\ Printing(row).status = "printing"
  BY <1>1, <1>2 DEF Row, RowStatus
<1>6. Acked(row) \in Row /\ Acked(row).status = "acked"
  BY <1>1, <1>3 DEF Row, RowStatus
<1>7. Failed(row) \in Row /\ Failed(row).status = "failed"
  BY <1>1, <1>4 DEF Row, RowStatus
<1>8. QED
  BY <1>5, <1>6, <1>7

LEMMA EmptyTyped ==
  /\ NoRow \in Row /\ NoRow.status = "absent"
  /\ NoRun \in Run /\ NoRun.phase = "idle" /\ \A j \in Jobs : NoRun.step[j] = "none"
  /\ NoCall \in Call /\ NoCall.state = "unused"
<1>1. NoRow \in Row /\ NoRow.status = "absent" /\ NoCall \in Call /\ NoCall.state = "unused"
  BY QueueAssumption DEF NoRow, Row, RowStatus, NoCall, Call
<1>2. NoRun \in Run /\ NoRun.phase = "idle" /\ \A j \in Jobs : NoRun.step[j] = "none"
  BY <1>1, QueueAssumption DEF NoRun, Run, Steps
<1>3. QED
  BY <1>1, <1>2

\* A row is written in place of another, or should have been; no other job's call ends.
LEMMA RowWritten ==
  ASSUME QueueInv, NEW j \in Jobs, NEW row \in Row,
         rows' = [rows EXCEPT ![j] = row] \/ (rows' = rows /\ UNCHANGED call),
         row.status # "absent", row.status = "acked" => j \in accepted, accepted' = accepted,
         \A i \in Jobs \ {j} : call'[i].state = "used" => call[i].state = "used"
  PROVE  rows' \in [Jobs -> Row] /\ AckedIsAccepted' /\ RowsKeptUntilAccepted'
<1>1. rows \in [Jobs -> Row]
  BY DEF QueueInv, TypeOK
<1>2. \/ \A i \in Jobs : rows'[i] = IF i = j THEN row ELSE rows[i]
      \/ rows' = rows /\ UNCHANGED call
  BY <1>1
<1>3. AckedIsAccepted'
  BY <1>2 DEF QueueInv, AckedIsAccepted, AckedRows
<1>4. RowsKeptUntilAccepted'
  BY <1>2 DEF QueueInv, RowsKeptUntilAccepted
<1>5. QED
  BY <1>1, <1>3, <1>4

LEMMA AckedRowsDeleted ==
  ASSUME QueueInv, NEW gone \in SUBSET AckedRows,
         rows' = [j \in Jobs |-> IF j \in gone THEN NoRow ELSE rows[j]],
         UNCHANGED <<call, accepted>>
  PROVE  rows' \in [Jobs -> Row] /\ AckedIsAccepted' /\ RowsKeptUntilAccepted'
<1>1. rows \in [Jobs -> Row] /\ NoRow \in Row /\ NoRow.status = "absent"
  BY EmptyTyped DEF QueueInv, TypeOK
<1>2. gone \subseteq accepted
  BY DEF QueueInv, AckedIsAccepted
<1>3. AckedIsAccepted'
  BY <1>1 DEF QueueInv, AckedIsAccepted, AckedRows
<1>4. RowsKeptUntilAccepted'
  BY <1>2 DEF QueueInv, RowsKeptUntilAccepted
<1>5. QED
  BY <1>1, <1>3, <1>4

LEMMA RowsLeft ==
  ASSUME QueueInv, rows' = rows, accepted \subseteq accepted',
         \A i \in Jobs : call'[i].state = "used" => call[i].state = "used"
  PROVE  rows' \in [Jobs -> Row] /\ AckedIsAccepted' /\ RowsKeptUntilAccepted'
<1>1. rows' \in [Jobs -> Row]
  BY DEF QueueInv, TypeOK
<1>2. AckedIsAccepted'
  BY DEF QueueInv, AckedIsAccepted, AckedRows
<1>3. RowsKeptUntilAccepted'
  BY DEF QueueInv, RowsKeptUntilAccepted
<1>4. QED
  BY <1>1, <1>2, <1>3

LEMMA RunWritten ==
  ASSUME QueueInv, NEW t \in Tabs, NEW new \in Run, run' = [run EXCEPT ![t] = new],
         \A j \in Jobs : new.step[j] = "taken" => j \in accepted' \/ run[t].step[j] = "taken",
         accepted \subseteq accepted'
  PROVE  run' \in [Tabs -> Run] /\ TakenIsAccepted'
<1>1. run \in [Tabs -> Run]
  BY DEF QueueInv, TypeOK
<1>2. \A u \in Tabs : run'[u] = IF u = t THEN new ELSE run[u]
  BY <1>1
<1>3. TakenIsAccepted'
  BY <1>2 DEF QueueInv, TakenIsAccepted
<1>4. QED
  BY <1>1, <1>3

LEMMA RunStarted ==
  ASSUME QueueInv, NEW t \in Tabs, NEW force \in BOOLEAN, run' = Started(t, force) \/ run' = run,
         accepted' = accepted
  PROVE  run' \in [Tabs -> Run] /\ TakenIsAccepted'
<1> DEFINE new == [run[t] EXCEPT !.phase = "starting", !.force = force]
<1>1. run \in [Tabs -> Run] /\ run[t] \in Run
  BY DEF QueueInv, TypeOK
<1>2. new \in Run /\ new.step = run[t].step
  BY <1>1 DEF Run
<1>3. CASE run' = run
  BY <1>1, <1>3 DEF QueueInv, TakenIsAccepted
<1>4. CASE run' = [run EXCEPT ![t] = new]
  BY <1>2, <1>4, RunWritten
<1>5. QED
  BY <1>3, <1>4 DEF Started

LEMMA RunLeft ==
  ASSUME QueueInv, run' = run, accepted \subseteq accepted'
  PROVE  run' \in [Tabs -> Run] /\ TakenIsAccepted'
  BY DEF QueueInv, TypeOK, TakenIsAccepted

LEMMA QueueInit == Init => QueueInv
<1> SUFFICES ASSUME Init PROVE QueueInv
  OBVIOUS
<1> USE DEF Init
<1>1. TypeOK
  BY EmptyTyped DEF TypeOK
<1>2. AckedIsAccepted /\ RowsKeptUntilAccepted
  BY EmptyTyped DEF AckedIsAccepted, AckedRows, RowsKeptUntilAccepted
<1>3. TakenIsAccepted
  BY EmptyTyped DEF TakenIsAccepted
<1>4. QED
  BY <1>1, <1>2, <1>3 DEF QueueInv

-----------------------------------------------------------------------------
(* Queueing.                                                                *)

LEMMA QueueReadKeeps ==
  ASSUME QueueInv, NEW t \in Tabs, NEW k \in Keys, NEW j \in Jobs, QueueRead(t, k, j)
  PROVE  QueueInv'
<1> USE DEF QueueRead
<1> DEFINE new == [state |-> "writing", tab |-> t, key |-> k]
<1>1. call \in [Jobs -> Call] /\ new \in Call /\ new.state = "writing"
  BY DEF QueueInv, TypeOK, Call
<1>2. call' = [call EXCEPT ![j] = new]
  OBVIOUS
<1>3. \A i \in Jobs : call'[i].state = "used" => call[i].state = "used"
  BY <1>1, <1>2
<1>4. call' \in [Jobs -> Call] /\ UNCHANGED <<late, accepted, rows, run>>
  BY <1>1, <1>2
<1>5. QED
  BY <1>3, <1>4, RowsLeft, RunLeft DEF QueueInv, TypeOK

\* A new job's row is stored, or the call is lost.
LEMMA NewRowStored ==
  ASSUME QueueInv, NEW j \in Jobs, NEW k \in Keys \cup {"none"}, StoreNew(j, k), UNCHANGED <<late, accepted>>
  PROVE  /\ call' \in [Jobs -> Call] /\ rows' \in [Jobs -> Row]
         /\ AckedIsAccepted' /\ RowsKeptUntilAccepted'
<1> DEFINE row == [NoRow EXCEPT !.status = "pending", !.key = k]
           used == [NoCall EXCEPT !.state = "used"]
           lost == [NoCall EXCEPT !.state = "lost"]
<1>1. call \in [Jobs -> Call] /\ NoRow \in Row /\ NoCall \in Call
  BY EmptyTyped DEF QueueInv, TypeOK
<1>2. row \in Row /\ row.status = "pending" /\ used \in Call /\ lost \in Call /\ lost.state = "lost"
  BY <1>1 DEF Row, RowStatus, Call
<1>3. \/ rows' = [rows EXCEPT ![j] = row] /\ call' = [call EXCEPT ![j] = used]
      \/ rows' = rows /\ call' = [call EXCEPT ![j] = lost]
  BY DEF StoreNew
<1> HIDE DEF row, used, lost
<1>4. call' \in [Jobs -> Call] /\ \A i \in Jobs \ {j} : call'[i] = call[i]
  BY <1>1, <1>2, <1>3
<1>5. CASE rows' = [rows EXCEPT ![j] = row]
  BY <1>2, <1>4, <1>5, RowWritten
<1>6. CASE rows' = rows /\ call' = [call EXCEPT ![j] = lost]
  <2>1. \A i \in Jobs : call'[i].state = "used" => call[i].state = "used"
    BY <1>1, <1>2, <1>4, <1>6
  <2>2. QED
    BY <1>4, <1>6, <2>1, RowsLeft
<1>7. QED
  BY <1>3, <1>4, <1>5, <1>6

LEMMA QueueWriteKeeps ==
  ASSUME QueueInv, NEW t \in Tabs, NEW j \in Jobs, QueueWrite(t, j) PROVE QueueInv'
<1>1. call[j].key \in Keys \cup {"none"}
  BY DEF QueueInv, TypeOK, Call
<1>2. StoreNew(j, call[j].key) /\ UNCHANGED <<late, accepted>> /\ (run' = Started(t, FALSE) \/ run' = run)
  BY DEF QueueWrite
<1>3. call' \in [Jobs -> Call] /\ rows' \in [Jobs -> Row] /\ AckedIsAccepted' /\ RowsKeptUntilAccepted'
  BY <1>1, <1>2, NewRowStored
<1>4. run' \in [Tabs -> Run] /\ TakenIsAccepted'
  BY <1>2, RunStarted
<1>5. QED
  BY <1>2, <1>3, <1>4 DEF QueueInv, TypeOK

LEMMA ProcessKeeps ==
  ASSUME QueueInv, NEW t \in Tabs, NEW force \in BOOLEAN, Process(t, force) PROVE QueueInv'
<1>1. UNCHANGED <<rows, call, late, accepted>> /\ run' = Started(t, force)
  BY DEF Process
<1>2. QED
  BY <1>1, RowsLeft, RunStarted DEF QueueInv, TypeOK

LEMMA ReprintKeeps ==
  ASSUME QueueInv, NEW t \in Tabs, NEW j \in Jobs, NEW i \in Jobs, Reprint(t, j, i) PROVE QueueInv'
<1>1. rows[j].key \in Keys \cup {"none"}
  BY DEF QueueInv, TypeOK, Row
<1>2. StoreNew(i, rows[j].key) /\ UNCHANGED <<late, accepted>> /\ run' = Started(t, TRUE)
  BY DEF Reprint
<1>3. call' \in [Jobs -> Call] /\ rows' \in [Jobs -> Row] /\ AckedIsAccepted' /\ RowsKeptUntilAccepted'
  BY <1>1, <1>2, NewRowStored
<1>4. run' \in [Tabs -> Run] /\ TakenIsAccepted'
  BY <1>2, RunStarted
<1>5. QED
  BY <1>2, <1>3, <1>4 DEF QueueInv, TypeOK

-----------------------------------------------------------------------------
(* A processing.                                                            *)

LEMMA EndingTyped ==
  LET ending == [NoRun EXCEPT !.phase = "ending"]
  IN ending \in Run /\ \A j \in Jobs : ending.step[j] = "none"
  BY EmptyTyped DEF Run

\* The run that has read a batch.
Working(batch) == [NoRun EXCEPT !.phase = "working", !.todo = batch,
                     !.copy = [j \in Jobs |-> IF j \in batch THEN rows[j] ELSE NoRow]]

LEMMA WorkingTyped ==
  ASSUME QueueInv, NEW batch \in SUBSET Jobs
  PROVE  Working(batch) \in Run /\ \A j \in Jobs : Working(batch).step[j] = "none"
<1>1. rows \in [Jobs -> Row] /\ NoRun \in Run /\ NoRow \in Row /\ \A j \in Jobs : NoRun.step[j] = "none"
  BY EmptyTyped DEF QueueInv, TypeOK
<1>2. [j \in Jobs |-> IF j \in batch THEN rows[j] ELSE NoRow] \in [Jobs -> Row]
  BY <1>1
<1>3. QED
  BY <1>1, <1>2 DEF Working, Run

LEMMA ReadRowsKeeps == ASSUME QueueInv, NEW t \in Tabs, ReadRows(t) PROVE QueueInv'
<1>1. PICK batch \in SUBSET Jobs :
        run' = [run EXCEPT ![t] = IF batch = {} THEN [NoRun EXCEPT !.phase = "ending"] ELSE Working(batch)]
  BY DEF ReadRows, Ready, Existing, Working
<1>2. UNCHANGED <<rows, call, late, accepted>>
  BY DEF ReadRows
<1>3. run' \in [Tabs -> Run] /\ TakenIsAccepted'
  <2>1. CASE batch = {}
    BY <1>1, <1>2, <2>1, EndingTyped, RunWritten
  <2>2. CASE batch # {}
    BY <1>1, <1>2, <2>2, WorkingTyped, RunWritten
  <2>3. QED
    BY <2>1, <2>2
<1>4. QED
  BY <1>2, <1>3, RowsLeft DEF QueueInv, TypeOK

LEMMA NextChunkKeeps == ASSUME QueueInv, NEW t \in Tabs, NextChunk(t) PROVE QueueInv'
<1>1. PICK chunk \in SUBSET run[t].todo : run' = [run EXCEPT ![t].todo = @ \ chunk,
            ![t].step = [j \in Jobs |-> IF j \in chunk THEN "queued" ELSE "none"]]
  BY DEF NextChunk
<1> DEFINE new == [run[t] EXCEPT !.todo = run[t].todo \ chunk,
                     !.step = [j \in Jobs |-> IF j \in chunk THEN "queued" ELSE "none"]]
<1>2. UNCHANGED <<rows, call, late, accepted>>
  BY DEF NextChunk
<1>3. run \in [Tabs -> Run] /\ run[t] \in Run
  BY DEF QueueInv, TypeOK
<1>4. [j \in Jobs |-> IF j \in chunk THEN "queued" ELSE "none"] \in [Jobs -> Steps]
  BY DEF Steps
<1>5. new \in Run /\ \A j \in Jobs : new.step[j] # "taken"
  BY <1>3, <1>4 DEF Run
<1>6. run' = [run EXCEPT ![t] = new]
  BY <1>1, <1>3
<1>7. run' \in [Tabs -> Run] /\ TakenIsAccepted'
  BY <1>2, <1>5, <1>6, RunWritten
<1>8. QED
  BY <1>2, <1>7, RowsLeft DEF QueueInv, TypeOK

\* One job of a run moves on.
LEMMA StepWritten ==
  ASSUME QueueInv, NEW t \in Tabs, NEW j \in Jobs, NEW step \in Steps, NEW route \in 0 .. Routes,
         NEW copy \in [Jobs -> Row],
         run' = [run EXCEPT ![t] = [run[t] EXCEPT !.copy = copy,
                                      !.step = [run[t].step EXCEPT ![j] = step],
                                      !.route = [run[t].route EXCEPT ![j] = route]]],
         step = "taken" => j \in accepted',
         accepted \subseteq accepted'
  PROVE  run' \in [Tabs -> Run] /\ TakenIsAccepted'
<1> DEFINE new == [run[t] EXCEPT !.copy = copy, !.step = [run[t].step EXCEPT ![j] = step],
                                 !.route = [run[t].route EXCEPT ![j] = route]]
<1>1. run[t] \in Run
  BY DEF QueueInv, TypeOK
<1>2. [run[t].step EXCEPT ![j] = step] \in [Jobs -> Steps]
      /\ [run[t].route EXCEPT ![j] = route] \in [Jobs -> 0 .. Routes]
  BY <1>1 DEF Run
<1>3. new \in Run /\ new.step = [run[t].step EXCEPT ![j] = step]
  BY <1>1, <1>2 DEF Run
<1>4. \A i \in Jobs : new.step[i] = "taken" => i \in accepted' \/ run[t].step[i] = "taken"
  BY <1>1, <1>3 DEF Run
<1> HIDE DEF new
<1>5. QED
  BY <1>3, <1>4, RunWritten DEF new

LEMMA MarkKeeps == ASSUME QueueInv, NEW t \in Tabs, NEW j \in Jobs, Mark(t, j) PROVE QueueInv'
<1>1. run \in [Tabs -> Run] /\ run[t] \in Run /\ run[t].copy \in [Jobs -> Row]
  BY DEF QueueInv, TypeOK, Run
<1>2. (rows' = [rows EXCEPT ![j] = Printing(run[t].copy[j])] \/ rows' = rows)
      /\ UNCHANGED <<call, late, accepted>>
  BY DEF Mark, Write
<1>3. rows' \in [Jobs -> Row] /\ AckedIsAccepted' /\ RowsKeptUntilAccepted'
  BY <1>1, <1>2, RowsTyped, RowWritten
<1>4. run' = [run EXCEPT ![t] = [run[t] EXCEPT !.copy = run[t].copy,
                 !.step = [run[t].step EXCEPT ![j] = "sent"],
                 !.route = [run[t].route EXCEPT ![j] = 1]]]
  BY <1>1 DEF Mark, Run
<1>5. "sent" \in Steps /\ 1 \in 0 .. Routes
  BY QueueAssumption DEF Steps
<1>6. run' \in [Tabs -> Run] /\ TakenIsAccepted'
  BY <1>1, <1>2, <1>4, <1>5, StepWritten
<1>7. QED
  BY <1>2, <1>3, <1>6 DEF QueueInv, TypeOK

LEMMA DeliverKeeps == ASSUME QueueInv, NEW t \in Tabs, NEW j \in Jobs, Deliver(t, j) PROVE QueueInv'
<1>1. run \in [Tabs -> Run] /\ run[t] \in Run /\ run[t].copy \in [Jobs -> Row]
      /\ run[t].route \in [Jobs -> 0 .. Routes]
  BY DEF QueueInv, TypeOK, Run
<1>2. accepted' = accepted \cup {j} /\ UNCHANGED <<rows, call, late>>
  BY DEF Deliver
<1>3. run' = [run EXCEPT ![t] = [run[t] EXCEPT !.copy = run[t].copy,
                 !.step = [run[t].step EXCEPT ![j] = "taken"],
                 !.route = [run[t].route EXCEPT ![j] = run[t].route[j]]]]
  <2>1. [run[t].route EXCEPT ![j] = run[t].route[j]] = run[t].route
    BY <1>1
  <2>2. run' = [run EXCEPT ![t] = [run[t] EXCEPT !.step = [run[t].step EXCEPT ![j] = "taken"]]]
    BY DEF Deliver
  <2>3. QED
    BY <1>1, <2>1, <2>2 DEF Run
<1>4. "taken" \in Steps
  BY DEF Steps
<1>5. run' \in [Tabs -> Run] /\ TakenIsAccepted'
  BY <1>1, <1>2, <1>3, <1>4, StepWritten
<1>6. QED
  BY <1>2, <1>5, RowsLeft DEF QueueInv, TypeOK

LEMMA GiveUpKeeps == ASSUME QueueInv, NEW t \in Tabs, NEW j \in Jobs, GiveUp(t, j) PROVE QueueInv'
<1>1. run \in [Tabs -> Run] /\ run[t] \in Run /\ run[t].copy \in [Jobs -> Row]
      /\ run[t].route \in [Jobs -> 0 .. Routes] /\ run[t].step \in [Jobs -> Steps]
  BY DEF QueueInv, TypeOK, Run
<1>2. UNCHANGED <<rows, call, accepted>> /\ late' \subseteq Jobs
  BY DEF GiveUp, QueueInv, TypeOK
<1>3. run' \in [Tabs -> Run] /\ TakenIsAccepted'
  <2>1. CASE run[t].route[j] < Routes
    <3>1. run' = [run EXCEPT ![t] = [run[t] EXCEPT !.copy = run[t].copy,
                     !.step = [run[t].step EXCEPT ![j] = "sent"],
                     !.route = [run[t].route EXCEPT ![j] = run[t].route[j] + 1]]]
      BY <1>1, <2>1 DEF GiveUp, NextRoute, Run
    <3>2. "sent" \in Steps /\ run[t].route[j] + 1 \in 0 .. Routes
      BY <1>1, <2>1, QueueAssumption DEF Steps
    <3>3. QED
      BY <1>1, <1>2, <3>1, <3>2, StepWritten
  <2>2. CASE ~(run[t].route[j] < Routes)
    <3>1. run' = [run EXCEPT ![t] = [run[t] EXCEPT !.copy = run[t].copy,
                     !.step = [run[t].step EXCEPT ![j] = "error"],
                     !.route = [run[t].route EXCEPT ![j] = run[t].route[j]]]]
      BY <1>1, <2>2 DEF GiveUp, NextRoute, Run
    <3>2. "error" \in Steps
      BY DEF Steps
    <3>3. QED
      BY <1>1, <1>2, <3>1, <3>2, StepWritten
  <2>3. QED
    BY <2>1, <2>2
<1>4. QED
  BY <1>2, <1>3, RowsLeft DEF QueueInv, TypeOK

LEMMA BadAnswerKeeps == ASSUME QueueInv, NEW t \in Tabs, NEW j \in Jobs, BadAnswer(t, j) PROVE QueueInv'
<1>1. run \in [Tabs -> Run] /\ run[t] \in Run /\ run[t].copy \in [Jobs -> Row]
      /\ run[t].route \in [Jobs -> 0 .. Routes] /\ run[t].step \in [Jobs -> Steps]
  BY DEF QueueInv, TypeOK, Run
<1>2. UNCHANGED <<rows, call, late, accepted>>
  BY DEF BadAnswer
<1>3. run' = [run EXCEPT ![t] = [run[t] EXCEPT !.copy = run[t].copy,
                 !.step = [run[t].step EXCEPT ![j] = "error"],
                 !.route = [run[t].route EXCEPT ![j] = run[t].route[j]]]]
  BY <1>1 DEF BadAnswer, Run
<1>4. "error" \in Steps
  BY DEF Steps
<1>5. run' \in [Tabs -> Run] /\ TakenIsAccepted'
  BY <1>1, <1>2, <1>3, <1>4, StepWritten
<1>6. QED
  BY <1>2, <1>5, RowsLeft DEF QueueInv, TypeOK

LEMMA WriteOutcomeKeeps ==
  ASSUME QueueInv, NEW t \in Tabs, NEW j \in Jobs, WriteOutcome(t, j) PROVE QueueInv'
<1> DEFINE row == Outcome(run[t].copy[j], run[t].step[j])
<1>1. run \in [Tabs -> Run] /\ run[t] \in Run /\ run[t].copy \in [Jobs -> Row]
  BY DEF QueueInv, TypeOK, Run
<1>2. (rows' = [rows EXCEPT ![j] = row] \/ rows' = rows) /\ UNCHANGED <<call, late, accepted>>
  BY DEF WriteOutcome, Write
<1>3. row \in Row /\ row.status # "absent" /\ (row.status = "acked" => run[t].step[j] = "taken")
  BY <1>1, RowsTyped DEF Outcome
<1>4. row.status = "acked" => j \in accepted
  BY <1>3 DEF QueueInv, TakenIsAccepted
<1> HIDE DEF row
<1>5. rows' \in [Jobs -> Row] /\ AckedIsAccepted' /\ RowsKeptUntilAccepted'
  BY <1>2, <1>3, <1>4, RowWritten
<1>6. run' = [run EXCEPT ![t] = [run[t] EXCEPT !.copy = [run[t].copy EXCEPT ![j] = NoRow],
                 !.step = [run[t].step EXCEPT ![j] = "none"],
                 !.route = [run[t].route EXCEPT ![j] = 0]]]
  BY <1>1 DEF WriteOutcome, Run
<1>7. "none" \in Steps /\ 0 \in 0 .. Routes /\ [run[t].copy EXCEPT ![j] = NoRow] \in [Jobs -> Row]
  BY <1>1, EmptyTyped, QueueAssumption DEF Steps
<1>8. run' \in [Tabs -> Run] /\ TakenIsAccepted'
  BY <1>2, <1>6, <1>7, StepWritten
<1>9. QED
  BY <1>2, <1>5, <1>8 DEF QueueInv, TypeOK

LEMMA FinishKeeps == ASSUME QueueInv, NEW t \in Tabs, Finish(t) PROVE QueueInv'
<1>1. PICK kept \in SUBSET AckedRows :
        rows' = [j \in Jobs |-> IF j \in AckedRows \ kept THEN NoRow ELSE rows[j]]
  BY DEF Finish
<1>2. UNCHANGED <<call, late, accepted>> /\ run' = [run EXCEPT ![t] = [NoRun EXCEPT !.phase = "ending"]]
  BY DEF Finish
<1>3. rows' \in [Jobs -> Row] /\ AckedIsAccepted' /\ RowsKeptUntilAccepted'
  BY <1>1, <1>2, AckedRowsDeleted
<1>4. run' \in [Tabs -> Run] /\ TakenIsAccepted'
  BY <1>2, EndingTyped, RunWritten
<1>5. QED
  BY <1>2, <1>3, <1>4 DEF QueueInv, TypeOK

LEMMA EndKeeps == ASSUME QueueInv, NEW t \in Tabs, End(t) PROVE QueueInv'
<1>1. UNCHANGED <<rows, call, late, accepted>> /\ run' = [run EXCEPT ![t] = NoRun]
  BY DEF End
<1>2. run' \in [Tabs -> Run] /\ TakenIsAccepted'
  BY <1>1, EmptyTyped, RunWritten
<1>3. QED
  BY <1>1, <1>2, RowsLeft DEF QueueInv, TypeOK

-----------------------------------------------------------------------------
(* Time, clearing, closing.                                                 *)

LEMMA TimeKeeps == ASSUME QueueInv, NEW j \in Jobs, RetryDue(j) \/ AckAges(j) PROVE QueueInv'
<1>1. rows \in [Jobs -> Row] /\ rows[j] \in Row
  BY DEF QueueInv, TypeOK
<1>2. UNCHANGED <<call, run, late, accepted>>
  BY DEF RetryDue, AckAges
<1>3. PICK row \in Row : rows' = [rows EXCEPT ![j] = row] /\ row.status = rows[j].status
                         /\ rows[j].status # "absent"
  <2>1. CASE RetryDue(j)
    <3>1. [rows[j] EXCEPT !.later = FALSE] \in Row
      BY <1>1 DEF Row
    <3>2. rows' = [rows EXCEPT ![j] = [rows[j] EXCEPT !.later = FALSE]] /\ rows[j].status = "failed"
      BY <2>1 DEF RetryDue
    <3>3. [rows[j] EXCEPT !.later = FALSE].status = rows[j].status
      BY <1>1 DEF Row
    <3>4. QED
      BY <3>1, <3>2, <3>3
  <2>2. CASE AckAges(j)
    <3>1. [rows[j] EXCEPT !.recent = FALSE] \in Row
      BY <1>1 DEF Row
    <3>2. rows' = [rows EXCEPT ![j] = [rows[j] EXCEPT !.recent = FALSE]] /\ rows[j].status = "acked"
      BY <2>2 DEF AckAges
    <3>3. [rows[j] EXCEPT !.recent = FALSE].status = rows[j].status
      BY <1>1 DEF Row
    <3>4. QED
      BY <3>1, <3>2, <3>3
  <2>3. QED
    BY <2>1, <2>2
<1>4. rows[j].status = "acked" => j \in accepted
  BY DEF QueueInv, AckedIsAccepted, AckedRows
<1>5. rows' \in [Jobs -> Row] /\ AckedIsAccepted' /\ RowsKeptUntilAccepted'
  BY <1>2, <1>3, <1>4, RowWritten
<1>6. QED
  BY <1>2, <1>5, RunLeft DEF QueueInv, TypeOK

LEMMA ClearKeeps == ASSUME QueueInv, ClearAcked PROVE QueueInv'
<1>1. PICK gone \in SUBSET AckedRows :
        rows' = [j \in Jobs |-> IF j \in gone THEN NoRow ELSE rows[j]] /\ UNCHANGED <<call, run, late, accepted>>
  BY DEF ClearAcked, Cleared
<1>2. rows' \in [Jobs -> Row] /\ AckedIsAccepted' /\ RowsKeptUntilAccepted'
  BY <1>1, AckedRowsDeleted
<1>3. QED
  BY <1>1, <1>2, RunLeft DEF QueueInv, TypeOK

LEMMA CloseKeeps == ASSUME QueueInv, NEW t \in Tabs, CloseTab(t) PROVE QueueInv'
<1>1. UNCHANGED <<rows, accepted>> /\ run' = [run EXCEPT ![t] = NoRun]
      /\ call' = [j \in Jobs |-> IF call[j].tab = t THEN NoCall ELSE call[j]]
      /\ late' \subseteq Jobs
  BY DEF CloseTab, QueueInv, TypeOK
<1>2. call' \in [Jobs -> Call] /\ \A j \in Jobs : call'[j].state = "used" => call[j].state = "used"
  BY <1>1, EmptyTyped DEF QueueInv, TypeOK
<1>3. run' \in [Tabs -> Run] /\ TakenIsAccepted'
  BY <1>1, EmptyTyped, RunWritten
<1>4. QED
  BY <1>1, <1>2, <1>3, RowsLeft DEF QueueInv, TypeOK

LEMMA LateKeeps == ASSUME QueueInv, NEW j \in Jobs, DeliverLate(j) PROVE QueueInv'
<1>1. UNCHANGED <<rows, call, run>> /\ accepted' = accepted \cup {j} /\ late' \subseteq late
  BY DEF DeliverLate
<1>2. QED
  BY <1>1, RowsLeft, RunLeft DEF QueueInv, TypeOK

-----------------------------------------------------------------------------

LEMMA RunStepKeeps == ASSUME QueueInv, NEW t \in Tabs, RunStep(t) PROVE QueueInv'
  BY ReadRowsKeeps, NextChunkKeeps, FinishKeeps, EndKeeps, MarkKeeps, GiveUpKeeps, BadAnswerKeeps,
     WriteOutcomeKeeps DEF RunStep

LEMMA LocalKeeps == ASSUME QueueInv, Local PROVE QueueInv'
  BY QueueReadKeeps, QueueWriteKeeps, ReprintKeeps, ProcessKeeps, RunStepKeeps, CloseKeeps,
     TimeKeeps, ClearKeeps DEF Local

LEMMA QueueNext == QueueInv /\ [Next]_vars => QueueInv'
<1> SUFFICES ASSUME QueueInv, [Next]_vars PROVE QueueInv'
  OBVIOUS
<1>1. CASE UNCHANGED vars
  BY <1>1, RowsLeft, RunLeft DEF vars, QueueInv, TypeOK
<1>2. QED
  BY <1>1, LocalKeeps, DeliverKeeps, LateKeeps DEF Next

LEMMA QueueInvariant == Spec => []QueueInv
  BY QueueInit, QueueNext, PTL DEF Spec

\* Rows, calls and processings are well typed: no attempt is counted beyond
\* MaxAttempts, and no request goes to a place there is not.
THEOREM TypeCorrect == Spec => []TypeOK
<1>1. QueueInv => TypeOK
  BY DEF QueueInv
<1>2. QED
  BY <1>1, QueueInvariant, PTL

\* The acknowledgement the toolbar shows is a bridge's, whichever tab wrote it and
\* from whichever copy.
THEOREM AckedAccepted == Spec => []AckedIsAccepted
<1>1. QueueInv => AckedIsAccepted
  BY DEF QueueInv
<1>2. QED
  BY <1>1, QueueInvariant, PTL

\* No clearing, no history limit and no other tab takes a job out of the queue
\* that was stored there and that no bridge took.
THEOREM RowsKept == Spec => []RowsKeptUntilAccepted
<1>1. QueueInv => RowsKeptUntilAccepted
  BY DEF QueueInv
<1>2. QED
  BY <1>1, QueueInvariant, PTL

-----------------------------------------------------------------------------
(* Nothing strands: a tab is at every row that says printing, and a pending *)
(* row has no time to wait for.                                             *)

PrintingAttended ==
  orderly => \A j \in Jobs : rows[j].status = "printing" => \E t \in Tabs : PrintedBy(t, j)

PendingIsDue == \A j \in Jobs : rows[j].status = "pending" => ~rows[j].later

ChunkIsWorked ==
  \A t \in Tabs, j \in Jobs : run[t].step[j] # "none" => run[t].phase = "working"

ReachInv == PrintingAttended /\ PendingIsDue /\ ChunkIsWorked

LEMMA ReachInit == HInit => ReachInv
  BY EmptyTyped DEF HInit, Init, ReachInv, PrintingAttended, PendingIsDue, ChunkIsWorked

\* A step that starts no print, leaves every tab at the jobs it prints, and makes
\* no row pending that has to wait.
LEMMA NoPrintStarts ==
  ASSUME ReachInv, orderly' => orderly,
         \A j \in Jobs : rows'[j].status = "printing" => rows[j].status = "printing",
         \A j \in Jobs : rows'[j].status = "pending" => rows'[j] = rows[j] \/ ~rows'[j].later,
         \A t \in Tabs, j \in Jobs : PrintedBy(t, j) => PrintedBy(t, j)',
         \A t \in Tabs, j \in Jobs : run'[t].step[j] # "none" => run'[t].phase = "working"
  PROVE  ReachInv'
<1>1. PendingIsDue' /\ ChunkIsWorked'
  BY DEF ReachInv, PendingIsDue, ChunkIsWorked
<1>2. PrintingAttended'
  BY DEF ReachInv, PrintingAttended
<1>3. QED
  BY <1>1, <1>2 DEF ReachInv

\* The run of one tab changes, and no row; what the tab printed it still prints.
LEMMA RunMoves ==
  ASSUME QueueInv, ReachInv, NEW t \in Tabs, NEW new \in Run, run' = [run EXCEPT ![t] = new],
         orderly' => orderly,
         \A j \in Jobs : rows'[j] = rows[j] \/ rows'[j].status \notin {"pending", "printing"},
         \A j \in Jobs : PrintedBy(t, j) => new.step[j] \in {"sent", "taken", "error"},
         \A j \in Jobs : new.step[j] # "none" => new.phase = "working"
  PROVE  ReachInv'
<1>1. \A u \in Tabs : run'[u] = IF u = t THEN new ELSE run[u]
  BY DEF QueueInv, TypeOK
<1>2. \A u \in Tabs, j \in Jobs : PrintedBy(u, j) => PrintedBy(u, j)'
  BY <1>1 DEF PrintedBy
<1>3. \A u \in Tabs, j \in Jobs : run'[u].step[j] # "none" => run'[u].phase = "working"
  BY <1>1 DEF ReachInv, ChunkIsWorked
<1>4. /\ \A j \in Jobs : rows'[j].status = "printing" => rows[j].status = "printing"
      /\ \A j \in Jobs : rows'[j].status = "pending" => rows'[j] = rows[j] \/ ~rows'[j].later
  OBVIOUS
<1>5. QED
  BY <1>2, <1>3, <1>4, NoPrintStarts

\* No run changes but that of a tab that was idle and starts.
LEMMA RunStarts ==
  ASSUME QueueInv, ReachInv, NEW t \in Tabs, NEW force \in BOOLEAN, run' = Started(t, force) \/ run' = run
  PROVE  /\ \A u \in Tabs, j \in Jobs : PrintedBy(u, j) => PrintedBy(u, j)'
         /\ \A u \in Tabs, j \in Jobs : run'[u].step[j] # "none" => run'[u].phase = "working"
<1> DEFINE new == [run[t] EXCEPT !.phase = "starting", !.force = force]
<1>1. run \in [Tabs -> Run] /\ run[t] \in Run
  BY DEF QueueInv, TypeOK
<1>2. new.step = run[t].step
  BY <1>1 DEF Run
<1>3. run' = run \/ (run[t].phase = "idle" /\ run' = [run EXCEPT ![t] = new])
  BY DEF Started
<1> HIDE DEF new
<1>4. \A u \in Tabs : run'[u] = run[u] \/ (u = t /\ run[t].phase = "idle" /\ run'[u] = new)
  BY <1>1, <1>3
<1>5. QED
  BY <1>2, <1>4 DEF PrintedBy, ReachInv, ChunkIsWorked

\* The row of a new job is due at once.
LEMMA NewRowReached ==
  ASSUME QueueInv, ReachInv, NEW t \in Tabs, NEW j \in Jobs, NEW k \in Keys \cup {"none"},
         NEW force \in BOOLEAN, StoreNew(j, k), run' = Started(t, force) \/ run' = run, orderly' => orderly
  PROVE  ReachInv'
<1> DEFINE row == [NoRow EXCEPT !.status = "pending", !.key = k]
<1>1. rows \in [Jobs -> Row] /\ row.status = "pending" /\ ~row.later
  BY DEF QueueInv, TypeOK, NoRow
<1>2. rows' = rows \/ rows' = [rows EXCEPT ![j] = row]
  BY DEF StoreNew
<1> HIDE DEF row
<1>3. \A i \in Jobs : rows'[i] = rows[i] \/ (rows'[i].status = "pending" /\ ~rows'[i].later)
  BY <1>1, <1>2
<1>4. QED
  BY <1>3, RunStarts, NoPrintStarts

LEMMA QueueWriteReaches ==
  ASSUME QueueInv, ReachInv, NEW t \in Tabs, NEW j \in Jobs, QueueWrite(t, j), orderly' => orderly
  PROVE  ReachInv'
<1>1. call[j].key \in Keys \cup {"none"}
  BY DEF QueueInv, TypeOK, Call
<1>2. QED
  BY <1>1, NewRowReached DEF QueueWrite

LEMMA ReprintReaches ==
  ASSUME QueueInv, ReachInv, NEW t \in Tabs, NEW j \in Jobs, NEW i \in Jobs, Reprint(t, j, i),
         orderly' => orderly
  PROVE  ReachInv'
<1>1. rows[j].key \in Keys \cup {"none"}
  BY DEF QueueInv, TypeOK, Row
<1>2. QED
  BY <1>1, NewRowReached DEF Reprint

LEMMA ProcessReaches ==
  ASSUME QueueInv, ReachInv, NEW t \in Tabs, NEW force \in BOOLEAN, Process(t, force), orderly' => orderly
  PROVE  ReachInv'
<1>1. rows' = rows /\ run' = Started(t, force)
  BY DEF Process
<1>2. QED
  BY <1>1, RunStarts, NoPrintStarts

-----------------------------------------------------------------------------
(* A processing.                                                            *)

LEMMA ReadRowsReaches ==
  ASSUME QueueInv, ReachInv, NEW t \in Tabs, ReadRows(t), orderly' => orderly
  PROVE  ReachInv'
<1>1. PICK batch \in SUBSET Jobs :
        run' = [run EXCEPT ![t] = IF batch = {} THEN [NoRun EXCEPT !.phase = "ending"] ELSE Working(batch)]
  BY DEF ReadRows, Ready, Existing, Working
<1>2. rows' = rows /\ run[t].phase = "starting"
  BY DEF ReadRows
<1>3. \A j \in Jobs : ~PrintedBy(t, j)
  BY <1>2 DEF ReachInv, ChunkIsWorked, PrintedBy
<1>4. CASE batch = {}
  BY <1>1, <1>2, <1>3, <1>4, EndingTyped, RunMoves
<1>5. CASE batch # {}
  BY <1>1, <1>2, <1>3, <1>5, WorkingTyped, RunMoves
<1>6. QED
  BY <1>4, <1>5

LEMMA NextChunkReaches ==
  ASSUME QueueInv, ReachInv, NEW t \in Tabs, NextChunk(t), orderly' => orderly
  PROVE  ReachInv'
<1>1. PICK chunk \in SUBSET run[t].todo : run' = [run EXCEPT ![t].todo = @ \ chunk,
            ![t].step = [j \in Jobs |-> IF j \in chunk THEN "queued" ELSE "none"]]
  BY DEF NextChunk
<1> DEFINE steps == [j \in Jobs |-> IF j \in chunk THEN "queued" ELSE "none"]
           new == [run[t] EXCEPT !.todo = run[t].todo \ chunk, !.step = steps]
<1>2. rows' = rows /\ run[t].phase = "working" /\ \A j \in Jobs : run[t].step[j] = "none"
  BY DEF NextChunk, Chunk
<1>3. run \in [Tabs -> Run] /\ run[t] \in Run /\ steps \in [Jobs -> Steps]
  BY DEF QueueInv, TypeOK, Steps
<1>4. run' = [run EXCEPT ![t] = new]
  BY <1>1, <1>3
<1>5. new \in Run /\ new.phase = "working"
  BY <1>2, <1>3 DEF Run
<1>6. \A j \in Jobs : ~PrintedBy(t, j)
  BY <1>2 DEF PrintedBy
<1> HIDE DEF new
<1>7. QED
  BY <1>2, <1>4, <1>5, <1>6, RunMoves

\* A job of the chunk moves on, and its row is being printed or as it was.
LEMMA StepReaches ==
  ASSUME QueueInv, ReachInv, NEW t \in Tabs, NEW j \in Jobs, run[t].step[j] # "none",
         NEW step \in {"sent", "taken", "error"}, NEW routes \in [Jobs -> 0 .. Routes],
         run' = [run EXCEPT ![t] = [run[t] EXCEPT !.step = [run[t].step EXCEPT ![j] = step],
                                                  !.route = routes]],
         NEW row \in Row, row.status = "printing",
         rows' = rows \/ rows' = [rows EXCEPT ![j] = row],
         orderly' => orderly
  PROVE  ReachInv'
<1> DEFINE steps == [run[t].step EXCEPT ![j] = step]
           new == [run[t] EXCEPT !.step = steps, !.route = routes]
<1>1. run \in [Tabs -> Run] /\ run[t] \in Run /\ rows \in [Jobs -> Row] /\ run[t].step \in [Jobs -> Steps]
      /\ run[t].phase = "working"
  BY DEF QueueInv, TypeOK, Run, ReachInv, ChunkIsWorked
<1>2. \A i \in Jobs : steps[i] = IF i = j THEN step ELSE run[t].step[i]
  BY <1>1
<1> HIDE DEF steps
<1>3. new.phase = "working" /\ new.step = steps /\ run' = [run EXCEPT ![t] = new]
  BY <1>1 DEF Run, steps
<1> HIDE DEF new
<1>4. \A u \in Tabs : run'[u] = IF u = t THEN new ELSE run[u]
  BY <1>1, <1>3
<1>5. \A i \in Jobs : rows'[i] = rows[i] \/ (i = j /\ rows'[i] = row)
  BY <1>1
<1>6. PendingIsDue' /\ ChunkIsWorked'
  BY <1>3, <1>4, <1>5 DEF ReachInv, PendingIsDue, ChunkIsWorked
<1>7. PrintedBy(t, j)' /\ \A u \in Tabs, i \in Jobs : PrintedBy(u, i) => PrintedBy(u, i)'
  BY <1>2, <1>3, <1>4 DEF PrintedBy
<1>8. PrintingAttended'
  BY <1>5, <1>7 DEF ReachInv, PrintingAttended
<1>9. QED
  BY <1>6, <1>8 DEF ReachInv

LEMMA MarkReaches ==
  ASSUME QueueInv, ReachInv, NEW t \in Tabs, NEW j \in Jobs, Mark(t, j), orderly' => orderly
  PROVE  ReachInv'
<1>1. run[t] \in Run /\ run[t].copy[j] \in Row /\ run[t].route \in [Jobs -> 0 .. Routes]
  BY DEF QueueInv, TypeOK, Run
<1>2. Printing(run[t].copy[j]) \in Row /\ Printing(run[t].copy[j]).status = "printing"
  BY <1>1, RowsTyped
<1>3. (rows' = rows \/ rows' = [rows EXCEPT ![j] = Printing(run[t].copy[j])]) /\ run[t].step[j] # "none"
  BY DEF Mark, Write
<1>4. run' = [run EXCEPT ![t] = [run[t] EXCEPT !.step = [run[t].step EXCEPT ![j] = "sent"],
                                               !.route = [run[t].route EXCEPT ![j] = 1]]]
  BY DEF Mark
<1>5. [run[t].route EXCEPT ![j] = 1] \in [Jobs -> 0 .. Routes]
  BY <1>1, QueueAssumption
<1>6. QED
  BY <1>2, <1>3, <1>4, <1>5, StepReaches

\* A request is answered or given up: the row stays as it was marked.
LEMMA RequestReaches ==
  ASSUME QueueInv, ReachInv, NEW t \in Tabs, NEW j \in Jobs,
         Deliver(t, j) \/ GiveUp(t, j) \/ BadAnswer(t, j), orderly' => orderly
  PROVE  ReachInv'
<1>1. run \in [Tabs -> Run] /\ run[t] \in Run /\ run[t].route \in [Jobs -> 0 .. Routes]
      /\ run[t].copy[j] \in Row
  BY DEF QueueInv, TypeOK, Run
<1>2. rows' = rows /\ run[t].step[j] # "none"
  BY DEF Deliver, GiveUp, BadAnswer
<1>3. Printing(run[t].copy[j]) \in Row /\ Printing(run[t].copy[j]).status = "printing"
  BY <1>1, RowsTyped
<1>4. PICK step \in {"sent", "taken", "error"}, routes \in [Jobs -> 0 .. Routes] :
        run' = [run EXCEPT ![t] = [run[t] EXCEPT !.step = [run[t].step EXCEPT ![j] = step],
                                                 !.route = routes]]
  <2>1. CASE GiveUp(t, j) /\ run[t].route[j] < Routes
    <3>1. run' = [run EXCEPT ![t] = [run[t] EXCEPT !.step = [run[t].step EXCEPT ![j] = "sent"],
                                        !.route = [run[t].route EXCEPT ![j] = run[t].route[j] + 1]]]
      BY <2>1 DEF GiveUp, NextRoute
    <3>2. [run[t].route EXCEPT ![j] = run[t].route[j] + 1] \in [Jobs -> 0 .. Routes]
      BY <1>1, <2>1, QueueAssumption
    <3>3. QED
      BY <3>1, <3>2
  <2>2. ASSUME NEW step \in {"sent", "taken", "error"}, run' = [run EXCEPT ![t].step[j] = step]
        PROVE  run' = [run EXCEPT ![t] = [run[t] EXCEPT !.step = [run[t].step EXCEPT ![j] = step],
                                                        !.route = run[t].route]]
    <3>1. run' = [run EXCEPT ![t] = [run[t] EXCEPT !.step = [run[t].step EXCEPT ![j] = step]]]
      BY <2>2
    <3>2. QED
      BY <1>1, <3>1 DEF Run
  <2>3. CASE Deliver(t, j) \/ BadAnswer(t, j) \/ (GiveUp(t, j) /\ ~(run[t].route[j] < Routes))
    <3>1. \E step \in {"sent", "taken", "error"} : run' = [run EXCEPT ![t].step[j] = step]
      BY <2>3 DEF Deliver, BadAnswer, GiveUp, NextRoute
    <3>2. QED
      BY <1>1, <2>2, <3>1
  <2>4. QED
    BY <2>1, <2>3
<1>5. QED
  BY <1>2, <1>3, <1>4, StepReaches

\* Unless its row could not be written, a job that leaves the chunk no longer says printing.
LEMMA WriteOutcomeReaches ==
  ASSUME QueueInv, ReachInv, NEW t \in Tabs, NEW j \in Jobs, WriteOutcome(t, j),
         orderly' => orderly /\ rows'[j] = Outcome(run[t].copy[j], run[t].step[j])
  PROVE  ReachInv'
<1> DEFINE row == Outcome(run[t].copy[j], run[t].step[j])
           steps == [run[t].step EXCEPT ![j] = "none"]
           new == [run[t] EXCEPT !.step = steps, !.route = [run[t].route EXCEPT ![j] = 0],
                                 !.copy = [run[t].copy EXCEPT ![j] = NoRow]]
<1>1. run \in [Tabs -> Run] /\ run[t] \in Run /\ rows \in [Jobs -> Row] /\ run[t].step \in [Jobs -> Steps]
      /\ run[t].copy \in [Jobs -> Row]
  BY DEF QueueInv, TypeOK, Run
<1>2. row.status \in {"acked", "failed"}
  BY <1>1, RowsTyped DEF Outcome
<1>3. (rows' = [rows EXCEPT ![j] = row] \/ rows' = rows) /\ run' = [run EXCEPT ![t] = new]
  BY DEF WriteOutcome, Write
<1>4. \A i \in Jobs : steps[i] = IF i = j THEN "none" ELSE run[t].step[i]
  BY <1>1
<1>5. new.step = steps /\ new.phase = run[t].phase
  BY <1>1 DEF Run
<1> HIDE DEF row, steps, new
<1>6. \A u \in Tabs : run'[u] = IF u = t THEN new ELSE run[u]
  BY <1>1, <1>3
<1>7. \A i \in Jobs : rows'[i] = rows[i] \/ (i = j /\ rows'[i] = row)
  BY <1>1, <1>3
<1>8. PendingIsDue' /\ ChunkIsWorked'
  BY <1>2, <1>4, <1>5, <1>6, <1>7 DEF ReachInv, PendingIsDue, ChunkIsWorked
<1>9. \A u \in Tabs, i \in Jobs : i # j /\ PrintedBy(u, i) => PrintedBy(u, i)'
  BY <1>4, <1>5, <1>6 DEF PrintedBy
<1>10. orderly' => rows'[j].status # "printing"
  BY <1>2 DEF row
<1>11. PrintingAttended'
  BY <1>7, <1>9, <1>10 DEF ReachInv, PrintingAttended
<1>12. QED
  BY <1>8, <1>11 DEF ReachInv

LEMMA FinishReaches ==
  ASSUME QueueInv, ReachInv, NEW t \in Tabs, Finish(t), orderly' => orderly
  PROVE  ReachInv'
<1>1. run' = [run EXCEPT ![t] = [NoRun EXCEPT !.phase = "ending"]] /\ \A j \in Jobs : ~PrintedBy(t, j)
  BY DEF Finish, Chunk, PrintedBy
<1>2. \A j \in Jobs : rows'[j] = rows[j] \/ rows'[j] = NoRow
  BY DEF Finish
<1>3. \A j \in Jobs : rows'[j] = rows[j] \/ rows'[j].status \notin {"pending", "printing"}
  BY <1>2, EmptyTyped
<1>4. QED
  BY <1>1, <1>3, EndingTyped, RunMoves

LEMMA EndReaches ==
  ASSUME QueueInv, ReachInv, NEW t \in Tabs, End(t), orderly' => orderly
  PROVE  ReachInv'
<1>1. run' = [run EXCEPT ![t] = NoRun] /\ rows' = rows /\ run[t].phase = "ending"
  BY DEF End
<1>2. \A j \in Jobs : ~PrintedBy(t, j)
  BY <1>1 DEF ReachInv, ChunkIsWorked, PrintedBy
<1>3. QED
  BY <1>1, <1>2, EmptyTyped, RunMoves

-----------------------------------------------------------------------------

LEMMA CloseReaches ==
  ASSUME QueueInv, ReachInv, NEW t \in Tabs, CloseTab(t), ~orderly' PROVE ReachInv'
<1>1. rows' = rows /\ run' = [run EXCEPT ![t] = NoRun] /\ run \in [Tabs -> Run]
  BY DEF CloseTab, QueueInv, TypeOK
<1>2. PendingIsDue' /\ ChunkIsWorked'
  BY <1>1, EmptyTyped DEF ReachInv, PendingIsDue, ChunkIsWorked
<1>3. QED
  BY <1>2 DEF ReachInv, PrintingAttended

LEMMA RowsReached ==
  ASSUME QueueInv, ReachInv, run' = run, orderly' => orderly,
         \A j \in Jobs : rows'[j] = rows[j] \/ rows'[j].status \notin {"pending", "printing"}
  PROVE  ReachInv'
<1>1. /\ \A t \in Tabs, j \in Jobs : PrintedBy(t, j) => PrintedBy(t, j)'
      /\ \A t \in Tabs, j \in Jobs : run'[t].step[j] # "none" => run'[t].phase = "working"
  BY DEF PrintedBy, ReachInv, ChunkIsWorked
<1>2. QED
  BY <1>1, NoPrintStarts

LEMMA OthersReach ==
  ASSUME QueueInv, ReachInv, orderly' => orderly,
         \/ ClearAcked
         \/ \E t \in Tabs, k \in Keys, j \in Jobs : QueueRead(t, k, j)
         \/ \E j \in Jobs : RetryDue(j) \/ AckAges(j) \/ DeliverLate(j)
  PROVE  ReachInv'
<1>1. run' = run /\ rows \in [Jobs -> Row]
  BY DEF ClearAcked, QueueRead, RetryDue, AckAges, DeliverLate, QueueInv, TypeOK
<1> DEFINE Kept == \A j \in Jobs : rows'[j] = rows[j] \/ rows'[j].status \notin {"pending", "printing"}
<1>2. CASE ClearAcked
  <2>1. \A j \in Jobs : rows'[j] = rows[j] \/ rows'[j] = NoRow
    BY <1>2 DEF ClearAcked
  <2>2. QED
    BY <1>1, <2>1, EmptyTyped, RowsReached
<1>3. CASE rows' = rows
  BY <1>1, <1>3, RowsReached
<1>4. ASSUME NEW i \in Jobs, RetryDue(i) \/ AckAges(i) PROVE Kept
  <2>1. PICK row : rows' = [rows EXCEPT ![i] = row] /\ row.status \in {"failed", "acked"}
    <3>1. CASE RetryDue(i)
      <4>1. [rows[i] EXCEPT !.later = FALSE].status = "failed"
        BY <1>1, <3>1 DEF RetryDue, Row
      <4>2. QED
        BY <3>1, <4>1 DEF RetryDue
    <3>2. CASE AckAges(i)
      <4>1. [rows[i] EXCEPT !.recent = FALSE].status = "acked"
        BY <1>1, <3>2 DEF AckAges, Row
      <4>2. QED
        BY <3>2, <4>1 DEF AckAges
    <3>3. QED
      BY <1>4, <3>1, <3>2
  <2>2. QED
    BY <1>1, <2>1
<1>5. QED
  BY <1>1, <1>2, <1>3, <1>4, RowsReached DEF QueueRead, DeliverLate

LEMMA ReachNext == QueueInv /\ ReachInv /\ [HNext]_hvars => ReachInv'
<1> SUFFICES ASSUME QueueInv, ReachInv, [HNext]_hvars PROVE ReachInv'
  OBVIOUS
<1>1. CASE UNCHANGED hvars
  BY <1>1, RowsReached DEF hvars
<1>2. CASE HNext
  <2>1. /\ orderly' => orderly /\ ~WriteFails
        /\ (\E t \in Tabs : CloseTab(t)) => ~orderly'
    BY <1>2 DEF HNext
  <2>2. ASSUME NEW t \in Tabs, RunStep(t) PROVE ReachInv'
    <3>1. ASSUME NEW j \in Jobs, WriteOutcome(t, j) PROVE ReachInv'
      BY <2>1, <3>1, WriteOutcomeReaches DEF WriteFails
    <3>2. QED
      BY <2>1, <2>2, <3>1, ReadRowsReaches, NextChunkReaches, FinishReaches, EndReaches, MarkReaches,
         RequestReaches DEF RunStep
  <2>3. ASSUME Local PROVE ReachInv'
    BY <2>1, <2>2, <2>3, QueueWriteReaches, ReprintReaches, ProcessReaches, CloseReaches, OthersReach DEF Local
  <2>4. QED
    BY <1>2, <2>1, <2>3, RequestReaches, OthersReach DEF HNext, Next
<1>3. QED
  BY <1>1, <1>2

LEMMA HistoryOfQueue == HSpec => Spec
<1>1. HInit => Init
  BY DEF HInit
<1>2. [HNext]_hvars => [Next]_vars
  BY DEF HNext, hvars, vars
<1>3. QED
  BY <1>1, <1>2, PTL DEF HSpec, Spec

\* Whatever tabs write over each other's rows: a row that is neither acked nor
\* being printed by a tab is one that a processing to come finds ready, provided
\* that no tab was closed and every row could be written.
THEOREM NoneStrands == HSpec => []NothingStrands
<1>1. QueueInv /\ ReachInv => NothingStrands
  <2> SUFFICES ASSUME QueueInv, ReachInv, orderly, NEW j \in Existing \ AckedRows
               PROVE  (\E t \in Tabs : PrintedBy(t, j)) \/ j \in Ready(rows[j].status # "pending")
    BY DEF NothingStrands
  <2>1. j \in Jobs /\ rows[j].status \in {"pending", "printing", "failed"}
    BY DEF QueueInv, TypeOK, Row, RowStatus, Existing, AckedRows
  <2>2. rows[j].status = "printing" => \E t \in Tabs : PrintedBy(t, j)
    BY <2>1 DEF ReachInv, PrintingAttended
  <2>3. rows[j].status # "printing" => j \in Ready(rows[j].status # "pending")
    BY <2>1 DEF ReachInv, PendingIsDue, Ready
  <2>4. QED
    BY <2>2, <2>3
<1>2. HSpec => [](QueueInv /\ ReachInv)
  BY ReachInit, ReachNext, QueueInvariant, HistoryOfQueue, PTL DEF HSpec
<1>3. QED
  BY <1>1, <1>2, PTL
=============================================================================
