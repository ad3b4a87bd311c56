--------------------------- MODULE PrintPipeline ---------------------------
(***************************************************************************)
(* The way of a receipt: from the queue of the browser (PrintQueue) to the *)
(* bridge of the machine (PrintBridge), directly under the id of its row   *)
(* or, when that is given up, through the server (CloudPrint) without it.  *)
(* A step of the composition is a step of one part, or the handing over of *)
(* a ticket from one part to another.                                      *)
(***************************************************************************)
EXTENDS Naturals, FiniteSets

CONSTANTS
  Jobs, Keys, Tabs, QueueAttempts, Routes, MaxBatch, Parallel, AckHistory, Disturbances,
  NoRequestId, SlotCount, BridgeAttempts, BatchSize, QueueLimit, MaxRestarts, Troubles,
  RowCount, Losses

ASSUME PipelineAssumption ==
  /\ QueueAttempts \in Nat \ {0} /\ Routes \in Nat \ {0}
  /\ MaxBatch \in Nat \ {0} /\ Parallel \in Nat \ {0} /\ AckHistory \in Nat
  /\ Disturbances \subseteq {"close", "clear", "offline", "reprint", "storage"}
  /\ SlotCount \in Nat /\ BridgeAttempts \in Nat \ {0} /\ BatchSize \in Nat \ {0}
  /\ QueueLimit \in Nat \ {0} /\ MaxRestarts \in Nat
  /\ NoRequestId \notin Jobs /\ 0 \notin Jobs
  /\ Troubles \subseteq {"throw", "age", "corrupt"}
  /\ RowCount \in Nat /\ Losses \subseteq {"patch", "stop"}

VARIABLES
  rows, call, run, late, accepted,          \* the browser
  jobs, worker, paper, excused, restarts,   \* the bridge
  cloud, poll, sent                         \* the server and the desktop application

queueVars == <<rows, call, run, late, accepted>>
bridgeVars == <<jobs, worker, paper, excused, restarts>>
cloudVars == <<cloud, poll, sent>>
vars == <<queueVars, bridgeVars, cloudVars>>

Queue == INSTANCE PrintQueue WITH MaxAttempts <- QueueAttempts
Bridge == INSTANCE PrintBridge WITH Tickets <- Jobs, MaxAttempts <- BridgeAttempts
Cloud == INSTANCE CloudPrint WITH Tickets <- Jobs

-----------------------------------------------------------------------------

\* The last of several routes is the server's.
ByServer(t, j) == Routes > 1 /\ run[t].route[j] = Routes

PrintDirectly(t, j) ==
  /\ ~ByServer(t, j)
  /\ Queue!Deliver(t, j)
  /\ Bridge!Enqueue(j, TRUE)
  /\ UNCHANGED cloudVars

PrintByServer(t, j) ==
  /\ ByServer(t, j)
  /\ Queue!Deliver(t, j)
  /\ Cloud!Submit(j)
  /\ UNCHANGED bridgeVars

\* A request that was given up arrives at the bridge or, if there are other
\* routes, at the server.
ArriveLate(j) ==
  /\ Queue!DeliverLate(j)
  /\ \/ Bridge!Enqueue(j, TRUE) /\ UNCHANGED cloudVars
     \/ Routes > 1 /\ Cloud!Submit(j) /\ UNCHANGED bridgeVars

Forward(c) ==
  /\ Cloud!SendToBridge(c)
  /\ Bridge!Enqueue(cloud[c].ticket, FALSE)
  /\ UNCHANGED queueVars

-----------------------------------------------------------------------------

Init == Queue!Init /\ Bridge!Init /\ Cloud!Init

Next ==
  \/ Queue!Local /\ UNCHANGED <<bridgeVars, cloudVars>>
  \/ (Bridge!WorkerStep \/ Bridge!Restart \/ \E n \in Bridge!Slots : Bridge!RetryDue(n))
       /\ UNCHANGED <<queueVars, cloudVars>>
  \/ (Cloud!PollStep \/ Cloud!StopDesktop) /\ UNCHANGED <<queueVars, bridgeVars>>
  \/ \E t \in Tabs, j \in Jobs : PrintDirectly(t, j) \/ PrintByServer(t, j)
  \/ \E j \in Jobs : ArriveLate(j)
  \/ \E c \in Cloud!Rows : Forward(c)

Spec == Init /\ [][Next]_vars

-----------------------------------------------------------------------------

TypeOK == Queue!TypeOK /\ Bridge!TypeOK /\ Cloud!TypeOK

\* A row that says acked has been handed on: the bridge had its job, or the
\* server stored it.
AckedIsHandedOn ==
  \A j \in Queue!AckedRows :
    \/ j \in excused
    \/ \E n \in Bridge!Slots : jobs[n].ticket = j
    \/ \E c \in Cloud!Rows : cloud[c].ticket = j

PrintedWasSent == Cloud!PrintedWasSent

\* What the server stores as printed the bridge has queued, or had.
PrintedWasQueued ==
  \A c \in Cloud!Rows : cloud[c].status = "printed" =>
    \E n \in Bridge!Slots : jobs[n].ticket = cloud[c].ticket \/ jobs[n].status = "gone"
=============================================================================
