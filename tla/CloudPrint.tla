----------------------------- MODULE CloudPrint -----------------------------
(***************************************************************************)
(* Prints that go through the server: POST of                              *)
(* app/api/printers/local-agent/print stores a job for the device that was *)
(* seen last; every 15 seconds the desktop application of that device      *)
(* (apps/desktop/src/main.cjs) reads its jobs from                         *)
(* app/api/printers/print-requests, posts each to the bridge of its        *)
(* machine, without a request id, and reports it with PATCH.               *)
(***************************************************************************)
EXTENDS Naturals

CONSTANTS
  Tickets,
  RowCount,  \* bounds the number of jobs the server stores
  Losses     \* what can go wrong: "patch" (a report fails), "stop" (of the desktop)

Rows == 1 .. RowCount
NoRow == 0

VARIABLES
  cloud,  \* tenant_print_jobs
  poll,   \* the cycle under way in the desktop application
  sent    \* rows whose ticket a bridge took

vars == <<cloud, poll, sent>>

CloudStatus == {"free", "pending", "printing", "printed", "failed"}
CloudJob == [ticket : Tickets \cup {NoRow}, status : CloudStatus]

Poll == [step : {"idle", "next", "send", "report", "failing"}, batch : SUBSET Rows,
         current : Rows \cup {NoRow}]
NoPoll == [step |-> "idle", batch |-> {}, current |-> NoRow]

-----------------------------------------------------------------------------

\* The server makes a new mutation id for every request: it never finds a
\* duplicate.
Submit(x) ==
  /\ \E c \in Rows :
       /\ cloud[c].status = "free" /\ \A d \in Rows : d < c => cloud[d].status # "free"
       /\ cloud' = [cloud EXCEPT ![c] = [ticket |-> x, status |-> "pending"]]
  /\ UNCHANGED <<poll, sent>>

Listed == {c \in Rows : cloud[c].status \in {"pending", "failed"}}

ReadJobs ==
  /\ poll.step = "idle"
  /\ Listed # {}
  /\ poll' = [step |-> "next", batch |-> Listed, current |-> NoRow]
  /\ UNCHANGED <<cloud, sent>>

\* PATCH sets the status whatever it was.
Patched(c, status) == [cloud EXCEPT ![c].status = status]

\* Mutant: after a report that fails the job is done.
AfterLostPatch_Done == "report"

\* A report that throws, like a print that does, is caught and reported as failed.
AfterLostPatch == "failing"

MarkPrinting(c) ==
  /\ poll.step = "next" /\ c \in poll.batch
  /\ \A d \in poll.batch : c <= d
  /\ \/ /\ cloud' = Patched(c, "printing")
        /\ poll' = [poll EXCEPT !.step = "send", !.batch = @ \ {c}, !.current = c]
     \/ /\ "patch" \in Losses
        /\ cloud' \in {cloud, Patched(c, "printing")}
        /\ poll' = [poll EXCEPT !.step = AfterLostPatch, !.batch = @ \ {c}, !.current = c]
  /\ UNCHANGED sent

SendToBridge(c) ==
  /\ poll.step = "send" /\ c = poll.current
  /\ sent' = sent \cup {c}
  /\ poll' = [poll EXCEPT !.step = "report"]
  /\ UNCHANGED cloud

\* The bridge does not answer, or answers with an error.
SendFails(c) ==
  /\ poll.step = "send" /\ c = poll.current
  /\ poll' = [poll EXCEPT !.step = "failing"]
  /\ UNCHANGED <<cloud, sent>>

ReportPrinted(c) ==
  /\ poll.step = "report" /\ c = poll.current
  /\ \/ /\ cloud' = Patched(c, "printed")
        /\ poll' = [poll EXCEPT !.step = "next", !.current = NoRow]
     \/ /\ "patch" \in Losses
        /\ cloud' \in {cloud, Patched(c, "printed")}
        /\ poll' = [poll EXCEPT !.step = AfterLostPatch]
  /\ UNCHANGED sent

ReportFailed(c) ==
  /\ poll.step = "failing" /\ c = poll.current
  /\ \/ cloud' = Patched(c, "failed")
     \/ "patch" \in Losses /\ UNCHANGED cloud
  /\ poll' = [poll EXCEPT !.step = "next", !.current = NoRow]
  /\ UNCHANGED sent

EndCycle ==
  /\ poll.step = "next" /\ poll.batch = {}
  /\ poll' = NoPoll
  /\ UNCHANGED <<cloud, sent>>

StopDesktop ==
  /\ "stop" \in Losses
  /\ poll.step # "idle"
  /\ poll' = NoPoll
  /\ UNCHANGED <<cloud, sent>>

-----------------------------------------------------------------------------

Init ==
  /\ cloud = [c \in Rows |-> [ticket |-> NoRow, status |-> "free"]]
  /\ poll = NoPoll
  /\ sent = {}

PollStep == \/ ReadJobs \/ EndCycle
            \/ \E c \in Rows : MarkPrinting(c) \/ SendFails(c) \/ ReportPrinted(c) \/ ReportFailed(c)

Next == \/ PollStep \/ StopDesktop
        \/ \E c \in Rows : SendToBridge(c)
        \/ \E x \in Tickets : Submit(x)

Spec == Init /\ [][Next]_vars

-----------------------------------------------------------------------------
TypeOK ==
  /\ cloud \in [Rows -> CloudJob]
  /\ poll \in Poll
  /\ poll.step \in {"send", "report", "failing"} => poll.current \in Rows
  /\ sent \subseteq Rows

\* "The registered Desktop polls its own jobs, posts to its local bridge and
\* updates printed/failed status" (FULL_BUSINESS_RECOVERY_MATRIX.md): a job that
\* says printed was taken by a bridge, whatever reports were lost before.
PrintedWasSent == \A c \in Rows : cloud[c].status = "printed" => c \in sent
=============================================================================
