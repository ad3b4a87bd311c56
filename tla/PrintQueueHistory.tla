------------------------- MODULE PrintQueueHistory --------------------------
(***************************************************************************)
(* PrintQueue with a history variable that no code keeps.                  *)
(***************************************************************************)
EXTENDS PrintQueue

VARIABLE orderly  \* no tab was closed, and no row that was printed failed to be written

hvars == <<rows, call, run, late, accepted, orderly>>

HInit == Init /\ orderly = TRUE

WriteFails ==
  \E t \in Tabs, j \in Jobs :
    \/ Mark(t, j) /\ rows'[j] # Printing(run[t].copy[j])
    \/ WriteOutcome(t, j) /\ rows'[j] # Outcome(run[t].copy[j], run[t].step[j])

HNext ==
  /\ Next
  /\ orderly' = (orderly /\ ~WriteFails /\ ~\E t \in Tabs : CloseTab(t))

HSpec == HInit /\ [][HNext]_hvars

-----------------------------------------------------------------------------
PrintedBy(t, j) == run[t].step[j] \in {"sent", "taken", "error"}

\* "Failed jobs are printed again automatically and by hand"
\* (print-resilience-toolbar.tsx): no row is out of reach of the processings to
\* come.  Whatever tabs write over each other's rows, a row that is not printed is
\* being printed by a tab, or the next forced processing finds it ready; if it is
\* pending, any processing does.  This covers jobs queued offline, beside a
\* processing that has read its rows, and beyond the batch; it does not say that
\* a processing follows, nor that its batch has room.
NothingStrands ==
  orderly => \A j \in Existing \ AckedRows :
    \/ \E t \in Tabs : PrintedBy(t, j)
    \/ j \in Ready(rows[j].status # "pending")
=============================================================================
