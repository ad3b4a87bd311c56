------------------------- MODULE OfflineSyncHistory -------------------------
(***************************************************************************)
(* OfflineSync with a history variable that no code keeps.                 *)
(***************************************************************************)
EXTENDS OfflineSync

VARIABLE alone  \* no tab was closed while it synchronised, no two synchronised at once

hvars == <<queue, events, queued, sync, post, alone>>

HInit == Init /\ alone = TRUE

HNext ==
  /\ Next
  /\ alone' = /\ alone
              /\ \A t \in Tabs : CloseTab(t) => Finish(t)
              /\ \A t, u \in Tabs : (sync'[t].phase # "idle" /\ sync'[u].phase # "idle") => t = u

HSpec == HInit /\ [][HNext]_hvars

-----------------------------------------------------------------------------
\* "When the connection is back the queue is checked again": tabs that take
\* turns and are not closed on the way strand nothing, whatever requests fail or
\* are answered late and whenever the queue is cleared.
TurnsStrandNothing == alone => NothingStranded
=============================================================================
