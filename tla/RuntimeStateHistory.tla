------------------------ MODULE RuntimeStateHistory -------------------------
(***************************************************************************)
(* RuntimeState with a history variable that no code keeps.                *)
(***************************************************************************)
EXTENDS RuntimeState

VARIABLE unsent  \* unsent[t]: t wrote a value to be saved, and has not posted its copy since

hvars == <<tab, call, mail, row, session, made, unsent>>

HInit == Init /\ unsent = [t \in Tabs |-> FALSE]

Saves(t) == \E c \in Calls : call[c] = NoCall /\ call'[c].kind = "post" /\ call'[c].tab = t
Writes(t) == tab'[t].store # tab[t].store /\ call' = call /\ \E k \in Keys, n \in 1 .. MaxWrites :
  Write(t, k, n, TRUE)

HNext ==
  /\ Next
  /\ unsent' = [t \in Tabs |->
       /\ tab'[t].tenant = tab[t].tenant
       /\ ~tab'[t].locked
       /\ ~Saves(t)
       /\ unsent[t] \/ Writes(t)]

HSpec == HInit /\ [][HNext]_hvars

-----------------------------------------------------------------------------
\* "Saved in the background": as long as the session is valid a written value is
\* posted, or the timer that will post it is set; no answer, refresh or broadcast
\* stops it.  (A post that fails is not tried again.)
UnsentIsScheduled == \A t \in Tabs : unsent[t] => tab[t].flush
=============================================================================
