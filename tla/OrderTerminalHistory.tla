------------------------ MODULE OrderTerminalHistory ------------------------
(***************************************************************************)
(* OrderTerminal with a history variable that no code keeps.               *)
(***************************************************************************)
EXTENDS OrderTerminal

VARIABLE overtaken  \* adds whose row another request changed or removed before their answer was read

hvars == <<db, screen, active, guard, click, get, spent, overtaken>>

HInit == Init /\ overtaken = {}

HNext ==
  /\ Next
  /\ overtaken' = overtaken \cup
       {m \in Clicks : /\ click[m].kind = "add" /\ click[m].stage = "committed"
                       /\ \A l \in db' : l.by # m}

HSpec == HInit /\ [][HNext]_hvars /\ Fairness

-----------------------------------------------------------------------------
\* "Runtime commits the mutation or rolls it back" (OPTIMISTIC_MUTATION_LIFECYCLE.md):
\* when an add has been answered or has failed its optimistic line is gone, unless
\* another request changed its row before the answer was read, and the answer
\* could not be told to be of this add.
GhostsWereOvertaken ==
  \A l \in screen : l.optimistic /\ ~UnderWay(l.id) => l.id \in overtaken
=============================================================================
