------------------------- MODULE TableOrdersHistory -------------------------
(***************************************************************************)
(* TableOrders with a history variable that no code keeps: the value of    *)
(* everything that was ever ordered at a table.  Whatever raises the value *)
(* of the lines of a table was ordered; what lowers it (a line removed,    *)
(* cleared or paid for) takes nothing back.                                *)
(***************************************************************************)
EXTENDS TableOrders

VARIABLE ordered  \* ordered[t]: the value of everything ever put on table t

hvars == <<order, items, payments, cash, movements, runtime, pc, req, work, ordered>>

HInit ==
  /\ Init
  /\ ordered = [t \in Tables |-> Larger(0, ItemTotal(LinesOf(t)))]

\* What a step adds to the value of a table's lines was ordered there.
Ordering ==
  ordered' = [t \in Tables |->
    ordered[t] + Larger(0, ItemTotal({l \in items' : l.table = t}) - ItemTotal(LinesOf(t)))]

HNext == Next /\ Ordering

HSpec == HInit /\ [][HNext]_hvars

HFairSpec == HSpec /\ Fairness

-----------------------------------------------------------------------------
\* However the terminals race, void, retry and reuse a table, the payments that
\* stand on it never add up to more than was ever ordered there.
CollectedWithinOrdered ==
  \A t \in Tables : Sum(PaidOf(t)) <= ordered[t]
============================================================================
