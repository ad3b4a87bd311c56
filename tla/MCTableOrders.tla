--------------------------- MODULE MCTableOrders ---------------------------
(***************************************************************************)
(* TableOrders, with what was ever ordered at a table, on small instances. *)
(***************************************************************************)
EXTENDS TableOrdersHistory, TLC

-----------------------------------------------------------------------------
(* Values.                                                                  *)
CONSTANTS r1, r2, r3, t1, tea, s1, k1, k2, acc

Tea == [id |-> s1, table |-> t1, product |-> tea, qty |-> 1, sent |-> 0]

TeaPrice == (tea :> 2)
SeedTea == {Tea}

CashOf(n) == [method |-> "cash", amount |-> n, cash |-> n, account |-> 0, accountId |-> NoAccount]
PlainCash == [CashOf(1) EXCEPT !.cash = NotSent, !.account = NotSent]
AccountOf(n) == [PlainCash EXCEPT !.method = "account", !.amount = n, !.accountId = acc]
MixedOf(c, a) == [method |-> "mixed", amount |-> c + a, cash |-> c, account |-> a, accountId |-> acc]

OneCash == {CashOf(1)}
CashOffers == {CashOf(1), CashOf(2)}
MixedOffers == {PlainCash, MixedOf(1, 1)}
AccountOffers == {AccountOf(1)}

Symmetry == Permutations(Requests) \cup Permutations(Keys)
============================================================================
