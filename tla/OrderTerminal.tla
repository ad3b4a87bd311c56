---------------------------- MODULE OrderTerminal ----------------------------
(***************************************************************************)
(* A table on the order screen of one terminal (order-composer.tsx with    *)
(* lib/pos-runtime and lib/pos-order-reconciliation.ts), and its lines at  *)
(* the table-order API.  A click changes the screen at once and sends a    *)
(* request; answers, polls and loads of the page hold the lines as the     *)
(* server read them, and arrive in any order.  TableOrders has the inside  *)
(* of the requests; here each commits in one step.                         *)
(***************************************************************************)
EXTENDS Naturals, FiniteSets

CONSTANTS
  Products,      \* what makes lines of one product equal: id, name, note, price
  SharedKeys,    \* products whose lines have the same product id at the server
  MaxClicks,     \* bounds the requests of the terminal
  Others,        \* requests of other terminals
  Old,           \* the line that may be there at the start
  MaxQty,        \* bounds the quantity a line is changed to
  Disturbances   \* what else happens: "fail", "switch"

ASSUME TerminalAssumption ==
  /\ SharedKeys \subseteq Products
  /\ MaxClicks \in Nat /\ MaxQty \in Nat \ {0}
  /\ Old \notin Others /\ ({Old} \cup Others) \cap 1 .. MaxClicks = {}
  /\ Disturbances \subseteq {"fail", "switch"}

Clicks == 1 .. MaxClicks
Ids == Clicks \cup Others \cup {Old}

\* id: the request that made the line; by: its mutationId, the request that
\* changed it last.
Line == [id : Ids, by : Ids, product : Products, qty : Nat, optimistic : BOOLEAN]
\* "save": save_order, a partial payment, or reading the state of the payments;
\* lost: the terminal has given up, the server may still get it.
Kinds == {"add", "change", "save", "sent", "pay"}
Stages == {"unused", "sent", "committed", "answered", "done"}
NoLine == [id |-> Old]
Unused == [kind |-> "save", line |-> NoLine, qty |-> 0, stage |-> "unused", lost |-> FALSE, got |-> {}]

\* A GET of the table orders: a poll, or a load of the page.
NoGet == [stage |-> "idle", got |-> {}]

VARIABLES
  db,      \* the lines of the table's open order
  screen,  \* the table's lines in ordersByTable of the page
  active,  \* the table is the selected one
  guard,   \* the age of the last add here: "young" (2.5 s), "recent" (15 s) or "old"
  click,   \* click[m]: the m-th request of the page
  get,     \* the GET under way
  spent    \* requests of other terminals that were made

vars == <<db, screen, active, guard, click, get, spent>>

-----------------------------------------------------------------------------
(* mergeAuthoritativeOrders.                                                *)

HasOptimistic(lines) == \E l \in lines : l.optimistic

SameKey(l, s) == l.product \in SharedKeys /\ s.product = l.product /\ s.qty = l.qty

\* Mutants: no optimistic line survives; those survive that are settled.
Surviving_None(local, incoming) == {}
Surviving_Settled(local, incoming) == {l \in local : l.optimistic /\ \A s \in incoming : s.id # l.id \/ s.by = l.id}

Surviving(local, incoming) ==
  {l \in local : l.optimistic /\ \A s \in incoming : s.by # l.id /\ ~SameKey(l, s)}

\* Nothing incoming never empties the selected table, nor one with an add that
\* is recent or optimistic.
Kept(local, isActive, isRecent) == local # {} /\ (isActive \/ isRecent \/ HasOptimistic(local))

\* Mutant: the longer list wins.
Merge_Longer(local, incoming, isActive, isRecent) ==
  IF Cardinality(incoming) < Cardinality(local) THEN local
  ELSE incoming \cup Surviving(local, incoming)

Merge(local, incoming, isActive, isRecent) ==
  IF incoming = {} /\ Kept(local, isActive, isRecent) THEN local
  ELSE IF incoming = {} THEN {}
  ELSE incoming \cup Surviving(local, incoming)

Reconciled(incoming, isActive) == Merge(screen, incoming, isActive, guard \in {"young", "recent"})

-----------------------------------------------------------------------------
(* What the cashier does.                                                   *)

IsNext(m) == active /\ click[m].stage = "unused" /\ \A n \in Clicks : n < m => click[n].stage # "unused"

Request(kind, line, qty) ==
  [Unused EXCEPT !.kind = kind, !.line = line, !.qty = qty, !.stage = "sent"]

OptimisticLine(m, p) == [id |-> m, by |-> m, product |-> p, qty |-> 1, optimistic |-> TRUE]

Add(m, p) ==
  /\ IsNext(m)
  /\ click' = [click EXCEPT ![m] = Request("add", OptimisticLine(m, p), 1)]
  /\ screen' = screen \cup {OptimisticLine(m, p)}
  /\ guard' = "young"
  /\ UNCHANGED <<db, active, get, spent>>

UnderWay(m) == click[m].stage \in {"sent", "committed", "answered"} /\ ~click[m].lost

SameLine(l, s) == l.id = s.id /\ l.optimistic = s.optimistic

\* Mutant: only changes to the same quantity wait for each other.
InFlight_SameQty(l) == \E m \in Clicks :
  UnderWay(m) /\ click[m].kind = "change" /\ SameLine(click[m].line, l) /\ click[m].qty = l.qty

InFlight(l) == \E m \in Clicks :
  UnderWay(m) /\ click[m].kind = "change" /\ SameLine(click[m].line, l)

WithQty(lines, l, qty) ==
  (lines \ {l}) \cup (IF qty = 0 THEN {} ELSE {[l EXCEPT !.qty = qty]})

\* One more or one less.  The screen changes, and no request is made, if another
\* change of the line is under way.
Change(m, l, qty) ==
  /\ IsNext(m)
  /\ l \in screen
  /\ qty \in {l.qty - 1, l.qty + 1} /\ qty <= MaxQty
  /\ screen' = WithQty(screen, l, qty)
  /\ click' = [click EXCEPT ![m] =
       IF InFlight(l) THEN [Unused EXCEPT !.stage = "done"] ELSE Request("change", l, qty)]
  /\ UNCHANGED <<db, active, guard, get, spent>>

SendOrPay(m, kind) ==
  /\ IsNext(m)
  /\ screen # {}
  /\ click' = [click EXCEPT ![m] = Request(kind, NoLine, 0)]
  /\ UNCHANGED <<db, screen, active, guard, get, spent>>

\* Another table is selected, or this one again.
Select ==
  /\ "switch" \in Disturbances
  /\ active' = ~active
  /\ UNCHANGED <<db, screen, guard, click, get, spent>>

\* Time passes; an add at another table makes the last one another's at once.
GuardAges ==
  /\ guard # "old"
  /\ guard' \in {"old"} \cup (IF guard = "young" THEN {"recent"} ELSE {})
  /\ UNCHANGED <<db, screen, active, click, get, spent>>

-----------------------------------------------------------------------------
(* The server: each request commits, and then reads all open lines.         *)

MatchingRow(lines, p) == {l \in lines : l.product = p}

WithProduct(lines, m, p) ==
  IF MatchingRow(lines, p) = {}
  THEN lines \cup {[id |-> m, by |-> m, product |-> p, qty |-> 1, optimistic |-> FALSE]}
  ELSE {IF l.product = p THEN [l EXCEPT !.qty = @ + 1, !.by = m] ELSE l : l \in lines}

WithChange(lines, m, line, qty) ==
  {IF l.id = line.id THEN [l EXCEPT !.qty = qty, !.by = m] ELSE l :
     l \in {s \in lines : s.id # line.id \/ qty > 0}}

\* save_order leaves the lines as they are; mark_order_sent is the last to have
\* changed them.
Changed(lines, m) ==
  LET c == click[m]
  IN CASE c.kind = "add" -> WithProduct(lines, m, c.line.product)
       [] c.kind = "change" -> WithChange(lines, m, c.line, c.qty)
       [] c.kind = "sent" -> {[l EXCEPT !.by = m] : l \in lines}
       [] c.kind = "pay" -> {}
       [] c.kind = "save" -> lines

\* A line that is not at the server, as an optimistic one, cannot be changed there.
Accepts(m) ==
  click[m].kind = "change" => ~click[m].line.optimistic /\ \E l \in db : l.id = click[m].line.id

Commit(m) ==
  /\ click[m].stage = "sent"
  /\ Accepts(m)
  /\ db' = Changed(db, m)
  /\ click' = [click EXCEPT ![m].stage = IF click[m].lost THEN "done" ELSE "committed"]
  /\ UNCHANGED <<screen, active, guard, get, spent>>

ReadBack(m) ==
  /\ click[m].stage = "committed"
  /\ click' = [click EXCEPT ![m].stage = "answered", ![m].got = db]
  /\ UNCHANGED <<db, screen, active, guard, get, spent>>

Other(o) ==
  /\ o \notin spent
  /\ spent' = spent \cup {o}
  /\ \/ \E p \in Products : db' = WithProduct(db, o, p)
     \/ \E l \in db, qty \in 0 .. MaxQty : db' = WithChange(db, o, l, qty)
     \/ db' = {[l EXCEPT !.by = o] : l \in db}
     \/ db' = {}
  /\ UNCHANGED <<screen, active, guard, click, get>>

-----------------------------------------------------------------------------
(* The answers of the requests.                                             *)

Settled(m) == [click[m] EXCEPT !.stage = "done", !.qty = 0, !.got = {}]

\* An answer is merged as if the table were still selected, as it was at the
\* click; that of a request to send or to pay replaces the screen.
Answered(m) ==
  LET c == click[m]
  IN /\ c.stage = "answered"
     /\ screen' = CASE c.kind \in {"add", "change"} -> Reconciled(c.got, TRUE)
                    [] c.kind \in {"save", "sent"} -> c.got
                    [] c.kind = "pay" -> {}
     /\ click' = [click EXCEPT ![m] = Settled(m)]
     /\ UNCHANGED <<db, active, guard, get, spent>>

\* rollbackOrderMutation; nothing else is taken back.
RolledBack(m) ==
  IF click[m].kind = "add"
  THEN {l \in screen : ~l.optimistic \/ l.id # m}
  ELSE screen

Failed(m, lost) ==
  /\ screen' = RolledBack(m)
  /\ click' = [click EXCEPT ![m] = IF lost THEN [@ EXCEPT !.lost = TRUE] ELSE Settled(m)]
  /\ UNCHANGED <<db, active, guard, get, spent>>

Refuse(m) ==
  /\ UnderWay(m) /\ click[m].stage = "sent"
  /\ ~Accepts(m)
  /\ Failed(m, FALSE)

\* The connection breaks; the request may still be on its way.
GiveUp(m) ==
  /\ "fail" \in Disturbances
  /\ UnderWay(m)
  /\ \/ Failed(m, FALSE)
     \/ click[m].stage = "sent" /\ Failed(m, TRUE)

-----------------------------------------------------------------------------
(* Polls, every four seconds and on focus, and loads of the page.  Of the      *)
(* GETs one is under way at a time here: two polls share one, and a load reads *)
(* the same as a poll, so that its answer decides which of the two it is.      *)

ReadLines ==
  /\ get.stage = "idle"
  /\ get' = [stage |-> "answered", got |-> db]
  /\ UNCHANGED <<db, screen, active, guard, click, spent>>

PollAnswered ==
  /\ get.stage = "answered"
  /\ screen' = Reconciled(get.got, active)
  /\ get' = NoGet
  /\ UNCHANGED <<db, active, guard, click, spent>>

\* Mutant: the poll that failed is not forgotten.
AfterFailedGet_Kept == [NoGet EXCEPT !.stage = "failed"]

AfterFailedGet == NoGet

\* What a GET that fails has read does not matter.  A load is dropped like this,
\* too, while an add at any table is young.
GetFails ==
  /\ get.stage = "answered"
  /\ get' = AfterFailedGet
  /\ UNCHANGED <<db, screen, active, guard, click, spent>>

\* wasActive: when the load began.
LoadAnswered ==
  /\ get.stage = "answered"
  /\ guard # "young"
  /\ \E wasActive \in BOOLEAN :
       /\ wasActive # active => "switch" \in Disturbances
       /\ screen' = Reconciled(get.got, wasActive)
  /\ get' = NoGet
  /\ UNCHANGED <<db, active, guard, click, spent>>

-----------------------------------------------------------------------------

OldLine(p) == [id |-> Old, by |-> Old, product |-> p, qty |-> 1, optimistic |-> FALSE]

Init ==
  /\ db \in {{}} \cup {{OldLine(p)} : p \in Products}
  /\ screen = {}
  /\ active \in BOOLEAN
  /\ guard = "old"
  /\ click = [m \in Clicks |-> Unused]
  /\ get = NoGet
  /\ spent = {}

Cashier(m) ==
  \/ \E p \in Products : Add(m, p)
  \/ \E l \in screen, qty \in 0 .. MaxQty : Change(m, l, qty)
  \/ \E kind \in {"save", "sent", "pay"} : SendOrPay(m, kind)

Next ==
  \/ \E m \in Clicks : Cashier(m) \/ Commit(m) \/ ReadBack(m) \/ Answered(m) \/ Refuse(m) \/ GiveUp(m)
  \/ \E o \in Others : Other(o)
  \/ Select \/ GuardAges
  \/ ReadLines \/ PollAnswered \/ GetFails \/ LoadAnswered

Spec == Init /\ [][Next]_vars

\* The page polls as long as it is open, and its polls do not fail for ever.
Fairness == WF_vars(ReadLines) /\ SF_vars(PollAnswered)

FairSpec == Spec /\ Fairness

-----------------------------------------------------------------------------
Click == [kind : Kinds, line : Line \cup {NoLine}, qty : 0 .. MaxQty, stage : Stages,
          lost : BOOLEAN, got : SUBSET Line]
Get == [stage : {"idle", "answered"}, got : SUBSET Line]

\* The server has one line per product, and no optimistic one; an optimistic line
\* of the screen is that of an add.
TypeOK ==
  /\ db \subseteq Line /\ screen \subseteq Line
  /\ active \in BOOLEAN /\ guard \in {"young", "recent", "old"}
  /\ click \in [Clicks -> Click]
  /\ get \in Get
  /\ spent \subseteq Others
  /\ ~HasOptimistic(db) /\ \A l, s \in db : l.product = s.product => l = s
  /\ \A l \in screen : l.optimistic => l.id \in Clicks /\ click[l.id].kind = "add"

\* "Authoritative payloads must pass optimistic protection"
\* (HYDRATION_AND_RECONCILIATION_COSTS.md): while its request is under way, the
\* line of an add leaves the screen only because the cashier removes it, because
\* the answer of a request to send or pay replaces the screen, or for a line of the
\* server that the request made or that looks the same; no poll, load or answer,
\* however old, takes it away otherwise.
PendingLineStays ==
  [][\A l \in screen :
       (l.optimistic /\ UnderWay(l.id) /\ UnderWay(l.id)'
         /\ ~\E s \in screen' : s.id = l.id \/ (~s.optimistic /\ (s.by = l.id \/ SameKey(l, s))))
       => \E m \in Clicks : \/ Change(m, l, 0)
                            \/ Answered(m) /\ click[m].kind \in {"save", "sent", "pay"}]_vars

\* Of two changes of a line the one that was clicked last is the one that stays:
\* an older one is not applied after it, unless the terminal has given it up.  (A
\* click while another is under way sends nothing; ScreenCatchesUp is about it.)
NewerChangeStays ==
  [][\A m, n \in Clicks :
       (m < n /\ click[m].kind = "change" /\ click[n].kind = "change"
         /\ SameLine(click[m].line, click[n].line))
       => ~(Commit(m) /\ ~click[m].lost /\ click[n].stage # "sent")]_vars

Shown == {<<l.id, l.qty>> : l \in {s \in screen : ~s.optimistic}}
Stored == {<<l.id, l.qty>> : l \in db}

\* However late and in whatever order answers come, and whatever fails, the screen
\* comes to show each line of the table with its quantity, unless the table was
\* emptied elsewhere, when its last lines may stay.  Optimistic lines are not asked
\* to go: which of them may stay, GhostsWereOvertaken says.
ScreenCatchesUp == <>[](db = {} \/ Shown = Stored)
=============================================================================
