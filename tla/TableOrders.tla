---------------------------- MODULE TableOrders ----------------------------
(***************************************************************************)
(* The table-order API, app/api/pos/table-orders/route.ts: the POST        *)
(* requests several terminals send at once for the same tables, each cut   *)
(* at the statements between which another request can commit.  Prisma     *)
(* interactive transactions run at READ COMMITTED: a statement reads what  *)
(* is committed when it starts and the transaction's own writes; a written *)
(* row stays locked, and its new value invisible, until the commit.  The   *)
(* last statement of every transaction is the UPDATE of the order row, so  *)
(* that statement and the commit are one step here, and the writes made    *)
(* before it wait in work[r].  There is one order row per table, used      *)
(* again for every sitting of the table.                                   *)
(*                                                                         *)
(* A request is one HTTP call; the rows it inserts are named after it.     *)
(***************************************************************************)
EXTENDS Integers, FiniteSets, FiniteSetsExt

CONSTANTS
  Requests,    \* HTTP calls; each is served once
  Tables,      \* tables of the floor, the order rows "TABLE-<id>"
  Products,    \* line signatures: two lines of one signature are merged
  Price,       \* what one unit of a product adds to the bill
  Quantities,  \* quantities a terminal may ask for (0 removes a line)
  Keys,        \* reconciliation keys
  Accounts,    \* current accounts a sale may be charged to
  NoAccount,   \* the payment names no account
  Offers,      \* the payment bodies the terminals send
  Kinds,       \* the kinds of request of this instance
  SeedIds,     \* ids of the lines on the tables when the run starts
  SeedLines    \* those lines

Methods == {"cash", "card", "account", "mixed"}
AllKinds == {"add", "line", "sent", "save", "clear", "partial", "close", "cancel"}

\* The body gives no number for this part.
NotSent == -1

Offer == [method : Methods, amount : Nat, cash : Nat \cup {NotSent},
          account : Nat \cup {NotSent}, accountId : Accounts \cup {NoAccount}]

LineIds == Requests \cup SeedIds

Line == [id : LineIds, table : Tables, product : Products, qty : Nat, sent : Nat]

ASSUME ConstantsAssumption ==
  /\ Price \in [Products -> Int]
  /\ Quantities \subseteq Nat
  /\ Offers \subseteq Offer
  /\ NoAccount \notin Accounts
  /\ Kinds \subseteq AllKinds
  /\ Requests \cap SeedIds = {}
  /\ SeedLines \subseteq Line
  /\ \A l \in SeedLines : l.id \in SeedIds
  /\ \A l, m \in SeedLines :
       (l.id = m.id \/ (l.product = m.product /\ l.table = m.table)) => l = m

ASSUME SeedAssumption == IsFiniteSet(SeedLines)

VARIABLES
  order,      \* order[t]: the order row of table t
  items,      \* the order_items rows
  payments,   \* the payments rows
  cash,       \* the cash_transactions rows these requests wrote
  movements,  \* the current_account_movements rows these requests wrote
  runtime,    \* lines in the runtime_states row "table-payment-state:<branch>"
  pc,         \* pc[r]: the statement request r runs next
  req,        \* req[r]: its body, and the order row read before the transaction
  work        \* work[r]: its transaction's reads and uncommitted writes

db == <<order, items, payments, cash, movements>>
vars == <<order, items, payments, cash, movements, runtime, pc, req, work>>

-----------------------------------------------------------------------------
(* Rows.  pre is metadata.prePaymentLineTotal, 0 when it is not there.     *)

Order == [status : {"none", "open", "paid"}, subtotal : Int, discount : Int,
          total : Int, pre : Int]
NoOrder == [status |-> "none", subtotal |-> 0, discount |-> 0, total |-> 0, pre |-> 0]

Payment == [id : Requests, table : Tables, key : Keys, status : {"paid", "voided"},
            amount : Int, offer : Offer, accountId : Accounts \cup {NoAccount}]

CashRow == [id : Requests, payment : Requests, amount : Int]

Movement == [key : Keys, side : {"sale", "void"}, account : Accounts,
             payment : Requests, amount : Int, after : Int]

PaymentKinds == {"partial", "close"}

Request == [kind : {"none"}]
      \cup [kind : {"add"}, table : Tables, product : Products, qty : Quantities]
      \cup [kind : {"line"}, table : Tables, line : LineIds, qty : Quantities, order : Order]
      \cup [kind : {"sent", "save", "clear"}, table : Tables, order : Order]
      \cup [kind : PaymentKinds, table : Tables, key : Keys, offer : Offers, order : Order]
      \cup [kind : {"cancel"}, table : Tables, key : Keys, order : Order]

\* rows: lines read or locked; write: what replaces the locked ones; pays: the
\* paid payments read under the advisory lock; charge, bill, left, balance,
\* closes: the payment being recorded, and whether the order ends up closed.
Work == [rows : SUBSET Line, write : SUBSET Line, pays : SUBSET Payment,
         charge : Int, bill : Int, left : Int, balance : Int, closes : BOOLEAN]
NoWork == [rows |-> {}, write |-> {}, pays |-> {},
           charge |-> 0, bill |-> 0, left |-> 0, balance |-> 0, closes |-> FALSE]

Steps == {"upsert", "add_lines", "find", "line_write", "line_order", "sent_find",
          "sent_write", "sent_order", "save_order", "clear_lock", "clear_order",
          "pay_lock", "pay_load", "pay_scan", "pay_order", "cancel_lock",
          "cancel_order", "reload", "persist"}
Ends == {"done", "failed"}

-----------------------------------------------------------------------------
(* Amounts.                                                                 *)

\* decimalToNumber: NULL, which SUM gives for no rows, counts as 0.
DecimalToNumber(v) == IF v \in Int THEN v ELSE 0

Lesser(a, b) == IF a <= b THEN a ELSE b
Larger(a, b) == IF a >= b THEN a ELSE b

\* getLineSubtotal, summed over rows.  A complimentary product has price 0, a
\* returned one a negative price.
ItemTotal(rows) ==
  DecimalToNumber(MapThenSumSet(LAMBDA l : l.qty * Price[l.product], rows))

Sum(rows) == DecimalToNumber(MapThenSumSet(LAMBDA p : p.amount, rows))

LinesOf(t) == {l \in items : l.table = t}
\* Mutant: the query does not filter by status.
PaidOf_AnyStatus(t) == {p \in payments : p.table = t}
PaidOf(t)  == {p \in payments : p.table = t /\ p.status = "paid"}

\* loadPaymentState.  ord is the row the request read before its transaction.
OrderTotal(t, ord) ==
  LET lines == ItemTotal(LinesOf(t))
  IN IF lines # 0 THEN lines
     ELSE IF ord.pre # 0 THEN ord.pre
     ELSE IF ord.subtotal # 0 THEN ord.subtotal ELSE ord.total

\* Mutant: earlier payments are not subtracted.
RemainingTotal_IgnoresPaid(bill, paid, ord) ==
  IF ord.status = "paid" \/ bill <= paid THEN 0 ELSE bill

RemainingTotal(bill, paid, ord) ==
  IF ord.status = "paid" \/ bill <= paid THEN 0 ELSE bill - paid

\* What a payment of this amount puts in the drawer, or on the account.
CashPart(offer, charge) ==
  CASE offer.method = "cash"  -> charge
    [] offer.method = "mixed" -> Lesser(Larger(offer.cash, 0), charge)
    [] OTHER -> 0
AccountPart(offer, charge) ==
  CASE offer.method = "account" -> charge
    [] offer.method = "mixed" -> Lesser(Larger(offer.account, 0), charge)
    [] OTHER -> 0

AccountBalance(a) == Sum({m \in movements : m.account = a})

\* loadAuthoritativeOrdersByTable: the lines of the orders that are open.
OrdersByTable == {l \in items : order[l.table].status = "open"}

-----------------------------------------------------------------------------
(* Locks.  The row lock of an order is held by a request that upserted it,  *)
(* the locks of lines by one that wrote them, the advisory lock of an order *)
(* by a payment, a cancellation or a clearing, each until its commit.       *)

LineHolders == {"line_order", "sent_order"}
\* Mutants: the lock is released after the reads; or, being a session lock, never.
AdvisoryHolders_ReleasedEarly == {"pay_load", "pay_scan", "cancel_order", "clear_order"}
AdvisoryHolders_SessionLock ==
  {"pay_load", "pay_scan", "pay_order", "cancel_order", "clear_order", "reload", "persist", "done"}

AdvisoryHolders == {"pay_load", "pay_scan", "pay_order", "cancel_order", "clear_order"}

HoldsOrderRow(q, t)  == pc[q] = "add_lines" /\ req[q].table = t
HoldsLine(q, id)     == pc[q] \in LineHolders /\ \E l \in work[q].rows : l.id = id
HoldsAdvisory(q, t)  == pc[q] \in AdvisoryHolders /\ req[q].table = t

\* Mutant: the payment does not take the advisory lock.
AdvisoryFree_Unlocked(r, t) == TRUE

OrderRowFree(r, t) == \A q \in Requests \ {r} : ~HoldsOrderRow(q, t)
LinesFree(r, ids)  == \A q \in Requests \ {r} : \A id \in ids : ~HoldsLine(q, id)
AdvisoryFree(r, t) == \A q \in Requests \ {r} : ~HoldsAdvisory(q, t)

Ids(rows) == {l.id : l \in rows}

Goto(r, step) == pc' = [pc EXCEPT ![r] = step]

-----------------------------------------------------------------------------
(* A request arrives.  All but "add" read the order row here, before the    *)
(* transaction starts; when there is none they answer 404 or 409.           *)

Arrive(r, body, step) ==
  /\ pc[r] = "idle"
  /\ body.kind \in Kinds
  /\ req' = [req EXCEPT ![r] = body]
  /\ Goto(r, step)
  /\ UNCHANGED <<db, runtime, work>>

ReceiveAdd(r) == \E t \in Tables, p \in Products, n \in Quantities \ {0} :
  Arrive(r, [kind |-> "add", table |-> t, product |-> p, qty |-> n], "upsert")

\* update_line_quantity and remove_line (quantity 0): the line must exist.
ReceiveLine(r) == \E l \in items, n \in Quantities :
  Arrive(r, [kind |-> "line", table |-> l.table, line |-> l.id, qty |-> n,
             order |-> order[l.table]], "find")

ReceiveSave(r) == \E t \in Tables, k \in {"sent", "save"} :
  /\ order[t].status # "none"
  /\ Arrive(r, [kind |-> k, table |-> t, order |-> order[t]],
            IF k = "sent" THEN "sent_find" ELSE "save_order")

ReceiveClear(r) == \E t \in Tables :
  Arrive(r, [kind |-> "clear", table |-> t, order |-> order[t]],
         IF order[t].status = "none" THEN "reload" ELSE "clear_lock")

ReceivePayment(r) == \E t \in Tables, k \in PaymentKinds, key \in Keys, o \in Offers :
  /\ order[t].status # "none"
  /\ Arrive(r, [kind |-> k, table |-> t, key |-> key, offer |-> o, order |-> order[t]],
            "pay_lock")

ReceiveCancel(r) == \E t \in Tables, key \in Keys :
  /\ order[t].status # "none"
  /\ Arrive(r, [kind |-> "cancel", table |-> t, key |-> key, order |-> order[t]],
            "cancel_lock")

-----------------------------------------------------------------------------
(* Add a product.  The upsert locks the order row, so no other write to the *)
(* table's lines commits before this transaction does.                      *)

SameLine(r) == {l \in LinesOf(req[r].table) : l.product = req[r].product}

\* Mutant: the search comes before the upsert.
AddUpsert_SearchFirst(r) ==
  /\ pc[r] = "upsert"
  /\ work' = [work EXCEPT ![r].rows = SameLine(r)]
  /\ Goto(r, "add_lines")
  /\ UNCHANGED <<db, runtime, req>>

\* The upsert and, with the order row locked, the search for a matching line.
AddUpsert(r) ==
  /\ pc[r] = "upsert"
  /\ OrderRowFree(r, req[r].table)
  /\ work' = [work EXCEPT ![r].rows = SameLine(r)]
  /\ Goto(r, "add_lines")
  /\ UNCHANGED <<db, runtime, req>>

NewLine(r) == [id |-> r, table |-> req[r].table, product |-> req[r].product,
               qty |-> req[r].qty, sent |-> 0]

\* The matching line found becomes the one read, with the quantity added.
Merge(r, seen) ==
  {l \in items : l.id # seen.id} \cup {[seen EXCEPT !.qty = @ + req[r].qty]}

AddCommit(r) ==
  LET t == req[r].table
      subtotal == ItemTotal({l \in items' : l.table = t})
  IN /\ pc[r] = "add_lines"
     /\ LinesFree(r, Ids(work[r].rows))
     /\ \/ work[r].rows = {} /\ items' = items \cup {NewLine(r)}
        \/ \E seen \in work[r].rows : items' = Merge(r, seen)
     /\ order' = [order EXCEPT ![t] = [status |-> "open", subtotal |-> subtotal,
                      discount |-> order[t].discount, total |-> subtotal, pre |-> 0]]
     /\ Goto(r, "done")
     /\ UNCHANGED <<payments, cash, movements, runtime, req, work>>

-----------------------------------------------------------------------------
(* Change the quantity of a line, or remove it.                             *)

LineFind(r) ==
  /\ pc[r] = "find"
  /\ work' = [work EXCEPT ![r].rows = {l \in items : l.id = req[r].line}]
  /\ Goto(r, IF Ids(work'[r].rows) = {} THEN "done" ELSE "line_write")
  /\ UNCHANGED <<db, runtime, req>>

\* Mutant: the quantity is taken as a difference.
Requantified_Difference(l, seen, n) ==
  IF n = 0 THEN {} ELSE {[l EXCEPT !.qty = @ - n, !.sent = Lesser(seen.sent, n)]}

\* The row written: quantity, and the metadata read by LineFind.
Requantified(l, seen, n) ==
  IF n = 0 THEN {} ELSE {[l EXCEPT !.qty = n, !.sent = Lesser(seen.sent, n)]}

LineWrite(r) ==
  /\ pc[r] = "line_write"
  /\ \E l \in items, seen \in work[r].rows :
       /\ l.id = req[r].line
       /\ LinesFree(r, {l.id})
       /\ LET write == Requantified(l, seen, req[r].qty)
              rows  == (LinesOf(l.table) \ {l}) \cup write
          IN work' = [work EXCEPT ![r].rows = {l}, ![r].write = write,
                                  ![r].bill = ItemTotal(rows),
                                  ![r].closes = rows = {}]
  /\ Goto(r, "line_order")
  /\ UNCHANGED <<db, runtime, req>>

\* The row is gone: the update throws (P2025) and the transaction rolls back.
LineGone(r) ==
  /\ pc[r] = "line_write"
  /\ req[r].line \notin Ids(items)
  /\ Goto(r, "failed")
  /\ UNCHANGED <<db, runtime, req, work>>

\* The locked lines give way to the written ones.
WriteLines(r) == items' = (items \ work[r].rows) \cup work[r].write

LineCommit(r) ==
  LET t == req[r].table
  IN /\ pc[r] = "line_order"
     /\ OrderRowFree(r, t)
     /\ WriteLines(r)
     /\ order' = [order EXCEPT ![t] =
          [status |-> IF work[r].closes THEN "paid" ELSE "open",
           subtotal |-> work[r].bill, discount |-> order[t].discount,
           total |-> work[r].bill, pre |-> req[r].order.pre]]
     /\ Goto(r, "done")
     /\ UNCHANGED <<payments, cash, movements, runtime, req, work>>

-----------------------------------------------------------------------------
(* save_order, and mark_order_sent after the kitchen ticket was printed.    *)
(* Both write status 'open' and the metadata read before the transaction.   *)

SentFind(r) ==
  /\ pc[r] = "sent_find"
  /\ work' = [work EXCEPT ![r].rows = LinesOf(req[r].table)]
  /\ Goto(r, IF work'[r].rows = {} THEN "save_order" ELSE "sent_write")
  /\ UNCHANGED <<db, runtime, req>>

AsRead(seen, l) == CHOOSE s \in seen : s.id = l.id

\* Mutant: rows are upserted as they were read.
SentWrite_Upsert(r) ==
  /\ pc[r] = "sent_write"
  /\ LinesFree(r, Ids(work[r].rows))
  /\ work' = [work EXCEPT ![r].write = {[l EXCEPT !.sent = l.qty] : l \in work[r].rows}]
  /\ Goto(r, "sent_order")
  /\ UNCHANGED <<db, runtime, req>>

\* sentQty becomes the quantity SentFind read, whatever the quantity is now.
SentWrite(r) ==
  LET seen == work[r].rows
      current == {l \in items : l.id \in Ids(seen)}
  IN /\ pc[r] = "sent_write"
     /\ Ids(current) = Ids(seen)
     /\ LinesFree(r, Ids(seen))
     /\ work' = [work EXCEPT ![r].rows = current,
          ![r].write = {[l EXCEPT !.sent = AsRead(seen, l).qty] : l \in current}]
     /\ Goto(r, "sent_order")
     /\ UNCHANGED <<db, runtime, req>>

SentGone(r) ==
  /\ pc[r] = "sent_write"
  /\ ~(Ids(work[r].rows) \subseteq Ids(items))
  /\ Goto(r, "failed")
  /\ UNCHANGED <<db, runtime, req, work>>

\* The order row reopened, with the prePaymentLineTotal read on arrival.
Reopened(r) == [order EXCEPT ![req[r].table].status = "open",
                             ![req[r].table].pre = req[r].order.pre]

SentCommit(r) ==
  /\ pc[r] = "sent_order"
  /\ OrderRowFree(r, req[r].table)
  /\ WriteLines(r)
  /\ order' = Reopened(r)
  /\ Goto(r, "done")
  /\ UNCHANGED <<payments, cash, movements, runtime, req, work>>

SaveCommit(r) ==
  /\ pc[r] = "save_order"
  /\ OrderRowFree(r, req[r].table)
  /\ order' = Reopened(r)
  /\ Goto(r, "done")
  /\ UNCHANGED <<items, payments, cash, movements, runtime, req, work>>

-----------------------------------------------------------------------------
(* clear_table and delete_table.  DELETE takes the lines committed when it  *)
(* starts, and waits for the locked ones among them.                        *)

ClearLock(r) ==
  /\ pc[r] = "clear_lock"
  /\ AdvisoryFree(r, req[r].table)
  /\ work' = [work EXCEPT ![r].rows = LinesOf(req[r].table)]
  /\ Goto(r, "clear_order")
  /\ UNCHANGED <<db, runtime, req>>

DeleteLines(r) ==
  /\ LinesFree(r, Ids(work[r].rows))
  /\ items' = {l \in items : l.id \notin Ids(work[r].rows)}

ClearCommit(r) ==
  /\ pc[r] = "clear_order"
  /\ OrderRowFree(r, req[r].table)
  /\ DeleteLines(r)
  /\ order' = [order EXCEPT ![req[r].table] = [status |-> "paid", subtotal |-> 0,
                   discount |-> 0, total |-> 0, pre |-> req[r].order.pre]]
  /\ Goto(r, "reload")
  /\ UNCHANGED <<payments, cash, movements, runtime, req, work>>

-----------------------------------------------------------------------------
(* add_partial_payment ("partial"), and finalize_payment and                *)
(* close_table_payment ("close"), which also close the table.               *)

Duplicate(r) == \E p \in PaidOf(req[r].table) : p.key = req[r].key

Bill(r) == OrderTotal(req[r].table, req[r].order)
Left(r) == RemainingTotal(Bill(r), Sum(PaidOf(req[r].table)), req[r].order)
Charge(r) == IF req[r].offer.amount > 0 THEN Lesser(req[r].offer.amount, Left(r)) ELSE Left(r)

\* The account part was given no account: the transaction throws.
NoAccountGiven(r) == /\ AccountPart(req[r].offer, Charge(r)) > 0
                     /\ req[r].offer.accountId = NoAccount

\* The advisory lock, then loadPaymentState.
PayLocked(r) == pc[r] = "pay_lock" /\ AdvisoryFree(r, req[r].table)

PayDuplicate(r) ==
  /\ PayLocked(r)
  /\ Duplicate(r)
  /\ Goto(r, "reload")
  /\ UNCHANGED <<db, runtime, req, work>>

PayRefused(r) ==
  /\ PayLocked(r)
  /\ ~Duplicate(r)
  /\ Charge(r) <= 0 \/ NoAccountGiven(r)
  /\ Goto(r, "failed")
  /\ UNCHANGED <<db, runtime, req, work>>

PayCharge(r) ==
  /\ PayLocked(r)
  /\ ~Duplicate(r)
  /\ Charge(r) > 0
  /\ ~NoAccountGiven(r)
  /\ work' = [work EXCEPT ![r].charge = Charge(r), ![r].pays = PaidOf(req[r].table),
                          ![r].balance = AccountBalance(req[r].offer.accountId)]
  /\ Goto(r, "pay_load")
  /\ UNCHANGED <<db, runtime, req>>

\* The second loadPaymentState, with the new payment counted.
PayLoad(r) ==
  LET bill == Bill(r)
      left == RemainingTotal(bill, Sum(PaidOf(req[r].table)) + work[r].charge, req[r].order)
      closes == req[r].kind = "close" \/ left <= 0
  IN /\ pc[r] = "pay_load"
     /\ work' = [work EXCEPT ![r].bill = bill, ![r].left = left, ![r].closes = closes]
     /\ Goto(r, IF closes THEN "pay_scan" ELSE "pay_order")
     /\ UNCHANGED <<db, runtime, req>>

PayScan(r) ==
  /\ pc[r] = "pay_scan"
  /\ work' = [work EXCEPT ![r].rows = LinesOf(req[r].table)]
  /\ Goto(r, "pay_order")
  /\ UNCHANGED <<db, runtime, req>>

NewPayment(r) ==
  [id |-> r, table |-> req[r].table, key |-> req[r].key, status |-> "paid",
   amount |-> work[r].charge, offer |-> req[r].offer, accountId |-> req[r].offer.accountId]

CashRows(r, amount) ==
  IF amount > 0 THEN {[id |-> r, payment |-> r, amount |-> amount]} ELSE {}

SaleRows(r, amount) ==
  IF amount > 0
  THEN {[key |-> req[r].key, side |-> "sale", account |-> req[r].offer.accountId,
         payment |-> r, amount |-> amount, after |-> work[r].balance + amount]}
  ELSE {}

\* The unique index on (tenantId, reconciliationKey) of the account ledger.
SaleExists(key) == \E m \in movements : m.key = key /\ m.side = "sale"

PayCommit(r) ==
  LET t == req[r].table
      offer == req[r].offer
      sale == SaleRows(r, AccountPart(offer, work[r].charge))
      discount == IF work[r].closes THEN work[r].left ELSE 0
  IN /\ pc[r] = "pay_order"
     /\ OrderRowFree(r, t)
     /\ sale # {} => ~SaleExists(req[r].key)
     /\ DeleteLines(r)
     /\ payments' = payments \cup {NewPayment(r)}
     /\ cash' = cash \cup CashRows(r, CashPart(offer, work[r].charge))
     /\ movements' = movements \cup sale
     /\ order' = [order EXCEPT ![t] =
          [status |-> IF work[r].closes THEN "paid" ELSE "open", subtotal |-> work[r].bill,
           discount |-> discount, total |-> work[r].bill - discount, pre |-> work[r].bill]]
     /\ Goto(r, "reload")
     /\ UNCHANGED <<runtime, req, work>>

PayConflict(r) ==
  /\ pc[r] = "pay_order"
  /\ AccountPart(req[r].offer, work[r].charge) > 0
  /\ SaleExists(req[r].key)
  /\ Goto(r, "failed")
  /\ UNCHANGED <<db, runtime, req, work>>

-----------------------------------------------------------------------------
(* cancel_partial_payment.                                                  *)

CancelLocked(r) == pc[r] = "cancel_lock" /\ AdvisoryFree(r, req[r].table)

CancelRefused(r) ==
  /\ CancelLocked(r)
  /\ ~Duplicate(r) \/ req[r].order.status = "paid"
  /\ Goto(r, "failed")
  /\ UNCHANGED <<db, runtime, req, work>>

CancelFind(r) ==
  /\ CancelLocked(r)
  /\ req[r].order.status # "paid"
  /\ \E p \in PaidOf(req[r].table) :
       /\ p.key = req[r].key
       /\ work' = [work EXCEPT ![r].pays = {p}]
  /\ Goto(r, "cancel_order")
  /\ UNCHANGED <<db, runtime, req>>

\* Mutant: the amount is zeroed and the status kept.
Voided_KeepsStatus(p) == [p EXCEPT !.amount = 0, !.accountId = NoAccount]

\* The update replaces the payment's metadata, its accountId included.
Voided(p) == [p EXCEPT !.status = "voided", !.accountId = NoAccount]

\* The parts as the metadata hold them: what the terminal sent, uncapped.
StoredCash(p) ==
  CASE p.offer.cash # NotSent    -> p.offer.cash
    [] p.offer.method = "cash"   -> p.amount
    [] OTHER -> 0
StoredAccount(p) ==
  CASE p.offer.account # NotSent  -> p.offer.account
    [] p.offer.method = "account" -> p.amount
    [] OTHER -> 0

VoidCash(r, p) ==
  IF StoredCash(p) > 0 THEN {[id |-> r, payment |-> p.id, amount |-> -StoredCash(p)]} ELSE {}

\* The refund goes to the account that the payment row names after the update.
RefundRows(p, key) ==
  LET a == Voided(p).accountId
  IN IF StoredAccount(p) > 0 /\ a # NoAccount
     THEN {[key |-> key, side |-> "void", account |-> a, payment |-> p.id,
            amount |-> -StoredAccount(p), after |-> AccountBalance(a) - StoredAccount(p)]}
     ELSE {}

CancelCommit(r) ==
  /\ pc[r] = "cancel_order"
  /\ OrderRowFree(r, req[r].table)
  /\ \E p \in work[r].pays :
       /\ payments' = (payments \ {p}) \cup {Voided(p)}
       /\ cash' = cash \cup VoidCash(r, p)
       /\ movements' = movements \cup
            {m \in RefundRows(p, req[r].key) :
               ~\E n \in movements : n.key = m.key /\ n.side = m.side}
  /\ order' = [order EXCEPT ![req[r].table].pre = req[r].order.pre]
  /\ Goto(r, "reload")
  /\ UNCHANGED <<items, runtime, req, work>>

-----------------------------------------------------------------------------
(* After its commit a payment, a cancellation or a clearing reads the open  *)
(* orders again and writes them to the branch's runtime table state.        *)

Reload(r) ==
  /\ pc[r] = "reload"
  /\ work' = [work EXCEPT ![r].rows = OrdersByTable]
  /\ Goto(r, "persist")
  /\ UNCHANGED <<db, runtime, req>>

Persist(r) ==
  /\ pc[r] = "persist"
  /\ runtime' = work[r].rows
  /\ Goto(r, "done")
  /\ UNCHANGED <<db, req, work>>

-----------------------------------------------------------------------------
(* A statement can fail, the transaction time out or the server stop: what  *)
(* is uncommitted is lost.  PostgreSQL ends a deadlock by aborting one of   *)
(* the transactions in it; only an "add" waits for a line while it holds    *)
(* the order row, so two transactions are enough for one.                   *)

Fail(r) ==
  /\ pc[r] \in Steps
  /\ Goto(r, "failed")
  /\ UNCHANGED <<db, runtime, req, work>>

Deadlocked(q, r) ==
  /\ pc[q] = "add_lines" /\ pc[r] \in LineHolders
  /\ req[q].table = req[r].table
  /\ \E l \in work[q].rows : HoldsLine(r, l.id)

DeadlockVictim(r) ==
  /\ \E q \in Requests \ {r} : Deadlocked(q, r) \/ Deadlocked(r, q)
  /\ Goto(r, "failed")
  /\ UNCHANGED <<db, runtime, req, work>>

-----------------------------------------------------------------------------

Init ==
  /\ items = SeedLines
  /\ order = [t \in Tables |->
        IF LinesOf(t) = {} THEN NoOrder
        ELSE [NoOrder EXCEPT !.status = "open", !.subtotal = ItemTotal(LinesOf(t)),
                             !.total = ItemTotal(LinesOf(t))]]
  /\ payments = {} /\ cash = {} /\ movements = {} /\ runtime = {}
  /\ pc = [r \in Requests |-> "idle"]
  /\ req = [r \in Requests |-> [kind |-> "none"]]
  /\ work = [r \in Requests |-> NoWork]

Receive(r) == \/ ReceiveAdd(r) \/ ReceiveLine(r) \/ ReceiveSave(r)
              \/ ReceiveClear(r) \/ ReceivePayment(r) \/ ReceiveCancel(r)

Progress(r) ==
  \/ AddUpsert(r) \/ AddCommit(r)
  \/ LineFind(r) \/ LineWrite(r) \/ LineGone(r) \/ LineCommit(r)
  \/ SentFind(r) \/ SentWrite(r) \/ SentGone(r) \/ SentCommit(r) \/ SaveCommit(r)
  \/ ClearLock(r) \/ ClearCommit(r)
  \/ PayDuplicate(r) \/ PayRefused(r) \/ PayCharge(r) \/ PayLoad(r) \/ PayScan(r)
  \/ PayCommit(r) \/ PayConflict(r)
  \/ CancelRefused(r) \/ CancelFind(r) \/ CancelCommit(r)
  \/ Reload(r) \/ Persist(r)

Next == \E r \in Requests : Receive(r) \/ Progress(r) \/ Fail(r) \/ DeadlockVictim(r)

Spec == Init /\ [][Next]_vars

\* A request that arrived keeps running, and PostgreSQL ends every deadlock;
\* nothing makes a terminal send a request, or a statement fail.
Fairness == \A r \in Requests : WF_vars(Progress(r)) /\ WF_vars(DeadlockVictim(r))

FairSpec == Spec /\ Fairness

-----------------------------------------------------------------------------
(* Properties of every interleaving.                                        *)

\* The kind of request that runs a step, and what a payment being recorded has
\* been checked for.
StepOK(r) ==
  /\ pc[r] \in {"upsert", "add_lines"} => req[r].kind = "add"
  /\ pc[r] \in {"find", "line_write", "line_order"} => req[r].kind = "line"
  /\ pc[r] \in {"sent_find", "sent_write", "sent_order"} => req[r].kind = "sent"
  /\ pc[r] = "save_order" => req[r].kind \in {"sent", "save"}
  /\ pc[r] \in {"clear_lock", "clear_order"} => req[r].kind = "clear"
  /\ pc[r] \in {"pay_lock", "pay_load", "pay_scan", "pay_order"} => req[r].kind \in PaymentKinds
  /\ pc[r] \in {"cancel_lock", "cancel_order"} => req[r].kind = "cancel"
  /\ pc[r] \in {"pay_load", "pay_scan", "pay_order"} =>
       /\ work[r].charge > 0
       /\ AccountPart(req[r].offer, work[r].charge) > 0 => req[r].offer.accountId # NoAccount

TypeOK ==
  /\ order \in [Tables -> Order]
  /\ items \subseteq Line
  /\ payments \subseteq Payment
  /\ cash \subseteq CashRow
  /\ movements \subseteq Movement
  /\ runtime \subseteq Line
  /\ pc \in [Requests -> {"idle"} \cup Steps \cup Ends]
  /\ req \in [Requests -> Request]
  /\ work \in [Requests -> Work]
  /\ \A r \in Requests : StepOK(r)

\* "Each payment carries a reconciliationKey; an advisory transaction lock is
\* taken per order; when the same key arrives again no new payment is written"
\* (FULL_BUSINESS_RECOVERY_MATRIX.md): terminals that race or retry with one
\* key leave at most one paid payment of it on an order.
OnePaymentPerKey ==
  \A p, q \in payments :
    (p.status = "paid" /\ q.status = "paid" /\ p.table = q.table /\ p.key = q.key) => p = q

\* What a payment read under the advisory lock still holds when it commits: no
\* payment of its order is recorded or voided in between.
PaymentsReadAreCurrent ==
  \A r \in Requests :
    /\ pc[r] \in {"pay_load", "pay_scan", "pay_order"} => work[r].pays = PaidOf(req[r].table)
    /\ pc[r] = "cancel_order" => work[r].pays \subseteq PaidOf(req[r].table)

\* What a payment put in the drawer and on the account, and what a cancellation of
\* it took out of the drawer.
PutIn(p)    == {c.amount : c \in {d \in cash : d.id = p.id}}
SoldOn(p)   == {m.amount : m \in {n \in movements : n.payment = p.id /\ n.side = "sale"}}
TakenOut(p) == {c \in cash : c.payment = p.id /\ c.amount < 0}

\* Every payment, voided or not, put its cash part in the drawer and charged its
\* account part, each once; exactly the voided ones have been taken out of the
\* drawer, once, at the cash amount stored with them; and nothing else is in the
\* ledgers.  (It does not ask for the account charge back: VoidsReverseCharges.)
LedgersFollowPayments ==
  /\ \A p \in payments :
       /\ PutIn(p) = {CashPart(p.offer, p.amount)} \ {0}
       /\ SoldOn(p) = {AccountPart(p.offer, p.amount)} \ {0}
       /\ Cardinality(TakenOut(p)) <= 1
       /\ {c.amount : c \in TakenOut(p)} = IF p.status = "voided" THEN {-StoredCash(p)} \ {0} ELSE {}
  /\ \A c \in cash : \E p \in payments : p.id = c.payment
  /\ \A m \in movements : \E p \in payments : p.id = m.payment /\ p.key = m.key

\* Two terminals that add the same product at the same time get one line: the
\* upsert serializes the search for a matching line with its insertion.
OneLinePerProduct ==
  \A l, m \in items : (l.table = m.table /\ l.product = m.product) => l = m

\* A line that was removed, cleared or paid for does not come back: a row
\* appears only when an "add" commits, and only under a new id.
OnlyAddsCreateLines ==
  [][\A l \in items' : l.id \in Ids(items)
        \/ \E r \in Requests : l.id = r /\ pc[r] = "add_lines" /\ pc'[r] = "done"]_items

\* Every request is answered: the order row, the lines and the advisory lock are
\* taken in different orders, but every wait ends.
RequestsAnswered == \A r \in Requests : pc[r] # "idle" ~> pc[r] \in Ends

\* The payments rows implement the ledger of charges.
ChargeOf(p) == [table |-> p.table, key |-> p.key, amount |-> p.amount]
Charges == {ChargeOf(p) : p \in {q \in payments : q.status = "paid"}}
Ledger == INSTANCE PaymentLedger WITH ledger <- Charges
ImplementsLedger == Ledger!Spec

-----------------------------------------------------------------------------
(* What the repository says of the program and some interleaving breaks.    *)

\* "Payment mutation must serialize concurrent terminal writes": once a payment
\* closed the order, another one finds no balance (the status is read before
\* the lock, so it may still find the discount of the first).
ClosedOrderTakesNoPayment ==
  [][\A p \in payments' : p.id \in Ids(payments) \/ order[p.table].status # "paid"]_payments

\* "For a cancelled partial payment on account a reverse movement is recorded"
\* (FULL_BUSINESS_RECOVERY_MATRIX.md): a voided payment that charged an account
\* has given the charge back.
VoidsReverseCharges ==
  \A p \in payments : \A m \in movements :
    (p.status = "voided" /\ m.payment = p.id /\ m.side = "sale") =>
      \E n \in movements : n.payment = p.id /\ n.side = "void" /\ n.amount = -m.amount
============================================================================
