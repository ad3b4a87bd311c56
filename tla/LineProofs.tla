---------------------------- MODULE LineProofs -----------------------------
(***************************************************************************)
(* The lines of a table survive any race of TableOrders: no two terminals  *)
(* put one product on two lines, and no line comes back after it went.     *)
(* Both depend on what requests remember of lines they read statements     *)
(* ago, so the invariant says what is still true of it: an id never names  *)
(* another product or table, a locked line is as it was read, and a        *)
(* request that holds the order row knows every line of its product.  The  *)
(* last part bounds what is collected at a table by what was ordered there.*)
(***************************************************************************)
EXTENDS TableOrdersProofs, TableOrdersHistory

Identity(l) == <<l.id, l.table, l.product>>

\* A row that a request inserts does not exist before its commit.
Inserted(id) == id \in Requests => pc[id] = "done"

IdsUnique == \A l, m \in items : l.id = m.id => l = m

\* What r remembers of a line is right about its identity.
Known(r) ==
  /\ \A s \in work[r].rows \cup work[r].write :
       Inserted(s.id) /\ \A l \in items : l.id = s.id => Identity(l) = Identity(s)
  /\ req[r].kind = "line" =>
       /\ Inserted(req[r].line)
       /\ \A l \in items : l.id = req[r].line => l.table = req[r].table

\* The rows r remembers are lines of its table.
OfTable(r) ==
  /\ pc[r] \in {"idle", "pay_lock", "pay_load", "pay_scan"} => work[r].rows = {}
  /\ pc[r] \in {"line_order", "sent_write", "sent_order", "clear_order", "pay_order"} =>
       \A s \in work[r].rows : s.table = req[r].table

\* The lines r locked are as it read them, and it writes each of them once.
Locked(r) == pc[r] \in LineHolders =>
  /\ work[r].rows \subseteq items
  /\ \A w \in work[r].write : \E s \in work[r].rows : Identity(s) = Identity(w)
  /\ \A v, w \in work[r].write : v.id = w.id => v = w

LineExclusive ==
  \A q, r \in Requests, id \in LineIds : HoldsLine(q, id) /\ HoldsLine(r, id) => q = r

OrderRowExclusive ==
  \A q, r \in Requests, t \in Tables : HoldsOrderRow(q, t) /\ HoldsOrderRow(r, t) => q = r

\* With the order row locked, r knows the lines of its product.
AddReadsCurrent(r) == pc[r] = "add_lines" => work[r].rows = SameLine(r)

Remembers(r) == Known(r) /\ OfTable(r) /\ Locked(r) /\ AddReadsCurrent(r)

LineInv ==
  /\ TypeOK
  /\ IdsUnique
  /\ \A l \in items : Inserted(l.id)
  /\ \A r \in Requests : Remembers(r)
  /\ LineExclusive
  /\ OrderRowExclusive
  /\ OneLinePerProduct

-----------------------------------------------------------------------------
LEMMA InitLineInv == Init => LineInv
<1> SUFFICES ASSUME Init PROVE LineInv
  OBVIOUS
<1>1. TypeOK
  BY InitType
<1>2. items = SeedLines /\ \A r \in Requests : /\ pc[r] = "idle" /\ req[r].kind = "none"
                                               /\ work[r] = NoWork
  BY DEF Init
<1>3. IdsUnique /\ OneLinePerProduct
  BY <1>2, ConstantsAssumption DEF IdsUnique, OneLinePerProduct
<1>4. \A l \in items : Inserted(l.id)
  BY <1>2, ConstantsAssumption DEF Inserted
<1>5. \A r \in Requests : Remembers(r)
  BY <1>2 DEF Remembers, Known, OfTable, Locked, AddReadsCurrent, LineHolders, NoWork
<1>6. LineExclusive /\ OrderRowExclusive
  BY <1>2 DEF LineExclusive, HoldsLine, LineHolders, OrderRowExclusive, HoldsOrderRow
<1>7. QED
  BY <1>1, <1>3, <1>4, <1>5, <1>6 DEF LineInv

\* What a request knows of lines stays true when no line appears but those that
\* r inserts: nobody has heard of those before.
LEMMA KnownKept ==
  ASSUME LineInv, NEW r \in Requests, NEW s, pc' = [pc EXCEPT ![r] = s], pc[r] # "done",
         \A m \in items' : \/ \E l \in items : Identity(l) = Identity(m)
                           \/ m.id = r /\ s = "done",
         NEW q \in Requests, Known(q), work'[q] = work[q], req'[q] = req[q]
  PROVE  Known(q)'
<1>1. \A id : Inserted(id) => Inserted(id)'
  BY DEF Inserted, LineInv, TypeOK
<1>2. ASSUME NEW u, Inserted(u), NEW m \in items', m.id = u
      PROVE  \E l \in items : Identity(l) = Identity(m)
  BY <1>2 DEF Inserted
<1>3. ASSUME NEW u \in work[q].rows \cup work[q].write
      PROVE  Inserted(u.id)' /\ \A m \in items' : m.id = u.id => Identity(m) = Identity(u)
  <2>1. Inserted(u.id) /\ \A l \in items : l.id = u.id => Identity(l) = Identity(u)
    BY DEF Known
  <2>2. QED
    BY <1>1, <1>2, <2>1 DEF Identity
<1>4. ASSUME req[q].kind = "line"
      PROVE  /\ Inserted(req[q].line)'
             /\ \A m \in items' : m.id = req[q].line => m.table = req[q].table
  <2>1. /\ Inserted(req[q].line)
        /\ \A l \in items : l.id = req[q].line => l.table = req[q].table
    BY <1>4 DEF Known
  <2>2. QED
    BY <1>1, <1>2, <2>1 DEF Identity
<1>5. QED
  BY <1>3, <1>4 DEF Known

\* A step of r that, of the lines, changes only what no other request holds.
LEMMA LineStep ==
  ASSUME LineInv, TypeOK', NEW r \in Requests, NEW s,
         pc' = [pc EXCEPT ![r] = s], pc[r] # "done",
         \A q \in Requests \ {r} : work'[q] = work[q] /\ req'[q] = req[q],
         \A m \in items' : \/ \E l \in items : Identity(l) = Identity(m)
                           \/ m.id = r /\ s = "done",
         \A q \in Requests \ {r}, l \in items : HoldsLine(q, l.id) => l \in items',
         \A q \in Requests \ {r}, t \in Tables :
           HoldsOrderRow(q, t) => LinesOf(t)' = LinesOf(t),
         IdsUnique', OneLinePerProduct', Remembers(r)',
         s = "add_lines" => OrderRowFree(r, req'[r].table),
         s \in LineHolders => LinesFree(r, Ids(work'[r].rows))
  PROVE  LineInv'
<1>0. pc'[r] = s /\ \A q \in Requests \ {r} : pc'[q] = pc[q]
  BY DEF LineInv, TypeOK
<1>1. \A id : Inserted(id) => Inserted(id)'
  BY <1>0 DEF Inserted
<1>2. \A m \in items' : Inserted(m.id)'
  <2>1. SUFFICES ASSUME NEW m \in items' PROVE Inserted(m.id)'
    OBVIOUS
  <2>2. CASE \E l \in items : Identity(l) = Identity(m)
    BY <1>1, <2>2 DEF LineInv, Identity
  <2>3. CASE m.id = r /\ s = "done"
    BY <1>0, <2>3 DEF Inserted
  <2>4. QED
    BY <2>2, <2>3
<1>3. ASSUME NEW q \in Requests \ {r} PROVE Remembers(q)'
  <2>0. Remembers(q) /\ pc'[q] = pc[q] /\ work'[q] = work[q] /\ req'[q] = req[q]
    BY <1>0 DEF LineInv
  <2>1. Known(q)'
    BY <2>0, KnownKept DEF Remembers
  <2>2. OfTable(q)'
    BY <2>0 DEF Remembers, OfTable
  <2>3. Locked(q)'
    <3>1. SUFFICES ASSUME pc[q] \in LineHolders PROVE work[q].rows \subseteq items'
      BY <2>0 DEF Remembers, Locked
    <3>2. ASSUME NEW l \in work[q].rows PROVE l \in items' 
      BY <2>0, <3>1 DEF Remembers, Locked, HoldsLine
    <3>3. QED
      BY <3>2
  <2>4. AddReadsCurrent(q)'
    <3>1. SUFFICES ASSUME pc[q] = "add_lines" PROVE work[q].rows = SameLine(q)'
      BY <2>0 DEF AddReadsCurrent
    <3>2. req[q].table \in Tables
      BY <3>1, RequestFields DEF LineInv, TypeOK, StepOK
    <3>3. LinesOf(req[q].table)' = LinesOf(req[q].table)
      BY <3>1, <3>2 DEF HoldsOrderRow
    <3>4. SameLine(q)' = SameLine(q)
      BY <2>0, <3>3 DEF SameLine
    <3>5. QED
      BY <2>0, <3>1, <3>4 DEF Remembers, AddReadsCurrent
  <2>5. QED
    BY <2>1, <2>2, <2>3, <2>4 DEF Remembers
<1>4. LineExclusive'
  <2>1. SUFFICES ASSUME NEW p \in Requests, NEW q \in Requests, NEW id \in LineIds, p # q,
                        HoldsLine(p, id)', HoldsLine(q, id)'
                 PROVE  FALSE
    BY DEF LineExclusive
  <2>2. CASE p # r /\ q # r
    BY <1>0, <2>1, <2>2 DEF LineInv, LineExclusive, HoldsLine
  <2>3. CASE p = r
    BY <1>0, <2>1, <2>3 DEF LinesFree, HoldsLine, Ids
  <2>4. CASE q = r
    BY <1>0, <2>1, <2>4 DEF LinesFree, HoldsLine, Ids
  <2>5. QED
    BY <2>2, <2>3, <2>4
<1>5. OrderRowExclusive'
  <2>1. SUFFICES ASSUME NEW p \in Requests, NEW q \in Requests, NEW t \in Tables, p # q,
                        HoldsOrderRow(p, t)', HoldsOrderRow(q, t)'
                 PROVE  FALSE
    BY DEF OrderRowExclusive
  <2>2. CASE p # r /\ q # r
    BY <1>0, <2>1, <2>2 DEF LineInv, OrderRowExclusive, HoldsOrderRow
  <2>3. CASE p = r
    BY <1>0, <2>1, <2>3 DEF OrderRowFree, HoldsOrderRow
  <2>4. CASE q = r
    BY <1>0, <2>1, <2>4 DEF OrderRowFree, HoldsOrderRow
  <2>5. QED
    BY <2>2, <2>3, <2>4
<1>6. QED
  BY <1>2, <1>3, <1>4, <1>5 DEF LineInv

\* A step of r that changes no line.
LEMMA ReadStep ==
  ASSUME LineInv, TypeOK', NEW r \in Requests, NEW s,
         pc' = [pc EXCEPT ![r] = s], pc[r] # "done", items' = items,
         \A q \in Requests \ {r} : work'[q] = work[q] /\ req'[q] = req[q],
         Remembers(r)',
         s = "add_lines" => OrderRowFree(r, req'[r].table),
         s \in LineHolders => LinesFree(r, Ids(work'[r].rows))
  PROVE  LineInv'
<1>1. IdsUnique' /\ OneLinePerProduct'
  BY DEF LineInv, IdsUnique, OneLinePerProduct
<1>2. \A t : LinesOf(t)' = LinesOf(t)
  BY DEF LinesOf
<1>3. QED
  BY <1>1, <1>2, LineStep

\* A line that exists is known.
LEMMA ItemsKnown ==
  ASSUME LineInv, NEW l \in items
  PROVE  Inserted(l.id) /\ \A m \in items : m.id = l.id => Identity(m) = Identity(l)
  BY DEF LineInv, IdsUnique, Identity

\* A step of r that changes no line, and of its work only which lines it read.
LEMMA RowsStep ==
  ASSUME LineInv, TypeOK', NEW r \in Requests, NEW s,
         pc' = [pc EXCEPT ![r] = s], pc[r] # "done", s \notin LineHolders,
         items' = items, req' = req,
         \A q \in Requests \ {r} : work'[q] = work[q],
         work'[r].write = work[r].write,
         work'[r].rows \subseteq items \/ work'[r].rows = work[r].rows,
         OfTable(r)', AddReadsCurrent(r)',
         s = "add_lines" => OrderRowFree(r, req'[r].table)
  PROVE  LineInv'
<1>0. pc'[r] = s
  BY DEF LineInv, TypeOK
<1>1. \A id : Inserted(id) => Inserted(id)'
  BY DEF Inserted, LineInv, TypeOK
<1>2. \A u \in work'[r].rows \cup work'[r].write :
        Inserted(u.id) /\ \A l \in items : l.id = u.id => Identity(l) = Identity(u)
  BY ItemsKnown DEF LineInv, Remembers, Known
<1>3. Known(r)'
  BY <1>1, <1>2 DEF LineInv, Remembers, Known, Identity
<1>4. Locked(r)'
  BY <1>0 DEF Locked
<1>5. QED
  BY <1>0, <1>3, <1>4, ReadStep DEF Remembers

\* A step of r that changes neither lines nor work.
LEMMA MoveStep ==
  ASSUME LineInv, TypeOK', NEW r \in Requests, NEW s \in {"done", "failed", "reload", "clear_lock"},
         Goto(r, s), pc[r] # "done", UNCHANGED <<items, req, work>>
  PROVE  LineInv'
<1>1. pc'[r] = s
  BY DEF LineInv, TypeOK, Goto
<1>2. OfTable(r)' /\ AddReadsCurrent(r)'
  BY <1>1 DEF OfTable, AddReadsCurrent
<1>3. QED
  BY <1>2, RowsStep DEF Goto, LineHolders

LEMMA ReceiveLineInv ==
  ASSUME LineInv, TypeOK', NEW r \in Requests, Receive(r)
  PROVE  LineInv'
<1> DEFINE Entries == {"upsert", "find", "sent_find", "save_order", "clear_lock", "reload",
                       "pay_lock", "cancel_lock"}
<1>1. PICK body, s : /\ Arrive(r, body, s) /\ s \in Entries
                     /\ body.kind = "line" => \E l \in items : l.table = body.table /\ l.id = body.line
  <2>1. CASE ReceiveAdd(r)
    BY <2>1 DEF ReceiveAdd
  <2>2. CASE ReceiveLine(r)
    <3>1. PICK l \in items, n \in Quantities :
            Arrive(r, [kind |-> "line", table |-> l.table, line |-> l.id, qty |-> n,
                       order |-> order[l.table]], "find")
      BY <2>2 DEF ReceiveLine
    <3>2. QED
      BY <3>1
  <2>3. CASE ReceiveSave(r)
    <3>1. PICK t \in Tables, k \in {"sent", "save"} :
            Arrive(r, [kind |-> k, table |-> t, order |-> order[t]],
                   IF k = "sent" THEN "sent_find" ELSE "save_order")
      BY <2>3 DEF ReceiveSave
    <3>2. QED
      BY <3>1
  <2>4. CASE ReceiveClear(r)
    <3>1. PICK t \in Tables :
            Arrive(r, [kind |-> "clear", table |-> t, order |-> order[t]],
                   IF order[t].status = "none" THEN "reload" ELSE "clear_lock")
      BY <2>4 DEF ReceiveClear
    <3>2. QED
      BY <3>1
  <2>5. CASE ReceivePayment(r)
    <3>1. PICK t \in Tables, k \in PaymentKinds, key \in Keys, o \in Offers :
            Arrive(r, [kind |-> k, table |-> t, key |-> key, offer |-> o, order |-> order[t]],
                   "pay_lock")
      BY <2>5 DEF ReceivePayment
    <3>2. QED
      BY <3>1 DEF PaymentKinds
  <2>6. CASE ReceiveCancel(r)
    <3>1. PICK t \in Tables, key \in Keys :
            Arrive(r, [kind |-> "cancel", table |-> t, key |-> key, order |-> order[t]],
                   "cancel_lock")
      BY <2>6 DEF ReceiveCancel
    <3>2. QED
      BY <3>1
  <2>7. QED
    BY <2>1, <2>2, <2>3, <2>4, <2>5, <2>6 DEF Receive
<1>2. /\ pc[r] = "idle" /\ pc'[r] = s /\ req'[r] = body /\ work' = work /\ items' = items
      /\ \A q \in Requests \ {r} : req'[q] = req[q]
  BY <1>1 DEF Arrive, Goto, db, LineInv, TypeOK
<1>3. \A id : Inserted(id) => Inserted(id)'
  BY <1>1, <1>2 DEF Inserted, Arrive, Goto, LineInv, TypeOK
<1>4. Known(r)'
  <2>1. \A u \in work[r].rows \cup work[r].write :
          Inserted(u.id) /\ \A l \in items : l.id = u.id => Identity(l) = Identity(u)
    BY DEF LineInv, Remembers, Known
  <2>2. body.kind = "line" =>
          Inserted(body.line) /\ \A l \in items : l.id = body.line => l.table = body.table
    BY <1>1, ItemsKnown DEF Identity
  <2>3. QED
    BY <1>2, <1>3, <2>1, <2>2 DEF Known, Identity
<1>5. OfTable(r)'
  BY <1>1, <1>2 DEF OfTable, LineInv, Remembers
<1>6. Locked(r)' /\ AddReadsCurrent(r)' /\ s # "add_lines" /\ s \notin LineHolders
  BY <1>1, <1>2 DEF Locked, AddReadsCurrent, LineHolders
<1>7. QED
  BY <1>1, <1>2, <1>4, <1>5, <1>6, ReadStep DEF Arrive, Goto, Remembers

\* The steps that change no line.
LEMMA ReadLineInv ==
  ASSUME LineInv, TypeOK', NEW r \in Requests,
         \/ AddUpsert(r) \/ LineFind(r) \/ LineGone(r) \/ SentFind(r) \/ SentGone(r)
         \/ SaveCommit(r) \/ ClearLock(r) \/ PayDuplicate(r) \/ PayRefused(r) \/ PayCharge(r)
         \/ PayLoad(r) \/ PayScan(r) \/ PayConflict(r) \/ CancelRefused(r) \/ CancelFind(r)
         \/ CancelCommit(r) \/ Reload(r) \/ Persist(r) \/ Fail(r) \/ DeadlockVictim(r)
  PROVE  LineInv'
<1>0. /\ work \in [Requests -> Work] /\ pc \in [Requests -> {"idle"} \cup Steps \cup Ends]
      /\ work[r] \in Work /\ OfTable(r) /\ StepOK(r)
  BY DEF LineInv, TypeOK, Remembers
<1>1. CASE AddUpsert(r)
  <2>1. /\ work'[r].rows = SameLine(r) /\ work'[r].write = work[r].write
        /\ \A q \in Requests \ {r} : work'[q] = work[q]
    BY <1>0, <1>1 DEF AddUpsert, Work
  <2>2. SameLine(r)' = SameLine(r) /\ SameLine(r) \subseteq items
    BY <1>1 DEF AddUpsert, SameLine, LinesOf, db
  <2>3. OfTable(r)' /\ AddReadsCurrent(r)'
    BY <1>0, <1>1, <2>1, <2>2 DEF OfTable, AddReadsCurrent, AddUpsert, Goto
  <2>4. /\ pc' = [pc EXCEPT ![r] = "add_lines"] /\ pc[r] # "done" /\ items' = items /\ req' = req
        /\ "add_lines" \notin LineHolders /\ OrderRowFree(r, req'[r].table)
    BY <1>1 DEF AddUpsert, Goto, db, LineHolders
  <2>5. QED
    BY <2>1, <2>2, <2>3, <2>4, RowsStep
<1>2. CASE LineFind(r)
  <2>1. /\ work'[r].rows = {l \in items : l.id = req[r].line}
        /\ work'[r].write = work[r].write
        /\ \A q \in Requests \ {r} : work'[q] = work[q]
    BY <1>0, <1>2 DEF LineFind, Work
  <2>2. PICK s \in {"done", "line_write"} : Goto(r, s)
    BY <1>2, Zenon DEF LineFind
  <2>3. OfTable(r)' /\ AddReadsCurrent(r)'
    BY <1>0, <2>2 DEF OfTable, AddReadsCurrent, Goto
  <2>4. QED
    BY <1>2, <2>1, <2>2, <2>3, RowsStep DEF LineFind, Goto, db, LineHolders
<1>3. CASE SentFind(r)
  <2>1. /\ work'[r].rows = LinesOf(req[r].table) /\ work'[r].write = work[r].write
        /\ \A q \in Requests \ {r} : work'[q] = work[q]
    BY <1>0, <1>3 DEF SentFind, Work
  <2>2. PICK s \in {"save_order", "sent_write"} : Goto(r, s)
    BY <1>3, Zenon DEF SentFind
  <2>3. OfTable(r)' /\ AddReadsCurrent(r)'
    BY <1>0, <1>3, <2>1, <2>2 DEF OfTable, AddReadsCurrent, Goto, SentFind, LinesOf
  <2>4. LinesOf(req[r].table) \subseteq items
    BY DEF LinesOf
  <2>5. QED
    BY <1>3, <2>1, <2>2, <2>3, <2>4, RowsStep DEF SentFind, Goto, db, LineHolders
<1>4. CASE ClearLock(r) \/ PayScan(r)
  <2>1. /\ work'[r].rows = LinesOf(req[r].table) /\ work'[r].write = work[r].write
        /\ \A q \in Requests \ {r} : work'[q] = work[q]
    BY <1>0, <1>4 DEF ClearLock, PayScan, Work
  <2>2. PICK s \in {"clear_order", "pay_order"} : Goto(r, s)
    BY <1>4 DEF ClearLock, PayScan
  <2>3. OfTable(r)' /\ AddReadsCurrent(r)'
    BY <1>0, <1>4, <2>1, <2>2 DEF OfTable, AddReadsCurrent, Goto, ClearLock, PayScan, LinesOf
  <2>4. LinesOf(req[r].table) \subseteq items
    BY DEF LinesOf
  <2>5. QED
    BY <1>4, <2>1, <2>2, <2>3, <2>4, RowsStep DEF ClearLock, PayScan, Goto, db, LineHolders
<1>5. CASE PayCharge(r) \/ PayLoad(r) \/ CancelFind(r)
  <2>1. /\ work'[r].rows = work[r].rows /\ work'[r].write = work[r].write
        /\ \A q \in Requests \ {r} : work'[q] = work[q]
    BY <1>0, <1>5 DEF PayCharge, PayLoad, CancelFind, Work
  <2>2. PICK s \in {"pay_load", "pay_scan", "pay_order", "cancel_order"} : Goto(r, s)
    BY <1>5 DEF PayCharge, PayLoad, CancelFind
  <2>3. s # "cancel_order" => work[r].rows = {}
    BY <1>0, <1>5, <2>2 DEF PayCharge, PayLoad, CancelFind, PayLocked, OfTable, Goto
  <2>4. OfTable(r)' /\ AddReadsCurrent(r)'
    BY <1>0, <2>1, <2>2, <2>3 DEF OfTable, AddReadsCurrent, Goto
  <2>5. QED
    BY <1>5, <2>1, <2>2, <2>4, RowsStep
       DEF PayCharge, PayLoad, PayLocked, CancelFind, CancelLocked, Goto, db, LineHolders
<1>6. CASE Reload(r)
  <2>1. /\ work'[r].rows = OrdersByTable /\ work'[r].write = work[r].write
        /\ \A q \in Requests \ {r} : work'[q] = work[q]
    BY <1>0, <1>6 DEF Reload, Work
  <2>2. OfTable(r)' /\ AddReadsCurrent(r)' /\ OrdersByTable \subseteq items
    BY <1>0, <1>6 DEF OfTable, AddReadsCurrent, Reload, Goto, OrdersByTable
  <2>3. /\ pc' = [pc EXCEPT ![r] = "persist"] /\ pc[r] # "done" /\ items' = items /\ req' = req
        /\ "persist" \notin LineHolders
    BY <1>6 DEF Reload, Goto, db, LineHolders
  <2>4. QED
    BY <2>1, <2>2, <2>3, RowsStep
<1>7. CASE \/ LineGone(r) \/ SentGone(r) \/ SaveCommit(r) \/ PayDuplicate(r) \/ PayRefused(r)
           \/ PayConflict(r) \/ CancelRefused(r) \/ CancelCommit(r) \/ Persist(r) \/ Fail(r)
           \/ DeadlockVictim(r)
  <2>1. UNCHANGED <<items, req, work>>
    BY <1>7 DEF LineGone, SentGone, SaveCommit, PayDuplicate, PayRefused, PayConflict,
       CancelRefused, CancelCommit, Persist, Fail, DeadlockVictim, db
  <2>2. \E s \in {"done", "failed", "reload"} : Goto(r, s)
    BY <1>7, Zenon DEF LineGone, SentGone, SaveCommit, PayDuplicate, PayRefused, PayConflict,
       CancelRefused, CancelCommit, Persist, Fail, DeadlockVictim
  <2>3. pc[r] # "done"
    BY <1>7 DEF LineGone, SentGone, SaveCommit, PayDuplicate, PayLocked, PayRefused, PayConflict,
       CancelRefused, CancelLocked, CancelCommit, Persist, Fail, Steps, DeadlockVictim,
       Deadlocked, LineHolders
  <2>4. QED
    BY <2>1, <2>2, <2>3, MoveStep
<1>8. QED
  BY <1>1, <1>2, <1>3, <1>4, <1>5, <1>6, <1>7

\* The steps that lock lines: what they lock is committed, and not locked.
LEMMA LockLineInv ==
  ASSUME LineInv, TypeOK', NEW r \in Requests, LineWrite(r) \/ SentWrite(r)
  PROVE  LineInv'
<1>0. /\ work \in [Requests -> Work] /\ pc \in [Requests -> {"idle"} \cup Steps \cup Ends]
      /\ work[r] \in Work /\ Remembers(r) /\ StepOK(r) /\ items \subseteq Line
  BY DEF LineInv, TypeOK
<1>1. PICK s \in LineHolders : Goto(r, s)
  BY DEF LineWrite, SentWrite, LineHolders
<1>2. /\ items' = items /\ req' = req /\ pc[r] \notin {"done", "idle"} /\ pc'[r] = s
      /\ \A q \in Requests \ {r} : work'[q] = work[q]
  BY <1>0, <1>1 DEF LineWrite, SentWrite, Goto, db
<1>3. /\ work'[r].rows \subseteq items
      /\ \A l \in work'[r].rows : l.table = req[r].table
      /\ \A w \in work'[r].write : \E l \in work'[r].rows : Identity(l) = Identity(w)
      /\ \A v, w \in work'[r].write : v.id = w.id => v = w
      /\ LinesFree(r, Ids(work'[r].rows))
  <2>1. CASE LineWrite(r)
    <3>1. PICK l \in items, seen \in work[r].rows :
            /\ l.id = req[r].line
            /\ LinesFree(r, {l.id})
            /\ LET write == Requantified(l, seen, req[r].qty)
                   rows  == (LinesOf(l.table) \ {l}) \cup write
               IN work' = [work EXCEPT ![r].rows = {l}, ![r].write = write,
                                       ![r].bill = ItemTotal(rows),
                                       ![r].closes = rows = {}]
      BY <2>1 DEF LineWrite
    <3>2. work'[r].rows = {l} /\ work'[r].write = Requantified(l, seen, req[r].qty)
      BY <1>0, <3>1 DEF Work
    <3>3. \A w \in Requantified(l, seen, req[r].qty) : Identity(w) = Identity(l)
      BY <1>0 DEF Requantified, Identity, Line
    <3>4. l.table = req[r].table
      BY <1>0, <2>1, <3>1 DEF LineWrite, StepOK, Remembers, Known
    <3>5. Ids({l}) = {l.id}
      BY DEF Ids
    <3>6. \A v, w \in Requantified(l, seen, req[r].qty) : v = w
      BY DEF Requantified
    <3>7. LinesFree(r, Ids(work'[r].rows))
      BY <3>1, <3>2, <3>5
    <3>8. \A w \in work'[r].write : \E m \in work'[r].rows : Identity(m) = Identity(w)
      BY <3>2, <3>3
    <3>9. work'[r].rows \subseteq items /\ \A m \in work'[r].rows : m.table = req[r].table
      BY <3>1, <3>2, <3>4
    <3>10. QED
      BY <3>2, <3>6, <3>7, <3>8, <3>9
  <2>2. CASE SentWrite(r)
    <3> DEFINE seen == work[r].rows
               current == {l \in items : l.id \in Ids(seen)}
               sent(l) == [l EXCEPT !.sent = AsRead(seen, l).qty]
    <3>1. work'[r].rows = current /\ work'[r].write = {sent(l) : l \in current}
      BY <1>0, <2>2 DEF SentWrite, Work
    <3>2. \A l \in current : Identity(sent(l)) = Identity(l) /\ sent(l).id = l.id
      BY <1>0 DEF Identity, Line
    <3>3. \A l \in current : l.table = req[r].table
      <4>1. ASSUME NEW l \in current PROVE l.table = req[r].table
        <5>1. PICK u \in seen : u.id = l.id
          BY DEF Ids
        <5>2. u.table = req[r].table
          BY <1>0, <2>2 DEF Remembers, OfTable, SentWrite
        <5>3. Identity(l) = Identity(u)
          BY <1>0, <5>1 DEF Remembers, Known
        <5>4. QED
          BY <5>2, <5>3 DEF Identity
      <4>2. QED
        BY <4>1
    <3>4. \A l, m \in current : l.id = m.id => l = m
      BY DEF LineInv, IdsUnique
    <3>5. LinesFree(r, Ids(current))
      BY <2>2 DEF SentWrite, LinesFree, Ids
    <3>6. current \subseteq items
      OBVIOUS
    <3> HIDE DEF sent, current
    <3>7. QED
      BY <3>1, <3>2, <3>3, <3>4, <3>5, <3>6
  <2>3. QED
    BY <2>1, <2>2
<1>4. \A id : Inserted(id) => Inserted(id)'
  BY <1>0, <1>1, <1>2 DEF Inserted, Goto
<1>5. Known(r)'
  <2>1. ASSUME NEW u \in work'[r].rows \cup work'[r].write
        PROVE  Inserted(u.id) /\ \A l \in items : l.id = u.id => Identity(l) = Identity(u)
    <3>1. PICK m \in items : Identity(m) = Identity(u)
      BY <1>3
    <3>2. QED
      BY <3>1, ItemsKnown DEF Identity
  <2>2. QED
    BY <1>0, <1>2, <1>4, <2>1 DEF Remembers, Known
<1>6. OfTable(r)' /\ Locked(r)' /\ AddReadsCurrent(r)'
  BY <1>1, <1>2, <1>3 DEF OfTable, Locked, AddReadsCurrent, LineHolders
<1>7. pc' = [pc EXCEPT ![r] = s] /\ s # "add_lines"
  BY <1>1 DEF Goto, LineHolders
<1>8. Remembers(r)'
  BY <1>5, <1>6 DEF Remembers
<1>9. QED
  BY <1>2, <1>3, <1>7, <1>8, ReadStep

\* A commit of r, after which it holds nothing.
LEMMA CommitLineStep ==
  ASSUME LineInv, TypeOK', NEW r \in Requests, NEW s \in {"done", "reload"}, Goto(r, s),
         pc[r] # "done", UNCHANGED <<req, work>>,
         \A m \in items' : \/ \E l \in items : Identity(l) = Identity(m)
                           \/ m.id = r /\ s = "done",
         \A q \in Requests \ {r}, l \in items : HoldsLine(q, l.id) => l \in items',
         \A q \in Requests \ {r}, t \in Tables :
           HoldsOrderRow(q, t) => LinesOf(t)' = LinesOf(t),
         IdsUnique', OneLinePerProduct'
  PROVE  LineInv'
<1>1. pc' = [pc EXCEPT ![r] = s] /\ pc'[r] = s
  BY DEF Goto, LineInv, TypeOK
<1>2. Known(r)'
  BY <1>1, KnownKept DEF LineInv, Remembers
<1>3. OfTable(r)' /\ Locked(r)' /\ AddReadsCurrent(r)'
  BY <1>1 DEF OfTable, Locked, AddReadsCurrent, LineHolders
<1>4. Remembers(r)'
  BY <1>2, <1>3 DEF Remembers
<1>5. s # "add_lines" /\ s \notin LineHolders
  BY DEF LineHolders
<1>6. QED
  BY <1>1, <1>4, <1>5, LineStep

\* The locked lines give way to what r wrote.
LEMMA WriteLineInv ==
  ASSUME LineInv, TypeOK', NEW r \in Requests, LineCommit(r) \/ SentCommit(r)
  PROVE  LineInv'
<1> DEFINE rows == work[r].rows
           write == work[r].write
<1>1. /\ pc[r] \in LineHolders /\ Goto(r, "done") /\ UNCHANGED <<req, work>>
      /\ OrderRowFree(r, req[r].table) /\ items' = (items \ rows) \cup write
  BY DEF LineCommit, SentCommit, WriteLines, LineHolders
<1>2. /\ rows \subseteq items
      /\ \A w \in write : \E l \in rows : Identity(l) = Identity(w)
      /\ \A v, w \in write : v.id = w.id => v = w
  BY <1>1 DEF LineInv, Remembers, Locked
<1>3. \A l \in rows : l.table = req[r].table
  BY <1>1 DEF LineInv, Remembers, OfTable, LineHolders
<1>4. \A m \in items' : \E l \in items : Identity(l) = Identity(m)
  BY <1>1, <1>2
<1>5. \A q \in Requests \ {r}, l \in items : HoldsLine(q, l.id) => l \in items'
  <2>1. SUFFICES ASSUME NEW q \in Requests \ {r}, NEW l \in items, HoldsLine(q, l.id), l \in rows
                 PROVE  FALSE
    BY <1>1
  <2>2. HoldsLine(r, l.id)
    BY <1>1, <2>1 DEF HoldsLine
  <2>3. l.id \in LineIds
    BY DEF LineInv, TypeOK, Line
  <2>4. QED
    BY <2>1, <2>2, <2>3 DEF LineInv, LineExclusive
<1>6. \A q \in Requests \ {r}, t \in Tables : HoldsOrderRow(q, t) => LinesOf(t)' = LinesOf(t)
  <2>1. SUFFICES ASSUME NEW q \in Requests \ {r}, NEW t \in Tables, HoldsOrderRow(q, t)
                 PROVE  LinesOf(t)' = LinesOf(t)
    OBVIOUS
  <2>2. t # req[r].table
    BY <1>1, <2>1 DEF OrderRowFree
  <2>3. \A w \in write : w.table = req[r].table
    BY <1>2, <1>3 DEF Identity
  <2>4. QED
    BY <1>1, <1>3, <2>2, <2>3 DEF LinesOf
<1>7. ASSUME NEW m \in items', NEW n \in items',
             m.id = n.id \/ (m.table = n.table /\ m.product = n.product)
      PROVE  m = n
  <2>1. \A k, l \in items : (k.id = l.id \/ (k.table = l.table /\ k.product = l.product)) => k = l
    BY DEF LineInv, IdsUnique, OneLinePerProduct
  <2>2. CASE m \in write /\ n \in write
    BY <1>2, <1>7, <2>1, <2>2 DEF Identity
  <2>3. CASE m \in write /\ n \in items \ rows
    BY <1>2, <1>7, <2>1, <2>3 DEF Identity
  <2>4. CASE n \in write /\ m \in items \ rows
    BY <1>2, <1>7, <2>1, <2>4 DEF Identity
  <2>5. CASE m \in items \ rows /\ n \in items \ rows
    BY <1>7, <2>1, <2>5
  <2>6. QED
    BY <1>1, <2>2, <2>3, <2>4, <2>5
<1>8. IdsUnique' /\ OneLinePerProduct'
  BY <1>7 DEF IdsUnique, OneLinePerProduct
<1>9. pc[r] # "done"
  BY <1>1 DEF LineHolders
<1>10. QED
  BY <1>1, <1>4, <1>5, <1>6, <1>8, <1>9, CommitLineStep

\* The lines of the table that r scanned go.
LEMMA DeleteLineInv ==
  ASSUME LineInv, TypeOK', NEW r \in Requests, ClearCommit(r) \/ PayCommit(r)
  PROVE  LineInv'
<1>1. /\ pc[r] \in {"clear_order", "pay_order"} /\ Goto(r, "reload") /\ UNCHANGED <<req, work>>
      /\ OrderRowFree(r, req[r].table) /\ LinesFree(r, Ids(work[r].rows))
      /\ items' = {l \in items : l.id \notin Ids(work[r].rows)}
  BY DEF ClearCommit, PayCommit, DeleteLines
<1>2. \A l \in items : l.id \in Ids(work[r].rows) => l.table = req[r].table
  <2>1. SUFFICES ASSUME NEW l \in items, NEW u \in work[r].rows, l.id = u.id
                 PROVE  l.table = req[r].table
    BY DEF Ids
  <2>2. u.table = req[r].table
    BY <1>1 DEF LineInv, Remembers, OfTable
  <2>3. Identity(l) = Identity(u)
    BY <2>1 DEF LineInv, Remembers, Known
  <2>4. QED
    BY <2>2, <2>3 DEF Identity
<1>3. \A m \in items' : \E l \in items : Identity(l) = Identity(m)
  BY <1>1
<1>4. \A q \in Requests \ {r}, l \in items : HoldsLine(q, l.id) => l \in items'
  BY <1>1 DEF LinesFree
<1>5. \A q \in Requests \ {r}, t \in Tables : HoldsOrderRow(q, t) => LinesOf(t)' = LinesOf(t)
  BY <1>1, <1>2 DEF OrderRowFree, LinesOf
<1>6. IdsUnique' /\ OneLinePerProduct'
  BY <1>1 DEF LineInv, IdsUnique, OneLinePerProduct
<1>7. QED
  BY <1>1, <1>3, <1>4, <1>5, <1>6, CommitLineStep

\* An added product: the line found is still there, or there is still none.
LEMMA AddLineInv ==
  ASSUME LineInv, TypeOK', NEW r \in Requests, AddCommit(r)
  PROVE  LineInv'
<1>1. /\ pc[r] = "add_lines" /\ Goto(r, "done") /\ UNCHANGED <<req, work>>
      /\ LinesFree(r, Ids(work[r].rows))
  BY DEF AddCommit
<1>2. work[r].rows = SameLine(r) /\ SameLine(r) \subseteq items
  BY <1>1 DEF LineInv, Remembers, AddReadsCurrent, SameLine, LinesOf
<1>3. req[r].table \in Tables
  BY <1>1, RequestFields DEF LineInv, TypeOK, StepOK
<1>4. \A l \in items : l.id # r
  BY <1>1 DEF LineInv, Inserted
<1>5. \A k, l \in items : (k.id = l.id \/ (k.table = l.table /\ k.product = l.product)) => k = l
  BY DEF LineInv, IdsUnique, OneLinePerProduct
<1>6. \A q \in Requests \ {r}, t \in Tables : HoldsOrderRow(q, t) => t # req[r].table
  BY <1>1, <1>3 DEF LineInv, OrderRowExclusive, HoldsOrderRow
<1>7. CASE work[r].rows = {} /\ items' = items \cup {NewLine(r)}
  <2>1. NewLine(r).id = r /\ NewLine(r).table = req[r].table /\ NewLine(r).product = req[r].product
    BY DEF NewLine
  <2>2. \A l \in items : ~(l.table = req[r].table /\ l.product = req[r].product)
    BY <1>2, <1>7 DEF SameLine, LinesOf
  <2>3. IdsUnique' /\ OneLinePerProduct'
    BY <1>4, <1>5, <1>7, <2>1, <2>2 DEF IdsUnique, OneLinePerProduct
  <2>4. \A m \in items' : (\E l \in items : Identity(l) = Identity(m)) \/ m.id = r
    BY <1>7, <2>1
  <2>5. \A q \in Requests \ {r}, t \in Tables : HoldsOrderRow(q, t) => LinesOf(t)' = LinesOf(t)
    BY <1>6, <1>7, <2>1 DEF LinesOf
  <2>6. \A q \in Requests \ {r}, l \in items : HoldsLine(q, l.id) => l \in items'
    BY <1>7
  <2>7. QED
    BY <1>1, <2>3, <2>4, <2>5, <2>6, CommitLineStep
<1>8. ASSUME NEW seen \in work[r].rows, items' = Merge(r, seen)
      PROVE  LineInv'
  <2> DEFINE new == [seen EXCEPT !.qty = @ + req[r].qty]
  <2>1. /\ seen \in items /\ seen.table = req[r].table /\ seen.product = req[r].product
    BY <1>2 DEF SameLine, LinesOf
  <2>2. Identity(new) = Identity(seen)
    BY <2>1 DEF Identity, LineInv, TypeOK, Line
  <2>3. items' = {l \in items : l.id # seen.id} \cup {new}
    BY <1>8 DEF Merge
  <2> HIDE DEF new
  <2>4. \A m \in items' : \E l \in items : Identity(l) = Identity(m)
    BY <2>1, <2>2, <2>3
  <2>5. \A q \in Requests \ {r}, l \in items : HoldsLine(q, l.id) => l \in items'
    BY <1>1, <2>3 DEF LinesFree, Ids
  <2>6. \A q \in Requests \ {r}, t \in Tables : HoldsOrderRow(q, t) => LinesOf(t)' = LinesOf(t)
    <3>1. SUFFICES ASSUME NEW q \in Requests \ {r}, NEW t \in Tables, HoldsOrderRow(q, t)
                   PROVE  LinesOf(t)' = LinesOf(t)
      OBVIOUS
    <3>2. t # seen.table /\ new.table = seen.table
      BY <1>6, <2>1, <2>2, <3>1 DEF Identity
    <3>3. \A l \in items : l.id = seen.id => l.table = seen.table
      BY <1>5, <2>1
    <3>4. QED
      BY <2>3, <3>2, <3>3 DEF LinesOf
  <2>7. ASSUME NEW m \in items', NEW n \in items',
               m.id = n.id \/ (m.table = n.table /\ m.product = n.product)
        PROVE  m = n
    BY <1>5, <2>1, <2>2, <2>3, <2>7 DEF Identity
  <2>8. IdsUnique' /\ OneLinePerProduct'
    BY <2>7 DEF IdsUnique, OneLinePerProduct
  <2>9. QED
    BY <1>1, <2>4, <2>5, <2>6, <2>8, CommitLineStep
<1>9. QED
  BY <1>7, <1>8 DEF AddCommit

LEMMA NextLineInv == LineInv /\ [Next]_vars => LineInv'
<1> SUFFICES ASSUME LineInv, [Next]_vars PROVE LineInv'
  OBVIOUS
<1>0. TypeOK'
  BY NextType DEF LineInv
<1>1. CASE UNCHANGED vars
  BY <1>0, <1>1 DEF vars, LineInv, IdsUnique, Inserted, Remembers, Known, OfTable, Locked,
     AddReadsCurrent, SameLine, LinesOf, LineExclusive, HoldsLine, OrderRowExclusive,
     HoldsOrderRow, OneLinePerProduct
<1>2. ASSUME NEW r \in Requests, Receive(r) PROVE LineInv'
  BY <1>0, <1>2, ReceiveLineInv
<1>3. ASSUME NEW r \in Requests, Progress(r) PROVE LineInv'
  BY <1>0, <1>3, AddLineInv, ReadLineInv, LockLineInv, WriteLineInv, DeleteLineInv DEF Progress
<1>4. ASSUME NEW r \in Requests, Fail(r) \/ DeadlockVictim(r) PROVE LineInv'
  BY <1>0, <1>4, ReadLineInv
<1>5. QED
  BY <1>1, <1>2, <1>3, <1>4 DEF Next

\* Whatever requests race, what each has read, locked or inserted of the lines of a
\* table (route.ts, the order_items statements) is as LineInv says.
THEOREM LineInvariant == Spec => []LineInv
  BY InitLineInv, NextLineInv, PTL DEF Spec

\* Terminals that add one product to one table at the same time end up with one line of
\* it: the upsert of the order row (route.ts) serializes the search for a matching line
\* with the insertion, and no other request brings a line back.
THEOREM OneLine == Spec => []OneLinePerProduct
<1>1. LineInv => OneLinePerProduct
  BY DEF LineInv
<1>2. QED
  BY <1>1, LineInvariant, PTL

\* A line that was removed, cleared or paid for does not come back, whatever a request
\* that read it before still writes: only the commit of an "add" creates a line.
THEOREM LinesComeFromAdds == Spec => OnlyAddsCreateLines
<1> DEFINE Created == \A l \in items' : l.id \in Ids(items)
              \/ \E r \in Requests : l.id = r /\ pc[r] = "add_lines" /\ pc'[r] = "done"
<1>1. LineInv /\ [Next]_vars => [Created]_items
  <2>1. SUFFICES ASSUME LineInv, [Next]_vars, items' # items PROVE Created
    OBVIOUS
  <2>2. PICK r \in Requests : Progress(r)
    BY <2>1 DEF Next, vars, Receive, ReceiveAdd, ReceiveLine, ReceiveSave, ReceiveClear,
       ReceivePayment, ReceiveCancel, Arrive, Fail, DeadlockVictim, db
  <2>3. CASE AddCommit(r)
    <3>1. pc[r] = "add_lines" /\ pc'[r] = "done"
      BY <2>1, <2>3 DEF AddCommit, Goto, LineInv, TypeOK
    <3>2. work[r].rows \subseteq items
      BY <2>1, <3>1 DEF LineInv, Remembers, AddReadsCurrent, SameLine, LinesOf
    <3>3. CASE items' = items \cup {NewLine(r)}
      BY <3>1, <3>3 DEF NewLine, Ids
    <3>4. ASSUME NEW seen \in work[r].rows, items' = Merge(r, seen) PROVE Created
      <4>1. seen \in Line /\ [seen EXCEPT !.qty = @ + req[r].qty].id = seen.id
        BY <2>1, <3>2 DEF LineInv, TypeOK, Line
      <4>2. QED
        BY <3>2, <3>4, <4>1 DEF Merge, Ids
    <3>5. QED
      BY <2>3, <3>3, <3>4 DEF AddCommit
  <2>4. CASE LineCommit(r) \/ SentCommit(r)
    <3>1. pc[r] \in LineHolders /\ items' = (items \ work[r].rows) \cup work[r].write
      BY <2>4 DEF LineCommit, SentCommit, WriteLines, LineHolders
    <3>2. /\ work[r].rows \subseteq items
          /\ \A w \in work[r].write : \E l \in work[r].rows : Identity(l) = Identity(w)
      BY <2>1, <3>1 DEF LineInv, Remembers, Locked
    <3>3. QED
      BY <3>1, <3>2 DEF Identity, Ids
  <2>5. CASE ClearCommit(r) \/ PayCommit(r)
    BY <2>5 DEF ClearCommit, PayCommit, DeleteLines, Ids
  <2>6. QED
    BY <2>1, <2>2, <2>3, <2>4, <2>5 DEF Progress, AddUpsert, LineFind, LineWrite, LineGone,
       SentFind, SentWrite, SentGone, SaveCommit, ClearLock, PayDuplicate, PayRefused,
       PayCharge, PayLoad, PayScan, PayConflict, CancelRefused, CancelFind, CancelCommit,
       Reload, Persist, db
<1>2. Spec => [][Created]_items
  BY <1>1, LineInvariant, PTL DEF Spec
<1>3. QED
  BY <1>2 DEF OnlyAddsCreateLines

-----------------------------------------------------------------------------
(***************************************************************************)
(* What is collected at a table stays within what was ordered there.  A    *)
(* payment is limited by a bill that was read statements ago, from the     *)
(* lines or from the order row, whose values were once computed from lines *)
(* that may be gone: the invariant bounds every one of these by what was   *)
(* ever ordered, which only grows.                                         *)
(***************************************************************************)

Worth(ord, n) == ord.pre <= n /\ ord.subtotal <= n /\ ord.total <= n

\* The requests that carry the order row they read on arrival.
CarriesOrder == {"line", "sent", "save", "clear", "cancel"} \cup PaymentKinds

ReadWithin(r) ==
  LET most == ordered[req[r].table]
  IN /\ req[r].kind \in CarriesOrder => Worth(req[r].order, most)
     /\ pc[r] = "line_order" =>
          /\ \E l : work[r].rows = {l}
          /\ work[r].write = {} \/ \E w : work[r].write = {w}
          /\ work[r].bill <= most + (ItemTotal(work[r].write) - ItemTotal(work[r].rows))
     /\ pc[r] \in PaySteps => work[r].charge + Sum(work[r].pays) <= most
     /\ pc[r] \in {"pay_scan", "pay_order"} => work[r].bill <= most /\ work[r].left >= 0

Finite ==
  /\ IsFiniteSet(items) /\ IsFiniteSet(payments)
  /\ \A r \in Requests : IsFiniteSet(work[r].write)

CollectedInv ==
  /\ Finite
  /\ ordered \in [Tables -> Nat]
  /\ \A p \in payments : p.amount > 0
  /\ \A t \in Tables : ItemTotal(LinesOf(t)) <= ordered[t] /\ Worth(order[t], ordered[t])
  /\ CollectedWithinOrdered
  /\ \A r \in Requests : ReadWithin(r)

LEMMA InitCollectedInv == HInit => CollectedInv
<1> SUFFICES ASSUME HInit PROVE CollectedInv
  OBVIOUS
<1>1. Init /\ items = SeedLines /\ payments = {}
      /\ (\A r \in Requests : pc[r] = "idle" /\ req[r].kind = "none" /\ work[r] = NoWork)
  BY DEF HInit, Init
<1>2. Finite
  BY <1>1, SeedAssumption, FS_EmptySet DEF Finite, NoWork
<1>3. ordered \in [Tables -> Nat] /\ \A t \in Tables : ItemTotal(LinesOf(t)) <= ordered[t]
  <2>1. \A t \in Tables : Larger(0, ItemTotal(LinesOf(t))) \in Nat
                          /\ ItemTotal(LinesOf(t)) <= Larger(0, ItemTotal(LinesOf(t)))
    BY ItemTotalInt DEF Larger
  <2>2. QED
    BY <2>1 DEF HInit
<1>4. \A t \in Tables : Worth(order[t], ordered[t])
  <2>1. SUFFICES ASSUME NEW t \in Tables PROVE Worth(order[t], ordered[t])
    OBVIOUS
  <2>2. order[t] = NoOrder \/ (order[t].pre = 0 /\ order[t].subtotal = ItemTotal(LinesOf(t))
                               /\ order[t].total = ItemTotal(LinesOf(t)))
    <3> DEFINE n == ItemTotal(LinesOf(t))
    <3>1. order[t] = NoOrder \/ order[t] = [NoOrder EXCEPT !.status = "open", !.subtotal = n, !.total = n]
      BY <1>1 DEF Init
    <3> HIDE DEF n
    <3>2. QED
      BY <3>1 DEF NoOrder, n
  <2>3. QED
    BY <1>3, <2>2 DEF Worth, NoOrder
<1>5. CollectedWithinOrdered
  <2>1. \A t \in Tables : PaidOf(t) = {}
    BY <1>1 DEF PaidOf
  <2>2. QED
    BY <1>3, <2>1, NothingAddsUp DEF CollectedWithinOrdered
<1>6. \A r \in Requests : ReadWithin(r)
  BY <1>1 DEF ReadWithin, CarriesOrder, PaymentKinds, PaySteps
<1>7. QED
  BY <1>1, <1>2, <1>3, <1>4, <1>5, <1>6 DEF CollectedInv

\* What was ordered is never taken back, and covers the lines of the table.
LEMMA OrderedGrows ==
  ASSUME CollectedInv, Ordering
  PROVE  /\ ordered' \in [Tables -> Nat]
         /\ \A t \in Tables : /\ ordered[t] \in Nat /\ ordered'[t] \in Nat
                              /\ ordered[t] <= ordered'[t]
                              /\ ItemTotal(LinesOf(t)') <= ordered'[t]
                              /\ ItemTotal(LinesOf(t)') - ItemTotal(LinesOf(t))
                                   <= ordered'[t] - ordered[t]
<1> DEFINE rise(t) == ItemTotal(LinesOf(t)') - ItemTotal(LinesOf(t))
<1>1. \A t \in Tables : ordered'[t] = ordered[t] + Larger(0, rise(t))
  BY DEF Ordering, LinesOf
<1>2. \A t \in Tables : Larger(0, rise(t)) \in Nat /\ rise(t) <= Larger(0, rise(t))
  BY ItemTotalInt DEF Larger
<1>3. ordered \in [Tables -> Nat] /\ DOMAIN ordered' = Tables
      /\ ordered' = [t \in Tables |-> ordered'[t]]
  BY DEF CollectedInv, Ordering
<1>4. \A t \in Tables : ordered[t] \in Nat /\ ordered'[t] \in Nat /\ ordered[t] <= ordered'[t]
  BY <1>1, <1>2, <1>3
<1>5. ASSUME NEW t \in Tables
      PROVE  /\ ItemTotal(LinesOf(t)') <= ordered'[t]
             /\ ItemTotal(LinesOf(t)') - ItemTotal(LinesOf(t)) <= ordered'[t] - ordered[t]
  <2>1. ItemTotal(LinesOf(t)) <= ordered[t]
    BY DEF CollectedInv
  <2>2. ItemTotal(LinesOf(t)) \in Int /\ ItemTotal(LinesOf(t)') \in Int
    BY ItemTotalInt
  <2>3. rise(t) <= ordered'[t] - ordered[t]
    BY <1>1, <1>2, <1>4, <2>2
  <2>4. QED
    BY <1>4, <2>1, <2>2, <2>3
<1>6. QED
  BY <1>3, <1>4, <1>5

LEMMA TableOf ==
  ASSUME TypeOK, NEW r \in Requests
  PROVE  /\ req[r].kind \in CarriesOrder => req[r].table \in Tables /\ req[r].order \in Order
         /\ pc[r] \in {"line_order"} \cup PaySteps =>
              req[r].kind \in CarriesOrder /\ req[r].table \in Tables
         /\ work[r].bill \in Int /\ work[r].charge \in Int /\ work[r].left \in Int
<1>1. StepOK(r)
  BY DEF TypeOK
<1>2. work[r] \in Work
  BY RequestFields
<1>3. req[r].kind \in CarriesOrder => req[r].table \in Tables /\ req[r].order \in Order
  BY RequestFields DEF CarriesOrder
<1>4. pc[r] \in {"line_order"} \cup PaySteps => req[r].kind \in CarriesOrder
  BY <1>1 DEF StepOK, PaySteps, CarriesOrder
<1>5. QED
  BY <1>2, <1>3, <1>4 DEF Work

\* Another request's readings stay within what was ordered.
LEMMA ReadingsKept ==
  ASSUME TypeOK, CollectedInv, Ordering, NEW q \in Requests,
         pc'[q] = pc[q], req'[q] = req[q], work'[q] = work[q]
  PROVE  ReadWithin(q)'
<1> DEFINE most == ordered[req[q].table]
           more == ordered'[req[q].table]
<1>0. ReadWithin(q)
  BY DEF CollectedInv
<1>1. req[q].table \in Tables => most \in Nat /\ more \in Nat /\ most <= more
  BY OrderedGrows
<1> HIDE DEF most, more
<1>2. req[q].kind \in CarriesOrder => Worth(req[q].order, more)
  BY <1>0, <1>1, TableOf DEF ReadWithin, Worth, Order, most
<1>3. ASSUME pc[q] = "line_order"
      PROVE  work[q].bill <= more + (ItemTotal(work[q].write) - ItemTotal(work[q].rows))
  <2>1. work[q].bill <= most + (ItemTotal(work[q].write) - ItemTotal(work[q].rows))
    BY <1>0, <1>3 DEF ReadWithin, most
  <2>2. QED
    BY <1>1, <1>3, <2>1, TableOf, ItemTotalInt
<1>4. pc[q] \in PaySteps => work[q].charge + Sum(work[q].pays) <= more
  <2>1. pc[q] \in PaySteps => work[q].charge + Sum(work[q].pays) <= most
    BY <1>0 DEF ReadWithin, most
  <2>2. QED
    BY <1>1, <2>1, TableOf, SumInt
<1>5. pc[q] \in {"pay_scan", "pay_order"} => work[q].bill <= more /\ work[q].left >= 0
  <2>1. pc[q] \in {"pay_scan", "pay_order"} => work[q].bill <= most /\ work[q].left >= 0
    BY <1>0 DEF ReadWithin, most
  <2>2. QED
    BY <1>1, <2>1, TableOf DEF PaySteps
<1>6. QED
  BY <1>0, <1>2, <1>3, <1>4, <1>5 DEF ReadWithin, more

\* A step of r keeps the invariant if what it writes and reads is within bounds.
LEMMA CollectedStep ==
  ASSUME TypeOK, CollectedInv, Ordering, NEW r \in Requests,
         \A q \in Requests \ {r} : pc'[q] = pc[q] /\ req'[q] = req[q] /\ work'[q] = work[q],
         IsFiniteSet(items'), IsFiniteSet(payments'), IsFiniteSet(work'[r].write),
         \A p \in payments' : p.amount > 0,
         \A t \in Tables : Worth(order'[t], ordered'[t]) /\ Sum(PaidOf(t)') <= ordered'[t],
         ReadWithin(r)'
  PROVE  CollectedInv'
<1>1. Finite'
  BY DEF Finite, CollectedInv
<1>2. \A t \in Tables : ItemTotal(LinesOf(t)') <= ordered'[t]
  BY OrderedGrows
<1>3. \A q \in Requests : ReadWithin(q)'
  BY ReadingsKept
<1>4. QED
  BY <1>1, <1>2, <1>3, OrderedGrows DEF CollectedInv, CollectedWithinOrdered

\* The order rows and the payments that a step leaves alone stay within bounds.
LEMMA RowsKept ==
  ASSUME TypeOK, CollectedInv, Ordering, NEW t \in Tables
  PROVE  /\ order'[t] = order[t] => Worth(order'[t], ordered'[t])
         /\ PaidOf(t)' = PaidOf(t) => Sum(PaidOf(t)') <= ordered'[t]
<1>1. ordered[t] \in Nat /\ ordered'[t] \in Nat /\ ordered[t] <= ordered'[t]
  BY OrderedGrows
<1>2. Worth(order[t], ordered[t]) /\ Sum(PaidOf(t)) <= ordered[t] /\ order[t] \in Order
  BY DEF CollectedInv, CollectedWithinOrdered, TypeOK
<1>3. Worth(order[t], ordered'[t])
  BY <1>1, <1>2 DEF Worth, Order
<1>4. Sum(PaidOf(t)) <= ordered'[t]
  BY <1>1, <1>2, SumInt
<1>5. QED
  BY <1>3, <1>4

LEMMA OthersKept ==
  ASSUME TypeOK, NEW r \in Requests, NEW s, Goto(r, s), NEW b, req' = [req EXCEPT ![r] = b],
         NEW w, work' = [work EXCEPT ![r] = w]
  PROVE  /\ \A q \in Requests \ {r} : pc'[q] = pc[q] /\ req'[q] = req[q] /\ work'[q] = work[q]
         /\ pc'[r] = s /\ req'[r] = b /\ work'[r] = w
  BY DEF TypeOK, Goto

LEMMA ReceiveCollected ==
  ASSUME TypeOK, CollectedInv, Ordering, NEW r \in Requests, Receive(r)
  PROVE  CollectedInv'
<1> DEFINE Entries == {"upsert", "find", "sent_find", "save_order", "clear_lock", "reload",
                       "pay_lock", "cancel_lock"}
<1>1. PICK body, s : /\ Arrive(r, body, s) /\ s \in Entries
                     /\ body.kind \in CarriesOrder =>
                          body.table \in Tables /\ body.order = order[body.table]
  <2>1. CASE ReceiveAdd(r)
    <3>1. PICK t \in Tables, p \in Products, n \in Quantities \ {0} :
            Arrive(r, [kind |-> "add", table |-> t, product |-> p, qty |-> n], "upsert")
      BY <2>1 DEF ReceiveAdd
    <3>2. [kind |-> "add", table |-> t, product |-> p, qty |-> n].kind \notin CarriesOrder
      BY DEF CarriesOrder, PaymentKinds
    <3>3. QED
      BY <3>1, <3>2
  <2>2. CASE ReceiveLine(r)
    <3>1. PICK l \in items, n \in Quantities :
            Arrive(r, [kind |-> "line", table |-> l.table, line |-> l.id, qty |-> n,
                       order |-> order[l.table]], "find")
      BY <2>2 DEF ReceiveLine
    <3>2. l.table \in Tables
      BY DEF TypeOK, Line
    <3>3. QED
      BY <3>1, <3>2
  <2>3. CASE ReceiveSave(r)
    <3>1. PICK t \in Tables, k \in {"sent", "save"} :
            Arrive(r, [kind |-> k, table |-> t, order |-> order[t]],
                   IF k = "sent" THEN "sent_find" ELSE "save_order")
      BY <2>3 DEF ReceiveSave
    <3>2. QED
      BY <3>1
  <2>4. CASE ReceiveClear(r)
    <3>1. PICK t \in Tables :
            Arrive(r, [kind |-> "clear", table |-> t, order |-> order[t]],
                   IF order[t].status = "none" THEN "reload" ELSE "clear_lock")
      BY <2>4 DEF ReceiveClear
    <3>2. QED
      BY <3>1
  <2>5. CASE ReceivePayment(r)
    <3>1. PICK t \in Tables, k \in PaymentKinds, key \in Keys, o \in Offers :
            Arrive(r, [kind |-> k, table |-> t, key |-> key, offer |-> o, order |-> order[t]],
                   "pay_lock")
      BY <2>5 DEF ReceivePayment
    <3>2. QED
      BY <3>1
  <2>6. CASE ReceiveCancel(r)
    <3>1. PICK t \in Tables, key \in Keys :
            Arrive(r, [kind |-> "cancel", table |-> t, key |-> key, order |-> order[t]],
                   "cancel_lock")
      BY <2>6 DEF ReceiveCancel
    <3>2. QED
      BY <3>1
  <2>7. QED
    BY <2>1, <2>2, <2>3, <2>4, <2>5, <2>6 DEF Receive
<1>2. /\ pc'[r] = s /\ req'[r] = body /\ work' = work /\ UNCHANGED <<order, items, payments>>
      /\ \A q \in Requests \ {r} : pc'[q] = pc[q] /\ req'[q] = req[q] /\ work'[q] = work[q]
  BY <1>1 DEF Arrive, Goto, db, TypeOK
<1>3. ReadWithin(r)'
  <2>1. ASSUME body.kind \in CarriesOrder PROVE Worth(body.order, ordered'[body.table])
    <3>1. body.table \in Tables /\ body.order = order[body.table]
      BY <1>1, <2>1
    <3>2. Worth(order[body.table], ordered'[body.table])
      BY <1>2, <3>1, RowsKept
    <3>3. QED
      BY <3>1, <3>2
  <2>2. s \notin {"line_order", "pay_scan", "pay_order"} \cup PaySteps
    BY <1>1 DEF PaySteps
  <2>3. QED
    BY <1>2, <2>1, <2>2 DEF ReadWithin
<1>4. \A t \in Tables : Worth(order'[t], ordered'[t]) /\ Sum(PaidOf(t)') <= ordered'[t]
  BY <1>2, RowsKept DEF PaidOf
<1>5. QED
  BY <1>2, <1>3, <1>4, CollectedStep DEF CollectedInv, Finite

\* Steps that write no line, payment or order row, and read no amount.
LEMMA QuietCollected ==
  ASSUME TypeOK, CollectedInv, Ordering, NEW r \in Requests,
         \/ AddUpsert(r) \/ LineFind(r) \/ LineGone(r) \/ SentFind(r) \/ SentGone(r)
         \/ ClearLock(r) \/ PayDuplicate(r) \/ PayRefused(r) \/ PayConflict(r)
         \/ CancelRefused(r) \/ CancelFind(r) \/ Reload(r) \/ Persist(r)
         \/ Fail(r) \/ DeadlockVictim(r)
  PROVE  CollectedInv'
<1>0. pc \in [Requests -> {"idle"} \cup Steps \cup Ends] /\ work \in [Requests -> Work]
  BY DEF TypeOK
<1>1. UNCHANGED <<order, items, payments, req>>
  BY DEF AddUpsert, LineFind, LineGone, SentFind, SentGone, ClearLock, PayDuplicate, PayRefused,
     PayConflict, CancelRefused, CancelFind, Reload, Persist, Fail, DeadlockVictim, db
<1>2. \E s : Goto(r, s) /\ s \notin {"line_order"} \cup PaySteps
  <2>1. CASE LineFind(r) \/ SentFind(r)
    <3>1. \E s \in {"done", "line_write", "save_order", "sent_write"} : Goto(r, s)
      BY <2>1, Zenon DEF LineFind, SentFind
    <3>2. QED
      BY <3>1 DEF PaySteps
  <2>2. CASE ~(LineFind(r) \/ SentFind(r))
    <3>1. \E s \in {"add_lines", "failed", "clear_order", "reload", "cancel_order", "persist",
                    "done"} : Goto(r, s)
      BY <2>2 DEF AddUpsert, LineGone, SentGone, ClearLock, PayDuplicate, PayRefused,
         PayConflict, CancelRefused, CancelFind, Reload, Persist, Fail, DeadlockVictim
    <3>2. QED
      BY <3>1 DEF PaySteps
  <2>3. QED
    BY <2>1, <2>2
<1>3. /\ \A q \in Requests \ {r} : work'[q] = work[q]
      /\ work'[r].write = work[r].write
  <2>1. UNCHANGED work \/ (\E x : work' = [work EXCEPT ![r].rows = x])
                       \/ (\E x : work' = [work EXCEPT ![r].pays = x])
    BY DEF AddUpsert, LineFind, LineGone, SentFind, SentGone, ClearLock, PayDuplicate, PayRefused,
       PayConflict, CancelRefused, CancelFind, Reload, Persist, Fail, DeadlockVictim
  <2>2. QED
    BY <1>0, <2>1 DEF Work
<1>4. /\ pc'[r] \notin {"line_order"} \cup PaySteps
      /\ \A q \in Requests \ {r} : pc'[q] = pc[q]
  BY <1>0, <1>2 DEF Goto
<1>5. ReadWithin(r)'
  <2>1. ASSUME req[r].kind \in CarriesOrder PROVE Worth(req[r].order, ordered'[req[r].table])
    <3>1. req[r].table \in Tables /\ req[r].order \in Order
      BY <2>1, TableOf
    <3>2. Worth(req[r].order, ordered[req[r].table])
      BY <2>1 DEF CollectedInv, ReadWithin
    <3>3. QED
      BY <3>1, <3>2, OrderedGrows DEF Worth, Order
  <2>2. QED
    BY <1>1, <1>4, <2>1 DEF ReadWithin, PaySteps
<1>6. \A t \in Tables : Worth(order'[t], ordered'[t]) /\ Sum(PaidOf(t)') <= ordered'[t]
  BY <1>1, RowsKept DEF PaidOf
<1>7. QED
  BY <1>1, <1>3, <1>4, <1>5, <1>6, CollectedStep DEF CollectedInv, Finite

\* The order row r carries is still within what was ordered after the step.
LEMMA CarriedWithin ==
  ASSUME TypeOK, CollectedInv, Ordering, NEW r \in Requests, req[r].kind \in CarriesOrder
  PROVE  /\ req[r].table \in Tables /\ req[r].order \in Order
         /\ Worth(req[r].order, ordered[req[r].table])
         /\ Worth(req[r].order, ordered'[req[r].table])
<1>1. req[r].table \in Tables /\ req[r].order \in Order
  BY TableOf
<1>2. Worth(req[r].order, ordered[req[r].table])
  BY DEF CollectedInv, ReadWithin
<1>3. QED
  BY <1>1, <1>2, OrderedGrows DEF Worth, Order

\* A commit of r that writes lines and the order row of its table.
LEMMA CommitCollected ==
  ASSUME TypeOK, CollectedInv, Ordering, NEW r \in Requests, NEW s \in {"done", "reload"},
         Goto(r, s), UNCHANGED <<req, work, payments>>, IsFiniteSet(items'),
         NEW t \in Tables, Worth(order'[t], ordered'[t]),
         \A u \in Tables \ {t} : order'[u] = order[u]
  PROVE  CollectedInv'
<1>1. /\ pc'[r] = s /\ \A q \in Requests \ {r} : pc'[q] = pc[q]
      /\ s \notin {"line_order", "pay_scan", "pay_order"} \cup PaySteps
  BY DEF Goto, TypeOK, PaySteps
<1>2. ReadWithin(r)'
  <2>1. req[r].kind \in CarriesOrder => Worth(req[r].order, ordered'[req[r].table])
    BY CarriedWithin
  <2>2. QED
    BY <1>1, <2>1 DEF ReadWithin
<1>3. \A u \in Tables : PaidOf(u)' = PaidOf(u)
  BY DEF PaidOf
<1>4. \A u \in Tables : Worth(order'[u], ordered'[u]) /\ Sum(PaidOf(u)') <= ordered'[u]
  <2>1. ASSUME NEW u \in Tables PROVE Sum(PaidOf(u)') <= ordered'[u]
    BY <1>3, RowsKept
  <2>2. ASSUME NEW u \in Tables, u # t PROVE Worth(order'[u], ordered'[u])
    BY <2>2, RowsKept
  <2>3. QED
    BY <2>1, <2>2
<1>5. QED
  BY <1>1, <1>2, <1>4, CollectedStep DEF CollectedInv, Finite

LEMMA AddCollected ==
  ASSUME TypeOK, CollectedInv, Ordering, NEW r \in Requests, AddCommit(r)
  PROVE  CollectedInv'
<1>0. PICK t \in Tables : t = req[r].table
  BY RequestFields DEF AddCommit, TypeOK, StepOK
<1>1. order \in [Tables -> Order]
  BY DEF TypeOK
<1> DEFINE n == ItemTotal(LinesOf(t)')
<1>2. order' = [order EXCEPT ![t] = [status |-> "open", subtotal |-> n,
                  discount |-> order[t].discount, total |-> n, pre |-> 0]]
  BY <1>0 DEF AddCommit, LinesOf
<1>3. n \in Int /\ n <= ordered'[t] /\ ordered'[t] \in Nat
  BY ItemTotalInt, OrderedGrows
<1>4. IsFiniteSet(items')
  <2>1. IsFiniteSet(items)
    BY DEF CollectedInv, Finite
  <2>2. CASE items' = items \cup {NewLine(r)}
    BY <2>1, <2>2, FS_AddElement
  <2>3. ASSUME NEW seen \in work[r].rows, items' = Merge(r, seen) PROVE IsFiniteSet(items')
    <3>1. IsFiniteSet({l \in items : l.id # seen.id})
      BY <2>1, FS_Subset
    <3>2. QED
      BY <2>3, <3>1, FS_AddElement DEF Merge
  <2>4. QED
    BY <2>2, <2>3 DEF AddCommit
<1> HIDE DEF n
<1>5. Worth(order'[t], ordered'[t]) /\ \A u \in Tables \ {t} : order'[u] = order[u]
  BY <1>1, <1>2, <1>3 DEF Worth
<1>6. Goto(r, "done") /\ UNCHANGED <<req, work, payments>>
  BY DEF AddCommit
<1>7. QED
  BY <1>1, <1>4, <1>5, <1>6, CommitCollected

LEMMA SaveCollected ==
  ASSUME TypeOK, CollectedInv, Ordering, NEW r \in Requests, SentCommit(r) \/ SaveCommit(r)
  PROVE  CollectedInv'
<1> DEFINE t == req[r].table
<1>1. req[r].kind \in CarriesOrder
  BY DEF TypeOK, StepOK, SentCommit, SaveCommit, CarriesOrder
<1>2. t \in Tables /\ Worth(req[r].order, ordered'[t]) /\ order \in [Tables -> Order]
  BY <1>1, CarriedWithin DEF TypeOK
<1>3. Worth(order[t], ordered'[t])
  <2>1. Worth(order[t], ordered[t]) /\ order[t] \in Order
    BY <1>2 DEF CollectedInv
  <2>2. QED
    BY <1>2, <2>1, OrderedGrows DEF Worth, Order
<1>4. order'[t].pre = req[r].order.pre /\ order'[t].subtotal = order[t].subtotal
      /\ order'[t].total = order[t].total /\ \A u \in Tables \ {t} : order'[u] = order[u]
  BY <1>2 DEF SentCommit, SaveCommit, Reopened, Order
<1>5. Worth(order'[t], ordered'[t])
  BY <1>2, <1>3, <1>4 DEF Worth
<1>6. IsFiniteSet(items')
  <2>1. IsFiniteSet(items) /\ IsFiniteSet(work[r].write)
    BY DEF CollectedInv, Finite
  <2>2. IsFiniteSet(items \ work[r].rows)
    BY <2>1, FS_Subset
  <2>3. QED
    BY <2>1, <2>2, FS_Union DEF SentCommit, SaveCommit, WriteLines
<1>7. Goto(r, "done") /\ UNCHANGED <<req, work, payments>>
  BY DEF SentCommit, SaveCommit
<1>8. QED
  BY <1>2, <1>4, <1>5, <1>6, <1>7, CommitCollected

LEMMA ClearCollected ==
  ASSUME TypeOK, CollectedInv, Ordering, NEW r \in Requests, ClearCommit(r)
  PROVE  CollectedInv'
<1> DEFINE t == req[r].table
<1>1. req[r].kind \in CarriesOrder
  BY DEF TypeOK, StepOK, ClearCommit, CarriesOrder
<1>2. t \in Tables /\ Worth(req[r].order, ordered'[t]) /\ order \in [Tables -> Order]
      /\ ordered'[t] \in Nat
  BY <1>1, CarriedWithin, OrderedGrows DEF TypeOK
<1>3. order' = [order EXCEPT ![t] = [status |-> "paid", subtotal |-> 0, discount |-> 0,
                  total |-> 0, pre |-> req[r].order.pre]]
  BY DEF ClearCommit
<1>4. Worth(order'[t], ordered'[t]) /\ \A u \in Tables \ {t} : order'[u] = order[u]
  BY <1>2, <1>3 DEF Worth
<1>5. IsFiniteSet(items')
  <2>1. IsFiniteSet(items) /\ items' \subseteq items
    BY DEF CollectedInv, Finite, ClearCommit, DeleteLines
  <2>2. QED
    BY <2>1, FS_Subset
<1>6. Goto(r, "reload") /\ UNCHANGED <<req, work, payments>>
  BY DEF ClearCommit
<1>7. QED
  BY <1>2, <1>4, <1>5, <1>6, CommitCollected

\* A step of r that reads, and keeps what it computed in its work.
LEMMA ReadCollected ==
  ASSUME TypeOK, CollectedInv, Ordering, NEW r \in Requests, NEW s, Goto(r, s),
         NEW w, work' = [work EXCEPT ![r] = w], UNCHANGED <<order, items, payments, req>>,
         IsFiniteSet(w.write),
         ReadWithin(r)'
  PROVE  CollectedInv'
<1>1. /\ \A q \in Requests \ {r} : pc'[q] = pc[q] /\ work'[q] = work[q]
      /\ work'[r] = w
  BY DEF Goto, TypeOK
<1>2. \A t \in Tables : Worth(order'[t], ordered'[t]) /\ Sum(PaidOf(t)') <= ordered'[t]
  BY RowsKept DEF PaidOf
<1>3. QED
  BY <1>1, <1>2, CollectedStep DEF CollectedInv, Finite

\* One line put in the place of another, or of none.
LEMMA ReplaceTotal ==
  ASSUME NEW S, IsFiniteSet(S), S \subseteq Line, NEW l \in S, NEW W \in SUBSET Line,
         W = {} \/ \E w : W = {w}, W \cap (S \ {l}) = {}
  PROVE  ItemTotal((S \ {l}) \cup W) = ItemTotal(S) + (ItemTotal(W) - ItemTotal({l}))
<1> DEFINE rest == S \ {l}
<1>1. IsFiniteSet(rest) /\ rest \subseteq Line /\ l \in Line /\ l \notin rest /\ rest \cup {l} = S
  BY FS_Subset
<1> HIDE DEF rest
<1>2. ItemTotal(rest \cup {l}) = ItemTotal(rest) + ItemTotal({l})
  BY <1>1, ItemTotalAdd
<1>3. ItemTotal(S) = ItemTotal(rest) + ItemTotal({l})
  BY <1>1, <1>2, Zenon
<1>4. ItemTotal(rest \cup W) = ItemTotal(rest) + ItemTotal(W)
  <2>1. CASE W = {}
    <3>1. rest \cup W = rest
      BY <2>1
    <3>2. ItemTotal(rest \cup W) = ItemTotal(rest) /\ ItemTotal(W) = 0
      BY <2>1, <3>1, NothingAddsUp, Zenon
    <3>3. QED
      BY <3>2, ItemTotalInt
  <2>2. CASE W # {}
    <3>1. PICK w : W = {w}
      BY <2>2
    <3>2. w \in Line /\ w \notin rest
      BY <3>1 DEF rest
    <3>3. ItemTotal(rest \cup {w}) = ItemTotal(rest) + ItemTotal({w})
      BY <1>1, <3>2, ItemTotalAdd
    <3>4. QED
      BY <3>1, <3>3, Zenon
  <2>3. QED
    BY <2>1, <2>2
<1>5. ItemTotal(rest \cup W) = ItemTotal(S) + (ItemTotal(W) - ItemTotal({l}))
  BY <1>3, <1>4, ItemTotalInt
<1>6. QED
  BY <1>5 DEF rest

LEMMA LinesFinite ==
  ASSUME TypeOK, CollectedInv
  PROVE  \A t : LinesOf(t) \subseteq Line /\ IsFiniteSet(LinesOf(t))
<1>1. IsFiniteSet(items) /\ \A t : LinesOf(t) \subseteq items
  BY DEF CollectedInv, Finite, LinesOf
<1>2. QED
  BY <1>1, FS_Subset DEF TypeOK

LEMMA LineWriteCollected ==
  ASSUME LineInv, CollectedInv, Ordering, NEW r \in Requests, LineWrite(r)
  PROVE  CollectedInv'
<1>0. /\ TypeOK /\ work \in [Requests -> Work] /\ work[r] \in Work
      /\ pc \in [Requests -> {"idle"} \cup Steps \cup Ends] /\ items \subseteq Line
      /\ pc[r] = "line_write" /\ req[r].kind = "line" /\ Known(r)
  BY DEF LineInv, TypeOK, LineWrite, StepOK, Remembers
<1>1. PICK l \in items, seen \in work[r].rows :
        /\ l.id = req[r].line
        /\ LET write == Requantified(l, seen, req[r].qty)
               rows  == (LinesOf(l.table) \ {l}) \cup write
           IN work' = [work EXCEPT ![r].rows = {l}, ![r].write = write,
                                   ![r].bill = ItemTotal(rows),
                                   ![r].closes = rows = {}]
  BY DEF LineWrite
<1>2. PICK t \in Tables : t = req[r].table
  BY <1>0, TableOf DEF CarriesOrder
<1>3. l.table = t /\ l \in LinesOf(t)
  BY <1>0, <1>1, <1>2 DEF Known, LinesOf
<1> DEFINE write == Requantified(l, seen, req[r].qty)
           rows  == (LinesOf(t) \ {l}) \cup write
           w == [[[[work[r] EXCEPT !.rows = {l}] EXCEPT !.write = write]
                   EXCEPT !.bill = ItemTotal(rows)] EXCEPT !.closes = rows = {}]
<1>4. write = {} \/ \E u : write = {u} /\ u \in Line /\ u.id = l.id
  <2>1. l \in Line /\ seen \in Line /\ req[r].qty \in Nat
    BY <1>0, RequestFields, ConstantsAssumption DEF Work
  <2>2. Lesser(seen.sent, req[r].qty) \in Nat
    BY <2>1 DEF Lesser, Line
  <2>3. [l EXCEPT !.qty = req[r].qty, !.sent = Lesser(seen.sent, req[r].qty)] \in Line
    BY <2>1, <2>2 DEF Line
  <2>4. [l EXCEPT !.qty = req[r].qty, !.sent = Lesser(seen.sent, req[r].qty)].id = l.id
    BY <2>1 DEF Line
  <2>5. QED
    BY <2>3, <2>4 DEF Requantified
<1>5. work' = [work EXCEPT ![r] = w]
  <2> HIDE DEF rows, write
  <2>1. work' = [work EXCEPT ![r].rows = {l}, ![r].write = write,
                 ![r].bill = ItemTotal(rows), ![r].closes = rows = {}]
    BY <1>1, <1>3 DEF rows, write
  <2>2. QED
    BY <1>0, <2>1
<1> HIDE DEF write
<1>6. ItemTotal(rows) = ItemTotal(LinesOf(t)) + (ItemTotal(write) - ItemTotal({l}))
  <2>1. write \in SUBSET Line /\ (write = {} \/ \E u : write = {u})
    BY <1>4
  <2>2. write \cap (LinesOf(t) \ {l}) = {}
    BY <1>1, <1>4 DEF LineInv, IdsUnique, LinesOf
  <2>3. QED
    BY <1>0, <1>3, <2>1, <2>2, LinesFinite, ReplaceTotal
<1> HIDE DEF rows
<1>7. w.rows = {l} /\ w.write = write /\ w.bill = ItemTotal(rows)
  BY <1>0 DEF Work
<1>8. IsFiniteSet(w.write)
  <2>1. IsFiniteSet(write)
    BY <1>4, FS_EmptySet, FS_Singleton
  <2>2. QED
    BY <1>7, <2>1, Zenon
<1> HIDE DEF w
<1>9. work'[r] = w /\ pc'[r] = "line_order" /\ Goto(r, "line_order")
      /\ UNCHANGED <<order, items, payments, req>>
  BY <1>0, <1>5 DEF LineWrite, Goto, db
<1>10. w.bill <= ordered'[t] + (ItemTotal(w.write) - ItemTotal(w.rows))
  <2>1. ItemTotal(LinesOf(t)) <= ordered[t] /\ ordered[t] \in Nat /\ ordered'[t] \in Nat
        /\ ordered[t] <= ordered'[t]
    BY OrderedGrows DEF CollectedInv
  <2>2. ItemTotal(LinesOf(t)) \in Int /\ ItemTotal(write) \in Int /\ ItemTotal({l}) \in Int
    BY ItemTotalInt
  <2>3. ItemTotal(rows) <= ordered'[t] + (ItemTotal(write) - ItemTotal({l}))
    BY <1>6, <2>1, <2>2
  <2>4. QED
    BY <1>7, <2>3, Zenon
<1>11. Worth(req[r].order, ordered'[t])
  BY <1>0, <1>2, CarriedWithin DEF CarriesOrder
<1>12. ReadWithin(r)'
  BY <1>2, <1>4, <1>7, <1>9, <1>10, <1>11 DEF ReadWithin, PaySteps
<1>13. QED
  BY <1>0, <1>5, <1>8, <1>9, <1>12, ReadCollected

LEMMA LineCommitCollected ==
  ASSUME LineInv, TypeOK', CollectedInv, Ordering, NEW r \in Requests, LineCommit(r)
  PROVE  CollectedInv'
<1>0. /\ TypeOK /\ work[r] \in Work /\ order \in [Tables -> Order]
      /\ pc[r] = "line_order" /\ req[r].kind = "line" /\ Locked(r) /\ OfTable(r)
      /\ items' = (items \ work[r].rows) \cup work[r].write
  BY DEF LineInv, TypeOK, LineCommit, StepOK, Remembers, WriteLines
<1>1. PICK t \in Tables : t = req[r].table
  BY <1>0, TableOf DEF CarriesOrder
<1>2. /\ \E l : work[r].rows = {l}
      /\ work[r].write = {} \/ \E w : work[r].write = {w}
      /\ work[r].bill <= ordered[t] + (ItemTotal(work[r].write) - ItemTotal(work[r].rows))
  BY <1>0, <1>1 DEF CollectedInv, ReadWithin
<1>3. PICK l : work[r].rows = {l}
  BY <1>2
<1> DEFINE write == work[r].write
<1>4. l \in items /\ l.table = t
  BY <1>0, <1>1, <1>3 DEF Locked, OfTable, LineHolders
<1>5. write \in SUBSET Line /\ \A w \in write : w.id = l.id /\ w.table = t
  BY <1>0, <1>3, <1>4 DEF Locked, LineHolders, Identity, Work
<1>6. LinesOf(t)' = (LinesOf(t) \ {l}) \cup write
  BY <1>0, <1>3, <1>4, <1>5 DEF LinesOf
<1>7. ItemTotal(LinesOf(t)') = ItemTotal(LinesOf(t)) + (ItemTotal(write) - ItemTotal({l}))
  <2>1. write \cap (LinesOf(t) \ {l}) = {}
    BY <1>4, <1>5 DEF LineInv, IdsUnique, LinesOf
  <2>2. l \in LinesOf(t)
    BY <1>4 DEF LinesOf
  <2>3. write \in SUBSET Line /\ (write = {} \/ \E w : write = {w})
    BY <1>2, <1>5
  <2> HIDE DEF write
  <2>4. ItemTotal((LinesOf(t) \ {l}) \cup write)
          = ItemTotal(LinesOf(t)) + (ItemTotal(write) - ItemTotal({l}))
    BY <1>0, <2>1, <2>2, <2>3, LinesFinite, ReplaceTotal
  <2>5. QED
    BY <1>6, <2>4, Zenon
<1>8. work[r].bill <= ordered'[t]
  <2>1. ItemTotal(LinesOf(t)') - ItemTotal(LinesOf(t)) <= ordered'[t] - ordered[t]
        /\ ordered[t] \in Nat /\ ordered'[t] \in Nat
    BY OrderedGrows
  <2>2. ItemTotal(LinesOf(t)) \in Int /\ ItemTotal(write) \in Int /\ ItemTotal({l}) \in Int
        /\ work[r].bill \in Int
    BY <1>0, ItemTotalInt DEF Work
  <2>3. work[r].bill <= ordered[t] + (ItemTotal(write) - ItemTotal({l}))
    BY <1>2, <1>3, Zenon
  <2>4. QED
    BY <1>7, <2>1, <2>2, <2>3
<1>9. Worth(req[r].order, ordered'[t])
  BY <1>0, <1>1, CarriedWithin DEF CarriesOrder
<1>10. order' = [order EXCEPT ![t] =
          [status |-> IF work[r].closes THEN "paid" ELSE "open",
           subtotal |-> work[r].bill, discount |-> order[t].discount,
           total |-> work[r].bill, pre |-> req[r].order.pre]]
  BY <1>1 DEF LineCommit
<1>11. Worth(order'[t], ordered'[t]) /\ \A u \in Tables \ {t} : order'[u] = order[u]
  BY <1>0, <1>8, <1>9, <1>10 DEF Worth
<1>12. IsFiniteSet(items')
  <2>1. IsFiniteSet(items) /\ IsFiniteSet(write)
    BY DEF CollectedInv, Finite
  <2>2. IsFiniteSet(items \ work[r].rows)
    BY <2>1, FS_Subset
  <2>3. QED
    BY <1>0, <2>1, <2>2, FS_Union
<1>13. Goto(r, "done") /\ UNCHANGED <<req, work, payments>>
  BY DEF LineCommit
<1>14. QED
  BY <1>0, <1>11, <1>12, <1>13, CommitCollected

LEMMA SentWriteCollected ==
  ASSUME TypeOK, CollectedInv, Ordering, NEW r \in Requests, SentWrite(r)
  PROVE  CollectedInv'
<1> DEFINE seen == work[r].rows
           current == {l \in items : l.id \in Ids(seen)}
           sent == [l \in current |-> [l EXCEPT !.sent = AsRead(seen, l).qty]]
           write == {sent[l] : l \in current}
           w == [[work[r] EXCEPT !.rows = current] EXCEPT !.write = write]
<1>0. work \in [Requests -> Work] /\ work[r] \in Work /\ req[r].kind = "sent"
  BY DEF TypeOK, SentWrite, StepOK
<1>1. work' = [work EXCEPT ![r] = w]
  <2>1. work' = [work EXCEPT ![r].rows = current,
                   ![r].write = {[l EXCEPT !.sent = AsRead(seen, l).qty] : l \in current}]
    BY DEF SentWrite
  <2>2. write = {[l EXCEPT !.sent = AsRead(seen, l).qty] : l \in current}
    OBVIOUS
  <2> HIDE DEF write, current
  <2>3. work' = [work EXCEPT ![r].rows = current, ![r].write = write]
    BY <2>1, <2>2, Zenon
  <2>4. QED
    BY <1>0, <2>3
<1>2. IsFiniteSet(write)
  <2>1. IsFiniteSet(current)
    BY FS_Subset DEF CollectedInv, Finite
  <2> HIDE DEF current
  <2>2. sent \in Surjection(current, write)
    BY DEF Surjection
  <2> HIDE DEF sent, write
  <2>3. QED
    BY <2>1, <2>2, FS_Surjection
<1> HIDE DEF write, current
<1>3. IsFiniteSet(w.write)
  BY <1>0, <1>2 DEF Work
<1> HIDE DEF w
<1>4. Goto(r, "sent_order") /\ pc'[r] = "sent_order" /\ UNCHANGED <<order, items, payments, req>>
  BY DEF SentWrite, Goto, TypeOK, db
<1>5. Worth(req[r].order, ordered'[req[r].table])
  BY <1>0, CarriedWithin DEF CarriesOrder
<1>6. ReadWithin(r)'
  BY <1>4, <1>5 DEF ReadWithin, PaySteps
<1>7. QED
  BY <1>1, <1>3, <1>4, <1>6, ReadCollected

\* The bill, wherever it is read from, is within what was ordered.
LEMMA BillWithin ==
  ASSUME TypeOK, CollectedInv, NEW r \in Requests, req[r].kind \in CarriesOrder
  PROVE  Bill(r) \in Int /\ Bill(r) <= ordered[req[r].table]
<1>1. req[r].table \in Tables /\ req[r].order \in Order
  BY TableOf
<1>2. Worth(req[r].order, ordered[req[r].table])
      /\ ItemTotal(LinesOf(req[r].table)) <= ordered[req[r].table]
  BY <1>1 DEF CollectedInv, ReadWithin
<1>3. QED
  BY <1>1, <1>2, ItemTotalInt DEF Bill, OrderTotal, Worth, Order

LEMMA PayReadCollected ==
  ASSUME TypeOK, CollectedInv, Ordering, NEW r \in Requests,
         PayCharge(r) \/ PayLoad(r) \/ PayScan(r)
  PROVE  CollectedInv'
<1>0. /\ work \in [Requests -> Work] /\ work[r] \in Work /\ req[r].kind \in PaymentKinds
      /\ req[r].kind \in CarriesOrder /\ IsFiniteSet(work[r].write)
  BY DEF TypeOK, PayCharge, PayLocked, PayLoad, PayScan, StepOK, CarriesOrder, CollectedInv, Finite
<1>1. PICK t \in Tables : t = req[r].table
  BY <1>0, TableOf
<1>2. ordered[t] \in Nat /\ ordered'[t] \in Nat /\ ordered[t] <= ordered'[t]
  BY OrderedGrows
<1>3. Worth(req[r].order, ordered'[t])
  BY <1>0, <1>1, CarriedWithin
<1>4. Bill(r) \in Int /\ Bill(r) <= ordered'[t]
  <2>1. Bill(r) \in Int /\ Bill(r) <= ordered[t]
    BY <1>0, <1>1, BillWithin
  <2>2. QED
    BY <1>2, <2>1
<1>5. UNCHANGED <<order, items, payments, req>>
  BY DEF PayCharge, PayLoad, PayScan, db
<1>6. CASE PayCharge(r)
  <2> DEFINE w == [[[work[r] EXCEPT !.charge = Charge(r)] EXCEPT !.pays = PaidOf(t)]
                     EXCEPT !.balance = AccountBalance(req[r].offer.accountId)]
  <2>1. work' = [work EXCEPT ![r] = w]
    BY <1>0, <1>1, <1>6 DEF PayCharge
  <2>2. w.write = work[r].write /\ w.charge = Charge(r) /\ w.pays = PaidOf(t)
    BY <1>0 DEF Work
  <2> HIDE DEF w
  <2>3. Charge(r) + Sum(PaidOf(t)) <= Bill(r)
    <3> DEFINE paid == Sum(PaidOf(t))
               left == RemainingTotal(Bill(r), paid, req[r].order)
    <3>1. paid \in Int /\ req[r].offer.amount \in Nat
      BY <1>0, SumInt, RequestFields DEF Offer
    <3>2. left \in Nat /\ (left > 0 => left = Bill(r) - paid)
      BY <1>4, <3>1 DEF RemainingTotal
    <3>3. Charge(r) > 0
      BY <1>6 DEF PayCharge
    <3> HIDE DEF paid
    <3>4. Left(r) = left
      BY <1>1 DEF Left, paid
    <3> HIDE DEF left
    <3>5. Charge(r) <= left /\ Charge(r) \in Int
      BY <3>1, <3>2, <3>4 DEF Charge, Lesser
    <3>6. Charge(r) + paid <= Bill(r)
      BY <1>4, <3>1, <3>2, <3>3, <3>5
    <3>7. QED
      BY <3>6 DEF paid
  <2>4. Charge(r) \in Int /\ Sum(PaidOf(t)) \in Int
    BY ChargeInt, <1>0, SumInt
  <2>5. w.charge + Sum(w.pays) <= ordered'[t]
    BY <1>2, <1>4, <2>2, <2>3, <2>4
  <2>6. Goto(r, "pay_load") /\ pc'[r] = "pay_load" /\ work'[r] = w
    BY <1>0, <1>6, <2>1 DEF PayCharge, Goto, TypeOK
  <2>7. ReadWithin(r)'
    BY <1>1, <1>3, <1>5, <2>5, <2>6 DEF ReadWithin, PaySteps
  <2>8. QED
    BY <1>0, <1>5, <2>1, <2>2, <2>6, <2>7, ReadCollected
<1>7. ASSUME pc[r] \in PaySteps PROVE work[r].charge + Sum(work[r].pays) <= ordered'[t]
  <2>1. work[r].charge + Sum(work[r].pays) <= ordered[t]
    BY <1>1, <1>7 DEF CollectedInv, ReadWithin
  <2>2. work[r].charge \in Int /\ Sum(work[r].pays) \in Int
    BY <1>0, SumInt DEF Work
  <2>3. QED
    BY <1>2, <2>1, <2>2
<1>8. CASE PayLoad(r)
  <2> DEFINE left == RemainingTotal(Bill(r), Sum(PaidOf(t)) + work[r].charge, req[r].order)
             closes == req[r].kind = "close" \/ left <= 0
             w == [[[work[r] EXCEPT !.bill = Bill(r)] EXCEPT !.left = left] EXCEPT !.closes = closes]
  <2>1. left \in Nat
    BY <1>0, <1>4, SumInt, RemainingTotalInt DEF Work
  <2> HIDE DEF left
  <2>2. work' = [work EXCEPT ![r].bill = Bill(r), ![r].left = left, ![r].closes = closes]
        /\ pc[r] = "pay_load" /\ \E s \in {"pay_scan", "pay_order"} : Goto(r, s)
    BY <1>1, <1>8, Zenon DEF PayLoad, left
  <2> HIDE DEF closes
  <2>3. work' = [work EXCEPT ![r] = w]
    BY <1>0, <2>2
  <2>4. w.write = work[r].write /\ w.charge = work[r].charge /\ w.pays = work[r].pays
        /\ w.bill = Bill(r) /\ w.left = left
    BY <1>0 DEF Work
  <2> HIDE DEF w
  <2>5. PICK s \in {"pay_scan", "pay_order"} : Goto(r, s)
    BY <2>2
  <2>6. pc'[r] = s /\ work'[r] = w
    BY <1>0, <2>3, <2>5 DEF Goto, TypeOK
  <2>7. w.charge + Sum(w.pays) <= ordered'[t]
    BY <1>7, <2>2, <2>4 DEF PaySteps
  <2>8. ReadWithin(r)'
    BY <1>1, <1>3, <1>4, <1>5, <2>1, <2>4, <2>6, <2>7 DEF ReadWithin
  <2>9. IsFiniteSet(w.write)
    BY <1>0, <2>4, Zenon
  <2>10. QED
    BY <1>5, <2>3, <2>5, <2>8, <2>9, ReadCollected
<1>9. CASE PayScan(r)
  <2> DEFINE w == [work[r] EXCEPT !.rows = LinesOf(t)]
  <2>1. work' = [work EXCEPT ![r] = w]
    BY <1>0, <1>1, <1>9 DEF PayScan
  <2>2. w.write = work[r].write /\ w.charge = work[r].charge /\ w.pays = work[r].pays
        /\ w.bill = work[r].bill /\ w.left = work[r].left
    BY <1>0 DEF Work
  <2> HIDE DEF w
  <2>3. Goto(r, "pay_order") /\ pc'[r] = "pay_order" /\ work'[r] = w /\ pc[r] = "pay_scan"
    BY <1>0, <1>9, <2>1 DEF PayScan, Goto, TypeOK
  <2>4. work[r].bill <= ordered[t] /\ work[r].left >= 0 /\ work[r].bill \in Int
    BY <1>0, <1>1, <2>3 DEF CollectedInv, ReadWithin, Work
  <2>5. w.bill <= ordered'[t] /\ w.left >= 0
    BY <1>2, <2>2, <2>4
  <2>6. w.charge + Sum(w.pays) <= ordered'[t]
    BY <1>7, <2>2, <2>3 DEF PaySteps
  <2>7. ReadWithin(r)'
    BY <1>1, <1>3, <1>5, <2>3, <2>5, <2>6 DEF ReadWithin
  <2>8. IsFiniteSet(w.write)
    BY <1>0, <2>2, Zenon
  <2>9. QED
    BY <1>5, <2>1, <2>3, <2>7, <2>8, ReadCollected
<1>10. QED
  BY <1>6, <1>8, <1>9

LEMMA PaymentsFinite ==
  ASSUME TypeOK, CollectedInv
  PROVE  \A t : PaidOf(t) \subseteq Payment /\ IsFiniteSet(PaidOf(t))
<1>1. IsFiniteSet(payments) /\ \A t : PaidOf(t) \subseteq payments
  BY DEF CollectedInv, Finite, PaidOf
<1>2. QED
  BY <1>1, FS_Subset DEF TypeOK

LEMMA PayCommitCollected ==
  ASSUME PaymentInv, LedgerInv, TypeOK', CollectedInv, Ordering, NEW r \in Requests, PayCommit(r)
  PROVE  CollectedInv'
<1>0. /\ TypeOK /\ work[r] \in Work /\ order \in [Tables -> Order] /\ pc[r] = "pay_order"
      /\ req[r].kind \in PaymentKinds /\ req[r].kind \in CarriesOrder /\ work[r].charge > 0
  BY DEF PaymentInv, TypeOK, PayCommit, StepOK, CarriesOrder
<1>1. PICK t \in Tables : t = req[r].table
  BY <1>0, TableOf
<1> DEFINE new == NewPayment(r)
           discount == IF work[r].closes THEN work[r].left ELSE 0
<1>2. ordered[t] \in Nat /\ ordered'[t] \in Nat /\ ordered[t] <= ordered'[t]
  BY OrderedGrows
<1>3. new.id = r /\ new.table = t /\ new.status = "paid" /\ new.amount = work[r].charge
  BY <1>1 DEF NewPayment
<1>4. payments' = payments \cup {new}
  BY DEF PayCommit
<1>5. new \in Payment
  BY <1>4 DEF TypeOK
<1>6. new \notin payments
  BY <1>0, <1>3 DEF LedgerInv, PaymentBooked, PastCommit, Ends
<1> HIDE DEF new
<1>7. Sum(PaidOf(t)') <= ordered'[t]
  <2>1. PaidOf(t)' = PaidOf(t) \cup {new}
    BY <1>3, <1>4 DEF PaidOf
  <2>2. new \notin PaidOf(t)
    BY <1>6 DEF PaidOf
  <2>3. Sum(PaidOf(t) \cup {new}) = Sum(PaidOf(t)) + new.amount
    BY <1>0, <1>5, <2>2, PaymentsFinite, SumAdd
  <2>4. PaidOf(t) = work[r].pays
    BY <1>0, <1>1 DEF PaymentInv, ReadCurrent, PaySteps
  <2>5. work[r].charge + Sum(work[r].pays) <= ordered[t]
    BY <1>0, <1>1 DEF CollectedInv, ReadWithin, PaySteps
  <2>6. work[r].charge \in Int /\ Sum(work[r].pays) \in Int
    BY <1>0, SumInt DEF Work
  <2>7. Sum(PaidOf(t)') = Sum(work[r].pays) + work[r].charge
    BY <1>3, <2>1, <2>3, <2>4, Zenon
  <2>8. QED
    BY <1>2, <2>5, <2>6, <2>7
<1>8. work[r].bill <= ordered'[t] /\ work[r].bill - discount <= ordered'[t] /\ discount \in Int
  <2>1. work[r].bill <= ordered[t] /\ work[r].left >= 0
    BY <1>0, <1>1 DEF CollectedInv, ReadWithin
  <2>2. work[r].bill \in Int /\ work[r].left \in Int
    BY <1>0 DEF Work
  <2>3. discount \in Nat
    BY <2>1, <2>2
  <2> HIDE DEF discount
  <2>4. QED
    BY <1>2, <2>1, <2>2, <2>3
<1>9. order' = [order EXCEPT ![t] =
          [status |-> IF work[r].closes THEN "paid" ELSE "open", subtotal |-> work[r].bill,
           discount |-> discount, total |-> work[r].bill - discount, pre |-> work[r].bill]]
  BY <1>1 DEF PayCommit
<1> HIDE DEF discount
<1>10. Worth(order'[t], ordered'[t]) /\ \A u \in Tables \ {t} : order'[u] = order[u]
  BY <1>0, <1>8, <1>9 DEF Worth
<1>11. \A u \in Tables \ {t} : PaidOf(u)' = PaidOf(u)
  BY <1>3, <1>4 DEF PaidOf
<1>12. \A u \in Tables : Worth(order'[u], ordered'[u]) /\ Sum(PaidOf(u)') <= ordered'[u]
  <2>1. ASSUME NEW u \in Tables \ {t}
        PROVE  Worth(order'[u], ordered'[u]) /\ Sum(PaidOf(u)') <= ordered'[u]
    BY <1>0, <1>10, <1>11, RowsKept
  <2>2. QED
    BY <1>7, <1>10, <2>1
<1>13. /\ pc'[r] = "reload" /\ req' = req /\ work' = work
       /\ \A q \in Requests \ {r} : pc'[q] = pc[q]
  BY <1>0 DEF PayCommit, Goto, TypeOK
<1>14. ReadWithin(r)'
  <2>1. Worth(req[r].order, ordered'[t])
    BY <1>0, <1>1, CarriedWithin
  <2>2. QED
    BY <1>1, <1>13, <2>1 DEF ReadWithin, PaySteps
<1>15. IsFiniteSet(items') /\ IsFiniteSet(payments') /\ IsFiniteSet(work'[r].write)
  <2>1. IsFiniteSet(items) /\ IsFiniteSet(payments) /\ IsFiniteSet(work[r].write)
    BY DEF CollectedInv, Finite
  <2>2. items' \subseteq items
    BY DEF PayCommit, DeleteLines
  <2>3. IsFiniteSet(items')
    BY <2>1, <2>2, FS_Subset
  <2>4. IsFiniteSet(payments')
    BY <1>4, <2>1, FS_AddElement
  <2>5. QED
    BY <1>13, <2>1, <2>3, <2>4
<1>16. \A p \in payments' : p.amount > 0
  BY <1>0, <1>3, <1>4 DEF CollectedInv
<1>17. QED
  BY <1>0, <1>12, <1>13, <1>14, <1>15, <1>16, CollectedStep

LEMMA CancelCollected ==
  ASSUME PaymentInv, CollectedInv, Ordering, NEW r \in Requests, CancelCommit(r)
  PROVE  CollectedInv'
<1>0. /\ TypeOK /\ order \in [Tables -> Order] /\ pc[r] = "cancel_order"
      /\ req[r].kind \in CarriesOrder
  BY DEF PaymentInv, TypeOK, CancelCommit, StepOK, CarriesOrder
<1>1. PICK t \in Tables : t = req[r].table
  BY <1>0, TableOf
<1>2. PICK p \in work[r].pays : payments' = (payments \ {p}) \cup {Voided(p)}
  BY DEF CancelCommit
<1>3. p \in PaidOf(t) /\ p \in Payment /\ p.table = t /\ p \in payments
  BY <1>0, <1>1 DEF PaymentInv, ReadCurrent, PaidOf, TypeOK
<1>4. Voided(p).status = "voided" /\ Voided(p).amount = p.amount
  BY <1>3 DEF Voided, Payment
<1>5. p.amount > 0 /\ p.amount \in Int
  BY <1>3 DEF CollectedInv, Payment
<1>6. Sum(PaidOf(t)') <= ordered'[t]
  <2> DEFINE rest == PaidOf(t) \ {p}
  <2>1. PaidOf(t)' = rest
    BY <1>2, <1>4 DEF PaidOf
  <2>2. IsFiniteSet(rest) /\ rest \subseteq Payment /\ p \notin rest /\ rest \cup {p} = PaidOf(t)
    BY <1>0, <1>3, PaymentsFinite, FS_Subset
  <2> HIDE DEF rest
  <2>3. Sum(rest \cup {p}) = Sum(rest) + p.amount
    BY <1>3, <2>2, SumAdd
  <2>4. Sum(PaidOf(t)) = Sum(rest) + p.amount
    BY <2>2, <2>3, Zenon
  <2>5. Sum(PaidOf(t)) <= ordered[t] /\ ordered[t] \in Nat /\ ordered'[t] \in Nat
        /\ ordered[t] <= ordered'[t]
    BY OrderedGrows DEF CollectedInv, CollectedWithinOrdered
  <2>6. Sum(rest) <= ordered'[t]
    BY <1>5, <2>4, <2>5, SumInt
  <2>7. QED
    BY <2>1, <2>6, Zenon
<1>7. \A u \in Tables \ {t} : PaidOf(u)' = PaidOf(u)
  BY <1>2, <1>3, <1>4 DEF PaidOf
<1>8. order' = [order EXCEPT ![t].pre = req[r].order.pre]
  BY <1>1 DEF CancelCommit
<1>9. Worth(req[r].order, ordered'[t])
  BY <1>0, <1>1, CarriedWithin
<1>10. Worth(order'[t], ordered'[t]) /\ \A u \in Tables \ {t} : order'[u] = order[u]
  <2>1. Worth(order[t], ordered'[t])
    <3>1. Worth(order[t], ordered[t]) /\ order[t] \in Order
      BY <1>0 DEF CollectedInv
    <3>2. QED
      BY <3>1, OrderedGrows DEF Worth, Order
  <2>2. order'[t].pre = req[r].order.pre /\ order'[t].subtotal = order[t].subtotal
        /\ order'[t].total = order[t].total /\ \A u \in Tables \ {t} : order'[u] = order[u]
    BY <1>0, <1>8 DEF Order
  <2>3. QED
    BY <1>9, <2>1, <2>2 DEF Worth
<1>11. \A u \in Tables : Worth(order'[u], ordered'[u]) /\ Sum(PaidOf(u)') <= ordered'[u]
  <2>1. ASSUME NEW u \in Tables \ {t}
        PROVE  Worth(order'[u], ordered'[u]) /\ Sum(PaidOf(u)') <= ordered'[u]
    BY <1>0, <1>7, <1>10, RowsKept
  <2>2. QED
    BY <1>6, <1>10, <2>1
<1>12. /\ pc'[r] = "reload" /\ UNCHANGED <<items, req, work>>
       /\ \A q \in Requests \ {r} : pc'[q] = pc[q]
  BY <1>0 DEF CancelCommit, Goto, TypeOK
<1>13. ReadWithin(r)'
  BY <1>1, <1>9, <1>12 DEF ReadWithin, PaySteps
<1>14. IsFiniteSet(items') /\ IsFiniteSet(payments') /\ IsFiniteSet(work'[r].write)
  <2>1. IsFiniteSet(items) /\ IsFiniteSet(payments) /\ IsFiniteSet(work[r].write)
    BY DEF CollectedInv, Finite
  <2>2. IsFiniteSet(payments \ {p})
    BY <2>1, FS_Subset
  <2>3. IsFiniteSet(payments')
    BY <1>2, <2>2, FS_AddElement
  <2>4. QED
    BY <1>12, <2>1, <2>3
<1>15. \A q \in payments' : q.amount > 0
  BY <1>2, <1>4, <1>5 DEF CollectedInv
<1>16. QED
  BY <1>0, <1>11, <1>12, <1>13, <1>14, <1>15, CollectedStep

LEMMA NextCollectedInv ==
  LineInv /\ PaymentInv /\ LedgerInv /\ CollectedInv /\ [HNext]_hvars => CollectedInv'
<1> SUFFICES ASSUME LineInv, PaymentInv, LedgerInv, CollectedInv, [HNext]_hvars
             PROVE  CollectedInv'
  OBVIOUS
<1>1. TypeOK
  BY DEF LineInv
<1>2. CASE UNCHANGED hvars
  BY <1>2 DEF hvars, CollectedInv, Finite, LinesOf, CollectedWithinOrdered, PaidOf, ReadWithin
<1>3. CASE HNext
  <2>1. Ordering /\ TypeOK'
    BY <1>1, <1>3, NextType DEF HNext
  <2>2. ASSUME NEW r \in Requests, Receive(r) PROVE CollectedInv'
    BY <1>1, <2>1, <2>2, ReceiveCollected
  <2>3. ASSUME NEW r \in Requests, Progress(r) PROVE CollectedInv'
    BY <1>1, <2>1, <2>3, QuietCollected, AddCollected, SaveCollected, ClearCollected,
       LineWriteCollected, LineCommitCollected, SentWriteCollected, PayReadCollected,
       PayCommitCollected, CancelCollected DEF Progress
  <2>4. ASSUME NEW r \in Requests, Fail(r) \/ DeadlockVictim(r) PROVE CollectedInv'
    BY <1>1, <2>1, <2>4, QuietCollected
  <2>5. QED
    BY <1>3, <2>2, <2>3, <2>4 DEF HNext, Next
<1>4. QED
  BY <1>2, <1>3

\* However the terminals race, void, retry and reuse a table, the payments that stand on
\* it never add up to more than was ever ordered there (route.ts): the charge is limited
\* by a bill read before the commit, and the advisory lock keeps the payments it was
\* compared with.
THEOREM Collected == HSpec => []CollectedWithinOrdered
<1>1. HInit => Init
  BY DEF HInit
<1>2. [HNext]_hvars => [Next]_vars
  BY DEF HNext, hvars, vars
<1>3. CollectedInv => CollectedWithinOrdered
  BY DEF CollectedInv
<1>4. QED
  BY <1>1, <1>2, <1>3, InitCollectedInv, NextCollectedInv, InitLineInv, NextLineInv,
     InitPaymentInv, NextPaymentInv, InitLedgerInv, NextLedgerInv, PTL DEF HSpec

============================================================================
