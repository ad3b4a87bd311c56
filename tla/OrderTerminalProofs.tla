------------------------ MODULE OrderTerminalProofs ------------------------
(***************************************************************************)
(* Theorems about OrderTerminal, for any number of products, requests and  *)
(* terminals.  A payload that was read at any time holds lines of the      *)
(* server only, so a merge takes an optimistic line away for one of them   *)
(* or not at all; and a change of a line is not sent before the one that   *)
(* was sent before it has been answered or given up.                       *)
(***************************************************************************)
EXTENDS OrderTerminalHistory, TLAPS

-----------------------------------------------------------------------------
(* What a merge leaves.                                                     *)

LEMMA MergeFrom ==
  ASSUME NEW local, NEW incoming, NEW isActive, NEW isRecent
  PROVE  Merge(local, incoming, isActive, isRecent) \subseteq local \cup incoming
  BY DEF Merge, Surviving

\* mergeAuthoritativeOrders takes an optimistic line away only for a line of the payload.
LEMMA MergeKeeps ==
  ASSUME NEW local, NEW incoming, NEW isActive, NEW isRecent,
         NEW l \in local, l.optimistic
  PROVE  \/ l \in Merge(local, incoming, isActive, isRecent)
         \/ \E s \in incoming : /\ s \in Merge(local, incoming, isActive, isRecent)
                                /\ s.by = l.id \/ SameKey(l, s)
<1>1. CASE incoming = {}
  BY <1>1 DEF Merge, Kept, HasOptimistic
<1>2. CASE incoming # {}
  BY <1>2 DEF Merge, Surviving
<1> QED BY <1>1, <1>2

-----------------------------------------------------------------------------
(* The invariant.                                                           *)

\* What was read of the server has no optimistic line.
PayloadsPlain ==
  /\ \A m \in Clicks : ~HasOptimistic(click[m].got)
  /\ ~HasOptimistic(get.got)

UnusedBlank == \A m \in Clicks : click[m].stage = "unused" => click[m] = Unused

UsedInOrder == \A m, n \in Clicks : n < m /\ click[m].stage # "unused" => click[n].stage # "unused"

\* When a change of a line was clicked, the earlier ones of the line were not under way.
OneChangeUnderWay ==
  \A m, n \in Clicks :
    (m < n /\ click[m].kind = "change" /\ click[n].kind = "change" /\ SameLine(click[m].line, click[n].line))
    => ~UnderWay(m)

LinesNamed == \A m \in Clicks : click[m].kind = "add" => click[m].line \in Line

TerminalInv == TypeOK /\ PayloadsPlain /\ LinesNamed /\ UnusedBlank /\ UsedInOrder /\ OneChangeUnderWay

LEMMA UnusedType == Unused \in Click
  BY TerminalAssumption DEF Unused, Click, Kinds, Stages

LEMMA InitInv == Init => TerminalInv
<1> SUFFICES ASSUME Init PROVE TerminalInv
  OBVIOUS
<1> USE TerminalAssumption
<1>1. \A p \in Products : OldLine(p) \in Line /\ ~OldLine(p).optimistic
  BY DEF OldLine, Line, Ids
<1>2. Unused \in Click /\ ~HasOptimistic(Unused.got) /\ Unused.stage = "unused" /\ Unused.kind = "save"
  BY UnusedType DEF Unused, HasOptimistic
<1>3. NoGet \in Get /\ ~HasOptimistic(NoGet.got)
  BY DEF NoGet, Get, HasOptimistic
<1>4. TypeOK
  BY <1>1, <1>2, <1>3 DEF Init, TypeOK, HasOptimistic
<1>5. PayloadsPlain /\ LinesNamed /\ UnusedBlank /\ UsedInOrder /\ OneChangeUnderWay
  BY <1>2, <1>3 DEF Init, PayloadsPlain, LinesNamed, UnusedBlank, UsedInOrder, OneChangeUnderWay
<1> QED BY <1>4, <1>5 DEF TerminalInv

-----------------------------------------------------------------------------
(* Parts of the invariant that several steps share.                         *)

ServerLines(lines) ==
  /\ lines \subseteq Line
  /\ ~HasOptimistic(lines)
  /\ \A l, s \in lines : l.product = s.product => l = s

ShownLines(lines) ==
  /\ lines \subseteq Line
  /\ \A l \in lines : l.optimistic => l.id \in Clicks /\ click[l.id].kind = "add"

LEMMA AddedLines ==
  ASSUME NEW lines, ServerLines(lines), NEW m \in Ids, NEW p \in Products
  PROVE  ServerLines(WithProduct(lines, m, p))
<1> DEFINE new == [id |-> m, by |-> m, product |-> p, qty |-> 1, optimistic |-> FALSE]
           more(l) == IF l.product = p THEN [l EXCEPT !.qty = @ + 1, !.by = m] ELSE l
<1>1. new \in Line /\ ~new.optimistic /\ new.product = p
  BY DEF Line
<1>2. \A l \in lines : more(l) \in Line /\ ~more(l).optimistic /\ more(l).product = l.product
  <2> SUFFICES ASSUME NEW l \in lines
               PROVE  more(l) \in Line /\ ~more(l).optimistic /\ more(l).product = l.product
    OBVIOUS
  <2>1. l \in Line /\ ~l.optimistic
    BY DEF ServerLines, HasOptimistic
  <2>2. CASE l.product = p
    <3>1. more(l) = [id |-> l.id, by |-> m, product |-> l.product, qty |-> l.qty + 1, optimistic |-> l.optimistic]
      BY <2>1, <2>2 DEF Line
    <3>2. l.id \in Ids /\ l.product \in Products /\ l.qty + 1 \in Nat
      BY <2>1 DEF Line
    <3> QED BY <2>1, <3>1, <3>2 DEF Line
  <2>3. CASE l.product # p
    BY <2>1, <2>3
  <2> QED BY <2>2, <2>3
<1>3. CASE MatchingRow(lines, p) = {}
  <2>1. \A l \in lines : l.product # p
    BY <1>3 DEF MatchingRow
  <2>2. WithProduct(lines, m, p) = lines \cup {new}
    BY <1>3 DEF WithProduct
  <2> HIDE DEF new
  <2> QED BY <1>1, <2>1, <2>2 DEF ServerLines, HasOptimistic
<1>4. CASE MatchingRow(lines, p) # {}
  <2>1. WithProduct(lines, m, p) = {more(l) : l \in lines}
    BY <1>4 DEF WithProduct
  <2> HIDE DEF more
  <2> QED BY <1>2, <2>1 DEF ServerLines, HasOptimistic
<1> QED BY <1>3, <1>4

LEMMA ChangedLines ==
  ASSUME NEW lines, ServerLines(lines), NEW m \in Ids, NEW line, NEW qty \in Nat
  PROVE  ServerLines(WithChange(lines, m, line, qty))
<1> DEFINE kept == {s \in lines : s.id # line.id \/ qty > 0}
           new(l) == IF l.id = line.id THEN [l EXCEPT !.qty = qty, !.by = m] ELSE l
<1>1. \A l \in lines : new(l) \in Line /\ ~new(l).optimistic /\ new(l).product = l.product
  BY DEF ServerLines, Line, HasOptimistic
<1>2. WithChange(lines, m, line, qty) = {new(l) : l \in kept} /\ kept \subseteq lines
  BY DEF WithChange
<1> HIDE DEF new, kept
<1> QED BY <1>1, <1>2 DEF ServerLines, HasOptimistic

LEMMA SentLines ==
  ASSUME NEW lines, ServerLines(lines), NEW m \in Ids
  PROVE  ServerLines({[l EXCEPT !.by = m] : l \in lines})
<1> DEFINE new(l) == [l EXCEPT !.by = m]
<1>1. \A l \in lines : new(l) \in Line /\ ~new(l).optimistic /\ new(l).product = l.product
  BY DEF ServerLines, Line, HasOptimistic
<1> HIDE DEF new
<1>2. ServerLines({new(l) : l \in lines})
  BY <1>1 DEF ServerLines, HasOptimistic
<1> QED BY <1>2 DEF new

LEMMA NoLines == ServerLines({})
  BY DEF ServerLines, HasOptimistic

\* A merge of a payload leaves lines that may be shown.
LEMMA MergedLines ==
  ASSUME TerminalInv, NEW incoming, incoming \subseteq Line, ~HasOptimistic(incoming), NEW isActive
  PROVE  ShownLines(Reconciled(incoming, isActive))
<1>1. Reconciled(incoming, isActive) \subseteq screen \cup incoming
  BY MergeFrom DEF Reconciled
<1> QED BY <1>1 DEF ShownLines, TerminalInv, TypeOK, HasOptimistic

LEMMA InvOfParts ==
  TypeOK <=> /\ ServerLines(db) /\ ShownLines(screen)
             /\ active \in BOOLEAN /\ guard \in {"young", "recent", "old"}
             /\ click \in [Clicks -> Click] /\ get \in Get /\ spent \subseteq Others
  BY DEF TypeOK, ServerLines, ShownLines

\* A request that moves on keeps its kind and its line, and is not under way again.
Moved(m, c) ==
  /\ c.kind = click[m].kind /\ c.line = click[m].line
  /\ click[m].stage # "unused" /\ c.stage # "unused"
  /\ (c.stage \in {"sent", "committed", "answered"} /\ ~c.lost) => UnderWay(m)
  /\ c \in Click /\ ~HasOptimistic(c.got)

LEMMA MovedInv ==
  ASSUME TerminalInv, NEW m \in Clicks, NEW c, Moved(m, c), click' = [click EXCEPT ![m] = c],
         ServerLines(db'), ShownLines(screen'), UNCHANGED <<active, guard, get, spent>>
  PROVE  TerminalInv'
<1> USE DEF TerminalInv, Moved
<1>0. click \in [Clicks -> Click] /\ click'[m] = c /\ \A n \in Clicks : n # m => click'[n] = click[n]
  BY DEF TypeOK
<1>1. ServerLines(db)' /\ ShownLines(screen)'
  <2>1. \A n \in Clicks : click'[n].kind = click[n].kind
    BY <1>0
  <2> QED BY <2>1 DEF ServerLines, ShownLines, HasOptimistic
<1>2. TypeOK'
  BY <1>0, <1>1 DEF TypeOK, ServerLines, ShownLines
<1>3. PayloadsPlain' /\ LinesNamed'
  BY <1>0 DEF PayloadsPlain, LinesNamed, HasOptimistic
<1>4. UnusedBlank' /\ UsedInOrder'
  BY <1>0 DEF UnusedBlank, UsedInOrder
<1>5. OneChangeUnderWay'
  <2> SUFFICES ASSUME NEW i \in Clicks, NEW n \in Clicks, i < n,
                      click'[i].kind = "change", click'[n].kind = "change",
                      SameLine(click'[i].line, click'[n].line), UnderWay(i)'
               PROVE  FALSE
    BY DEF OneChangeUnderWay, SameLine
  <2>1. UnderWay(i)
    BY <1>0 DEF UnderWay
  <2>2. SameLine(click[i].line, click[n].line) /\ click[i].kind = "change" /\ click[n].kind = "change"
    BY <1>0 DEF SameLine
  <2> QED BY <2>1, <2>2 DEF OneChangeUnderWay
<1> QED BY <1>2, <1>3, <1>4, <1>5

-----------------------------------------------------------------------------
(* The clicks: one request more is used.                                    *)

LEMMA UsedInv ==
  ASSUME TerminalInv, NEW m \in Clicks, IsNext(m), NEW c \in Click,
         c.stage # "unused", ~HasOptimistic(c.got), c.kind = "add" => c.line \in Line,
         c.kind = "change" => \A n \in Clicks :
           (click[n].kind = "change" /\ SameLine(click[n].line, c.line)) => ~UnderWay(n),
         click' = [click EXCEPT ![m] = c],
         screen' \subseteq Line,
         \A l \in screen' : l.optimistic => l.id \in Clicks /\ click'[l.id].kind = "add",
         guard' \in {"young", "recent", "old"}, UNCHANGED <<db, active, get, spent>>
  PROVE  TerminalInv'
<1> USE DEF TerminalInv
<1>0. click \in [Clicks -> Click] /\ click'[m] = c /\ \A n \in Clicks : n # m => click'[n] = click[n]
  BY DEF TypeOK
<1>1. TypeOK'
  BY <1>0 DEF TypeOK, HasOptimistic
<1>2. PayloadsPlain' /\ LinesNamed'
  BY <1>0 DEF PayloadsPlain, LinesNamed, HasOptimistic
<1>3. UnusedBlank' /\ UsedInOrder'
  <2>1. \A n \in Clicks : n < m => click[n].stage # "unused"
    BY DEF IsNext
  <2>2. \A n \in Clicks : n > m => click[n].stage = "unused"
    BY TerminalAssumption DEF UsedInOrder, IsNext, Clicks
  <2> QED BY <1>0, <2>1, <2>2, TerminalAssumption DEF UnusedBlank, UsedInOrder, Clicks
<1>4. OneChangeUnderWay'
  <2> SUFFICES ASSUME NEW i \in Clicks, NEW n \in Clicks, i < n,
                      click'[i].kind = "change", click'[n].kind = "change",
                      SameLine(click'[i].line, click'[n].line), UnderWay(i)'
               PROVE  FALSE
    BY DEF OneChangeUnderWay, SameLine
  <2>1. CASE n = m
    <3>1. i # m /\ click'[i] = click[i]
      BY <1>0, <2>1, TerminalAssumption DEF Clicks
    <3>2. UnderWay(i) /\ click[i].kind = "change" /\ SameLine(click[i].line, c.line)
      BY <1>0, <2>1, <3>1 DEF UnderWay
    <3> QED BY <1>0, <2>1, <3>2
  <2>2. CASE i = m
    <3>1. n # m /\ click[n].stage = "unused"
      BY <2>2, TerminalAssumption DEF UsedInOrder, IsNext, Clicks
    <3>2. click'[n].kind = "save"
      BY <1>0, <3>1 DEF UnusedBlank, Unused
    <3> QED BY <3>2
  <2>3. CASE n # m /\ i # m
    <3>1. click'[i] = click[i] /\ click'[n] = click[n]
      BY <1>0, <2>3
    <3> QED BY <3>1 DEF UnderWay, OneChangeUnderWay, SameLine
  <2> QED BY <2>1, <2>2, <2>3
<1> QED BY <1>1, <1>2, <1>3, <1>4

LEMMA RequestType ==
  ASSUME NEW kind \in Kinds, NEW line \in Line \cup {NoLine}, NEW qty \in 0 .. MaxQty
  PROVE  /\ Request(kind, line, qty) \in Click
         /\ Request(kind, line, qty).kind = kind /\ Request(kind, line, qty).line = line
         /\ Request(kind, line, qty).stage = "sent" /\ ~Request(kind, line, qty).lost
         /\ Request(kind, line, qty).got = {}
<1> DEFINE a == [Unused EXCEPT !.kind = kind]
           b == [a EXCEPT !.line = line]
           c == [b EXCEPT !.qty = qty]
           d == [c EXCEPT !.stage = "sent"]
<1>1. Unused \in Click /\ ~Unused.lost /\ Unused.got = {}
  BY UnusedType DEF Unused
<1>2. a \in Click /\ a.kind = kind /\ ~a.lost /\ a.got = {}
  BY <1>1 DEF Click
<1>3. Request(kind, line, qty) = d
  BY DEF Request
<1> HIDE DEF a
<1>4. b \in Click /\ b.kind = kind /\ b.line = line /\ ~b.lost /\ b.got = {}
  BY <1>2 DEF Click
<1> HIDE DEF b
<1>5. c \in Click /\ c.kind = kind /\ c.line = line /\ ~c.lost /\ c.got = {}
  BY <1>4 DEF Click
<1> HIDE DEF c
<1>6. /\ d \in Click /\ d.kind = kind /\ d.line = line /\ d.stage = "sent" /\ ~d.lost /\ d.got = {}
  BY <1>5 DEF Click, Stages
<1> HIDE DEF d
<1> QED BY <1>3, <1>6

LEMMA OptimisticLineType ==
  ASSUME NEW m \in Clicks, NEW p \in Products
  PROVE  OptimisticLine(m, p) \in Line /\ OptimisticLine(m, p).id = m
  BY DEF OptimisticLine, Line, Ids

LEMMA AddInv == ASSUME TerminalInv, NEW m \in Clicks, NEW p \in Products, Add(m, p) PROVE TerminalInv'
<1> DEFINE c == Request("add", OptimisticLine(m, p), 1)
<1>1. 1 \in 0 .. MaxQty
  BY TerminalAssumption
<1>2. c \in Click /\ c.kind = "add" /\ c.line \in Line /\ c.stage = "sent" /\ c.got = {}
  BY <1>1, RequestType, OptimisticLineType DEF Kinds
<1>3. click' = [click EXCEPT ![m] = c] /\ IsNext(m)
  BY DEF Add
<1>4. screen' \subseteq Line /\ \A l \in screen' : l.optimistic => l.id \in Clicks /\ click'[l.id].kind = "add"
  <2>1. screen' = screen \cup {OptimisticLine(m, p)}
    BY DEF Add
  <2> HIDE DEF c
  <2> QED BY <1>2, <1>3, <2>1, OptimisticLineType DEF TerminalInv, TypeOK
<1> HIDE DEF c
<1> QED BY <1>2, <1>3, <1>4, UsedInv DEF Add, HasOptimistic

LEMMA ChangeInv ==
  ASSUME TerminalInv, NEW m \in Clicks, NEW l \in screen, NEW qty \in 0 .. MaxQty, Change(m, l, qty)
  PROVE  TerminalInv'
<1>0. l \in Line /\ qty \in Nat
  BY TerminalAssumption DEF TerminalInv, TypeOK
<1>1. screen' \subseteq Line /\ \A s \in screen' : s.optimistic => \E r \in screen : r.id = s.id /\ r.optimistic
  <2>1. [l EXCEPT !.qty = qty] \in Line /\ [l EXCEPT !.qty = qty].id = l.id
        /\ [l EXCEPT !.qty = qty].optimistic = l.optimistic
    BY <1>0 DEF Line
  <2> QED BY <2>1 DEF Change, WithQty, TerminalInv, TypeOK
<1>2. ASSUME NEW c \in Click, c.kind # "add", c.stage # "unused", c.got = {},
             c.kind = "change" => c.line = l /\ ~InFlight(l), click' = [click EXCEPT ![m] = c]
      PROVE  TerminalInv'
  <2>1. \A s \in screen' : s.optimistic => s.id \in Clicks /\ click'[s.id].kind = "add"
    <3> SUFFICES ASSUME NEW s \in screen', s.optimistic PROVE s.id \in Clicks /\ click'[s.id].kind = "add"
      OBVIOUS
    <3>1. s.id \in Clicks /\ click[s.id].kind = "add"
      BY <1>1 DEF TerminalInv, TypeOK
    <3>2. click[m].kind = "save"
      BY DEF Change, IsNext, TerminalInv, UnusedBlank, Unused
    <3> QED BY <1>2, <3>1, <3>2 DEF TerminalInv, TypeOK
  <2>2. c.kind = "change" => \A n \in Clicks :
           (click[n].kind = "change" /\ SameLine(click[n].line, c.line)) => ~UnderWay(n)
    BY <1>2 DEF InFlight
  <2> QED BY <1>1, <1>2, <2>1, <2>2, UsedInv DEF Change, HasOptimistic, TerminalInv, TypeOK
<1>3. CASE InFlight(l)
  <2> DEFINE c == [Unused EXCEPT !.stage = "done"]
  <2>1. c \in Click /\ c.kind = "save" /\ c.stage = "done" /\ c.got = {}
    <3>1. Unused \in Click /\ Unused.kind = "save" /\ Unused.got = {}
      BY UnusedType DEF Unused
    <3> QED BY <3>1 DEF Click, Stages
  <2>2. click' = [click EXCEPT ![m] = c]
    BY <1>3 DEF Change
  <2> HIDE DEF c
  <2> QED BY <1>2, <2>1, <2>2
<1>4. CASE ~InFlight(l)
  <2> DEFINE c == Request("change", l, qty)
  <2>1. c \in Click /\ c.kind = "change" /\ c.line = l /\ c.stage = "sent" /\ c.got = {}
    BY <1>0, RequestType DEF Kinds
  <2>2. click' = [click EXCEPT ![m] = c]
    BY <1>4 DEF Change
  <2> HIDE DEF c
  <2> QED BY <1>2, <1>4, <2>1, <2>2
<1> QED BY <1>3, <1>4

LEMMA SendOrPayInv ==
  ASSUME TerminalInv, NEW m \in Clicks, NEW kind \in {"save", "sent", "pay"}, SendOrPay(m, kind)
  PROVE  TerminalInv'
<1> DEFINE c == Request(kind, NoLine, 0)
<1>1. c \in Click /\ c.kind = kind /\ c.stage = "sent" /\ c.got = {}
  BY RequestType, TerminalAssumption DEF Kinds
<1>2. click' = [click EXCEPT ![m] = c] /\ IsNext(m)
  BY DEF SendOrPay
<1> HIDE DEF c
<1>3. \A l \in screen : l.optimistic => l.id \in Clicks /\ click'[l.id].kind = "add"
  <2>1. click[m].kind = "save"
    BY <1>2 DEF IsNext, TerminalInv, UnusedBlank, Unused
  <2> QED BY <1>2, <2>1 DEF TerminalInv, TypeOK
<1> QED BY <1>1, <1>2, <1>3, UsedInv DEF SendOrPay, HasOptimistic, TerminalInv, TypeOK

-----------------------------------------------------------------------------
(* A request moves on.                                                      *)

LEMMA ClickType ==
  ASSUME TerminalInv, NEW m \in Clicks
  PROVE  click[m] \in Click /\ ~HasOptimistic(click[m].got) /\ click[m].got \subseteq Line
  BY DEF TerminalInv, TypeOK, PayloadsPlain, Click

LEMMA SettledMoved ==
  ASSUME TerminalInv, NEW m \in Clicks, click[m].stage # "unused"
  PROVE  Moved(m, Settled(m))
<1> DEFINE a == [click[m] EXCEPT !.stage = "done"]
           b == [a EXCEPT !.qty = 0]
<1>0. a \in Click /\ a.kind = click[m].kind /\ a.line = click[m].line /\ a.stage = "done"
  BY ClickType DEF Click, Stages
<1>2. Settled(m) = [b EXCEPT !.got = {}]
  BY DEF Settled
<1> HIDE DEF a
<1>3. b \in Click /\ b.kind = a.kind /\ b.line = a.line /\ b.stage = "done"
  BY <1>0, TerminalAssumption DEF Click
<1> HIDE DEF b
<1>1. Settled(m) \in Click /\ Settled(m).kind = click[m].kind /\ Settled(m).line = click[m].line
      /\ Settled(m).stage = "done" /\ Settled(m).got = {}
  BY <1>0, <1>2, <1>3 DEF Click
<1> QED BY <1>1 DEF Moved, HasOptimistic

LEMMA CommitInv == ASSUME TerminalInv, NEW m \in Clicks, Commit(m) PROVE TerminalInv'
<1>1. ServerLines(db')
  <2>1. ServerLines(db) /\ m \in Ids /\ click[m] \in Click
    BY ClickType, InvOfParts DEF TerminalInv, Ids
  <2>2. CASE click[m].kind = "add"
    <3>1. db' = WithProduct(db, m, click[m].line.product)
      BY <2>2 DEF Commit, Changed
    <3>2. click[m].line.product \in Products
      BY <2>2 DEF TerminalInv, LinesNamed, Line
    <3> QED BY <2>1, <3>1, <3>2, AddedLines
  <2>3. CASE click[m].kind = "change"
    <3>1. db' = WithChange(db, m, click[m].line, click[m].qty) /\ click[m].qty \in Nat
      BY <2>1, <2>3, TerminalAssumption DEF Commit, Changed, Click
    <3> QED BY <2>1, <3>1, ChangedLines
  <2>4. CASE click[m].kind = "sent"
    <3>1. db' = {[l EXCEPT !.by = m] : l \in db}
      BY <2>4 DEF Commit, Changed
    <3> QED BY <2>1, <3>1, SentLines
  <2>5. CASE click[m].kind = "pay"
    BY <2>5, NoLines DEF Commit, Changed
  <2>6. CASE click[m].kind = "save"
    BY <2>1, <2>6 DEF Commit, Changed
  <2> QED BY <2>1, <2>2, <2>3, <2>4, <2>5, <2>6 DEF Click, Kinds
<1> DEFINE c == [click[m] EXCEPT !.stage = IF click[m].lost THEN "done" ELSE "committed"]
<1>2. Moved(m, c)
  BY ClickType DEF Commit, Moved, UnderWay, Click, Stages
<1>3. click' = [click EXCEPT ![m] = c]
  BY DEF Commit
<1> HIDE DEF c
<1> QED BY <1>1, <1>2, <1>3, InvOfParts, MovedInv DEF Commit, TerminalInv

LEMMA ReadBackInv == ASSUME TerminalInv, NEW m \in Clicks, ReadBack(m) PROVE TerminalInv'
<1> DEFINE c == [click[m] EXCEPT !.stage = "answered", !.got = db]
<1>1. Moved(m, c)
  <2> DEFINE a == [click[m] EXCEPT !.stage = "answered"]
  <2>1. a \in Click /\ a.kind = click[m].kind /\ a.line = click[m].line /\ a.stage = "answered"
        /\ a.lost = click[m].lost
    BY ClickType DEF Click, Stages
  <2>3. c = [a EXCEPT !.got = db]
    OBVIOUS
  <2> HIDE DEF a
  <2>2. db \subseteq Line /\ ~HasOptimistic(db)
    BY DEF TerminalInv, TypeOK
  <2>4. c \in Click /\ c.kind = a.kind /\ c.line = a.line /\ c.stage = "answered"
        /\ c.lost = a.lost /\ c.got = db
    BY <2>1, <2>2, <2>3 DEF Click
  <2> QED BY <2>1, <2>2, <2>4 DEF ReadBack, Moved, UnderWay
<1>2. click' = [click EXCEPT ![m] = c]
  BY DEF ReadBack
<1> HIDE DEF c
<1> QED BY <1>1, <1>2, InvOfParts, MovedInv DEF ReadBack, TerminalInv

LEMMA PlainShown ==
  ASSUME NEW lines, lines \subseteq Line, ~HasOptimistic(lines)
  PROVE  ShownLines(lines)
  BY DEF ShownLines, HasOptimistic

LEMMA AnsweredInv == ASSUME TerminalInv, NEW m \in Clicks, Answered(m) PROVE TerminalInv'
<1>1. ShownLines(screen')
  <2>1. CASE click[m].kind \in {"add", "change"}
    <3>1. screen' = Reconciled(click[m].got, TRUE)
      BY <2>1 DEF Answered
    <3> QED BY <3>1, ClickType, MergedLines
  <2>2. CASE click[m].kind \in {"save", "sent"}
    <3>1. screen' = click[m].got
      BY <2>2 DEF Answered
    <3> QED BY <3>1, ClickType, PlainShown
  <2>3. CASE click[m].kind = "pay"
    BY <2>3 DEF Answered, ShownLines
  <2> QED BY ClickType, <2>1, <2>2, <2>3 DEF Click, Kinds
<1>2. Moved(m, Settled(m)) /\ click' = [click EXCEPT ![m] = Settled(m)]
  BY SettledMoved DEF Answered
<1> QED BY <1>1, <1>2, InvOfParts, MovedInv DEF Answered, TerminalInv

LEMMA FailedInv ==
  ASSUME TerminalInv, NEW m \in Clicks, NEW lost \in BOOLEAN, Failed(m, lost), UnderWay(m)
  PROVE  TerminalInv'
<1>1. screen' \subseteq screen
  BY DEF Failed, RolledBack
<1>2. ShownLines(screen')
  BY <1>1, InvOfParts DEF ShownLines, TerminalInv
<1>3. CASE lost
  <2> DEFINE c == [click[m] EXCEPT !.lost = TRUE]
  <2>1. Moved(m, c)
    BY ClickType DEF Moved, UnderWay, Click
  <2>2. click' = [click EXCEPT ![m] = c]
    BY <1>3 DEF Failed
  <2> HIDE DEF c
  <2> QED BY <1>2, <2>1, <2>2, InvOfParts, MovedInv DEF Failed, TerminalInv
<1>4. CASE ~lost
  <2>1. Moved(m, Settled(m)) /\ click' = [click EXCEPT ![m] = Settled(m)]
    BY <1>4, SettledMoved DEF Failed, UnderWay
  <2> QED BY <1>2, <2>1, InvOfParts, MovedInv DEF Failed, TerminalInv
<1> QED BY <1>3, <1>4

-----------------------------------------------------------------------------
(* The other steps leave the requests as they are.                          *)

LEMMA RestInv ==
  ASSUME TerminalInv, click' = click, ServerLines(db'), ShownLines(screen'),
         active' \in BOOLEAN, guard' \in {"young", "recent", "old"},
         get' \in Get, ~HasOptimistic(get'.got), spent' \subseteq Others
  PROVE  TerminalInv'
<1> USE DEF TerminalInv
<1>1. TypeOK'
  BY DEF TypeOK, ServerLines, ShownLines, HasOptimistic
<1>2. PayloadsPlain' /\ LinesNamed'
  BY DEF PayloadsPlain, LinesNamed, HasOptimistic
<1>3. UnusedBlank' /\ UsedInOrder'
  BY DEF UnusedBlank, UsedInOrder
<1>4. OneChangeUnderWay'
  BY DEF OneChangeUnderWay, UnderWay, SameLine
<1> QED BY <1>1, <1>2, <1>3, <1>4

LEMMA OtherInv == ASSUME TerminalInv, NEW o \in Others, Other(o) PROVE TerminalInv'
<1>1. ServerLines(db) /\ o \in Ids
  BY InvOfParts DEF TerminalInv, Ids
<1>2. ServerLines(db')
  <2>1. CASE \E p \in Products : db' = WithProduct(db, o, p)
    BY <1>1, <2>1, AddedLines
  <2>2. CASE \E l \in db, qty \in 0 .. MaxQty : db' = WithChange(db, o, l, qty)
    BY <1>1, <2>2, ChangedLines, TerminalAssumption
  <2>3. CASE db' = {[l EXCEPT !.by = o] : l \in db}
    BY <1>1, <2>3, SentLines
  <2>4. CASE db' = {}
    BY <2>4, NoLines
  <2> QED BY <2>1, <2>2, <2>3, <2>4 DEF Other
<1> QED BY <1>2, InvOfParts, RestInv DEF Other, TerminalInv, PayloadsPlain

LEMMA MergedInv ==
  ASSUME TerminalInv, NEW isActive, screen' = Reconciled(get.got, isActive), get' = NoGet,
         UNCHANGED <<db, active, guard, click, spent>>
  PROVE  TerminalInv'
<1>1. get.got \subseteq Line /\ ~HasOptimistic(get.got)
  BY DEF TerminalInv, TypeOK, PayloadsPlain, Get
<1>2. ShownLines(screen')
  BY <1>1, MergedLines
<1>3. get' \in Get /\ ~HasOptimistic(get'.got)
  BY DEF NoGet, Get, HasOptimistic
<1> QED BY <1>2, <1>3, InvOfParts, RestInv DEF TerminalInv

LEMMA ReadLinesInv == ASSUME TerminalInv, ReadLines PROVE TerminalInv'
<1>1. get' \in Get /\ ~HasOptimistic(get'.got)
  BY DEF ReadLines, TerminalInv, TypeOK, Get
<1> QED BY <1>1, InvOfParts, RestInv DEF ReadLines, TerminalInv

LEMMA GetFailsInv == ASSUME TerminalInv, GetFails PROVE TerminalInv'
<1>1. get' \in Get /\ ~HasOptimistic(get'.got)
  BY DEF GetFails, AfterFailedGet, NoGet, Get, HasOptimistic
<1> QED BY <1>1, InvOfParts, RestInv DEF GetFails, TerminalInv

LEMMA SelectInv == ASSUME TerminalInv, Select PROVE TerminalInv'
  BY InvOfParts, RestInv DEF Select, TerminalInv, PayloadsPlain

LEMMA GuardAgesInv == ASSUME TerminalInv, GuardAges PROVE TerminalInv'
<1>1. guard' \in {"young", "recent", "old"}
  BY DEF GuardAges
<1> QED BY <1>1, InvOfParts, RestInv DEF GuardAges, TerminalInv, PayloadsPlain

LEMMA NextInv == TerminalInv /\ [Next]_vars => TerminalInv'
<1> SUFFICES ASSUME TerminalInv, [Next]_vars PROVE TerminalInv'
  OBVIOUS
<1>1. ASSUME NEW m \in Clicks, Cashier(m) PROVE TerminalInv'
  BY <1>1, AddInv, ChangeInv, SendOrPayInv DEF Cashier
<1>2. ASSUME NEW m \in Clicks, Commit(m) \/ ReadBack(m) \/ Answered(m) PROVE TerminalInv'
  BY <1>2, CommitInv, ReadBackInv, AnsweredInv
<1>3. ASSUME NEW m \in Clicks, Refuse(m) \/ GiveUp(m) PROVE TerminalInv'
  BY <1>3, FailedInv DEF Refuse, GiveUp
<1>4. ASSUME NEW o \in Others, Other(o) PROVE TerminalInv'
  BY <1>4, OtherInv
<1>5. CASE Select \/ GuardAges \/ ReadLines \/ GetFails
  BY <1>5, SelectInv, GuardAgesInv, ReadLinesInv, GetFailsInv
<1>6. CASE PollAnswered
  BY <1>6, MergedInv DEF PollAnswered
<1>7. CASE LoadAnswered
  BY <1>7, MergedInv DEF LoadAnswered
<1>8. CASE UNCHANGED vars
  BY <1>8, InvOfParts, RestInv DEF vars, TerminalInv, PayloadsPlain
<1> QED BY <1>1, <1>2, <1>3, <1>4, <1>5, <1>6, <1>7, <1>8 DEF Next

\* The invariant holds in every state.
THEOREM Invariance == Spec => []TerminalInv
<1>1. Init => TerminalInv
  BY InitInv
<1>2. TerminalInv /\ [Next]_vars => TerminalInv'
  BY NextInv
<1> QED BY <1>1, <1>2, PTL DEF Spec

\* The lines of the server, of the screen, the requests and the payloads keep
\* their types; the server has no optimistic line and one line per product.
THEOREM TypeCorrect == Spec => []TypeOK
<1>1. TerminalInv => TypeOK
  BY DEF TerminalInv
<1> QED BY <1>1, Invariance, PTL

-----------------------------------------------------------------------------
(* The line of an add that is under way.                                    *)

Pending(l) == l \in screen /\ l.optimistic /\ UnderWay(l.id)

\* l is still there, or a line of the server has taken its place.
StaysOrTaken(l) == \E s \in screen' : s.id = l.id \/ (~s.optimistic /\ (s.by = l.id \/ SameKey(l, s)))

LEMMA MergeStays ==
  ASSUME NEW l, Pending(l), NEW incoming, incoming \subseteq Line, ~HasOptimistic(incoming),
         NEW isActive, screen' = Reconciled(incoming, isActive)
  PROVE  StaysOrTaken(l)
<1>1. \/ l \in screen'
      \/ \E s \in incoming : s \in screen' /\ (s.by = l.id \/ SameKey(l, s))
  BY MergeKeeps DEF Reconciled, Pending
<1> QED BY <1>1 DEF StaysOrTaken, HasOptimistic

\* rollbackOrderMutation takes no other request's line away.
LEMMA FailedStays ==
  ASSUME TerminalInv, NEW l, Pending(l), NEW m \in Clicks, NEW lost \in BOOLEAN, Failed(m, lost),
         UnderWay(l.id)'
  PROVE  StaysOrTaken(l)
<1>1. l \in screen' \/ l.id = m
  BY DEF Failed, RolledBack, Pending
<1>2. ~UnderWay(m)'
  <2>0. click \in [Clicks -> Click] /\ click[m] \in Click
    BY DEF TerminalInv, TypeOK
  <2>1. CASE lost
    <3>1. [click[m] EXCEPT !.lost = TRUE].lost
      BY <2>0 DEF Click
    <3>2. click'[m] = [click[m] EXCEPT !.lost = TRUE]
      BY <2>0, <2>1 DEF Failed
    <3> QED BY <3>1, <3>2 DEF UnderWay
  <2>2. CASE ~lost
    <3>1. click'[m] = Settled(m)
      BY <2>0, <2>2 DEF Failed
    <3>2. Settled(m).stage = "done"
      BY <2>0 DEF Settled, Click
    <3> QED BY <3>1, <3>2 DEF UnderWay
  <2> QED BY <2>1, <2>2
<1> QED BY <1>1, <1>2 DEF StaysOrTaken

\* A request that is made is used.
LEMMA CashierUses ==
  ASSUME TerminalInv, NEW m \in Clicks, Cashier(m)
  PROVE  click[m].stage = "unused" /\ click'[m].stage \in {"sent", "done"}
<1>0. click \in [Clicks -> Click] /\ Unused \in Click
  BY UnusedType DEF TerminalInv, TypeOK
<1>1. ASSUME NEW kind, NEW line, NEW qty PROVE Request(kind, line, qty).stage = "sent"
  BY DEF Request, Unused
<1>2. [Unused EXCEPT !.stage = "done"].stage = "done"
  BY <1>0 DEF Click
<1>3. CASE \E p \in Products : Add(m, p)
  BY <1>0, <1>1, <1>3 DEF Add, IsNext
<1>4. CASE \E l \in screen, qty \in 0 .. MaxQty : Change(m, l, qty)
  BY <1>0, <1>1, <1>2, <1>4 DEF Change, IsNext
<1>5. CASE \E kind \in {"save", "sent", "pay"} : SendOrPay(m, kind)
  BY <1>0, <1>1, <1>5 DEF SendOrPay, IsNext
<1> QED BY <1>3, <1>4, <1>5 DEF Cashier

LEMMA PendingStep ==
  ASSUME TerminalInv, [Next]_vars, NEW l, Pending(l), UnderWay(l.id)', ~StaysOrTaken(l)
  PROVE  \E m \in Clicks : \/ Change(m, l, 0)
                           \/ Answered(m) /\ click[m].kind \in {"save", "sent", "pay"}
<1>1. ASSUME NEW m \in Clicks, Cashier(m)
      PROVE  Change(m, l, 0)
  <2>1. ~\E p \in Products : Add(m, p)
    BY DEF Add, StaysOrTaken, Pending
  <2>2. ~\E kind \in {"save", "sent", "pay"} : SendOrPay(m, kind)
    BY DEF SendOrPay, StaysOrTaken, Pending
  <2>3. PICK s \in screen, qty \in 0 .. MaxQty : Change(m, s, qty)
    BY <1>1, <2>1, <2>2 DEF Cashier
  <2>4. s = l
    BY <2>3 DEF Change, WithQty, StaysOrTaken, Pending
  <2>5. [l EXCEPT !.qty = qty].id = l.id
    BY DEF Pending, TerminalInv, TypeOK, Line
  <2>6. qty = 0
    BY <2>3, <2>4, <2>5 DEF Change, WithQty, StaysOrTaken
  <2> QED BY <2>3, <2>4, <2>6
<1>2. ASSUME screen' = screen PROVE FALSE
  BY <1>2 DEF StaysOrTaken, Pending
<1>3. ASSUME NEW m \in Clicks, Answered(m) PROVE click[m].kind \in {"save", "sent", "pay"}
  <2>1. CASE click[m].kind \in {"add", "change"}
    <3>1. screen' = Reconciled(click[m].got, TRUE)
      BY <1>3, <2>1 DEF Answered
    <3> QED BY <3>1, ClickType, MergeStays
  <2> QED BY <2>1, ClickType DEF Click, Kinds
<1>4. ASSUME NEW m \in Clicks, Refuse(m) \/ GiveUp(m) PROVE FALSE
  BY <1>4, FailedStays DEF Refuse, GiveUp
<1>5. ASSUME NEW isActive, screen' = Reconciled(get.got, isActive) PROVE FALSE
  BY <1>5, MergeStays DEF TerminalInv, TypeOK, PayloadsPlain, Get
<1>6. ASSUME NEW m \in Clicks, Commit(m) \/ ReadBack(m) PROVE FALSE
  BY <1>2, <1>6 DEF Commit, ReadBack
<1>7. CASE Select \/ GuardAges \/ ReadLines \/ GetFails \/ (\E o \in Others : Other(o)) \/ UNCHANGED vars
  BY <1>2, <1>7 DEF Select, GuardAges, ReadLines, GetFails, Other, vars
<1>8. CASE PollAnswered \/ LoadAnswered
  BY <1>5, <1>8 DEF PollAnswered, LoadAnswered
<1> QED BY <1>1, <1>3, <1>4, <1>6, <1>7, <1>8 DEF Next

\* mergeAuthoritativeOrders and rollbackOrderMutation: whatever is polled, loaded or
\* answered, and in whatever order, the line of an add that is under way leaves the
\* screen only by what the cashier does or for the line of the server that it became.
THEOREM PendingStays == Spec => PendingLineStays
<1>1. TerminalInv /\ [Next]_vars => [\A l \in screen :
         (l.optimistic /\ UnderWay(l.id) /\ UnderWay(l.id)'
           /\ ~\E s \in screen' : s.id = l.id \/ (~s.optimistic /\ (s.by = l.id \/ SameKey(l, s))))
         => \E m \in Clicks : \/ Change(m, l, 0)
                              \/ Answered(m) /\ click[m].kind \in {"save", "sent", "pay"}]_vars
  BY PendingStep DEF Pending, StaysOrTaken
<1> QED BY <1>1, Invariance, PTL DEF Spec, PendingLineStays

-----------------------------------------------------------------------------
\* The check for a change in flight keeps two changes of a line apart: when the
\* server takes a change that the terminal still waits for, no later one of the
\* line has been sent.
THEOREM NewerStays == Spec => NewerChangeStays
<1>1. TerminalInv /\ [Next]_vars => [\A m, n \in Clicks :
         (m < n /\ click[m].kind = "change" /\ click[n].kind = "change"
           /\ SameLine(click[m].line, click[n].line))
         => ~(Commit(m) /\ ~click[m].lost /\ click[n].stage # "sent")]_vars
  BY DEF TerminalInv, OneChangeUnderWay, Commit, UnderWay
<1> QED BY <1>1, Invariance, PTL DEF Spec, NewerChangeStays

-----------------------------------------------------------------------------
(* Optimistic lines that no request stands for.                             *)

\* What an add read after its commit holds its row, or the row was overtaken.
ReadKnows ==
  \A m \in Clicks : (click[m].kind = "add" /\ click[m].stage = "answered") =>
    m \in overtaken \/ \E s \in click[m].got : s.by = m

GhostInv == GhostsWereOvertaken /\ ReadKnows

LEMMA InitGhost == HInit => GhostInv
<1> SUFFICES ASSUME HInit PROVE GhostInv
  OBVIOUS
<1>1. \A m \in Clicks : click[m].kind # "add"
  BY DEF HInit, Init, Unused
<1> QED BY <1>1 DEF HInit, Init, GhostInv, GhostsWereOvertaken, ReadKnows

\* Each optimistic line was there, and its request is as it was or under way.
LEMMA GhostsKept ==
  ASSUME GhostsWereOvertaken, overtaken \subseteq overtaken',
         \A l \in screen' : l.optimistic =>
           UnderWay(l.id)' \/ l.id \in overtaken'
             \/ ((\E k \in screen : k.id = l.id /\ k.optimistic) /\ (UnderWay(l.id) => UnderWay(l.id)'))
  PROVE  GhostsWereOvertaken'
  BY DEF GhostsWereOvertaken

LEMMA CashierGhosts ==
  ASSUME TerminalInv, GhostInv, overtaken \subseteq overtaken', NEW m \in Clicks, Cashier(m)
  PROVE  GhostInv'
<1>0. /\ click \in [Clicks -> Click] /\ screen \subseteq Line
      /\ \A l \in screen : l.optimistic => l.id \in Clicks /\ click[l.id].kind = "add"
      /\ click[m].kind = "save"
  <2>1. click[m].stage = "unused"
    BY CashierUses
  <2> QED BY <2>1 DEF TerminalInv, TypeOK, UnusedBlank, Unused
<1>1. \A n \in Clicks \ {m} : click'[n] = click[n]
  BY <1>0 DEF Cashier, Add, Change, SendOrPay
<1>2. ~(click'[m].kind = "add" /\ click'[m].stage = "answered")
  BY CashierUses
<1>3. ReadKnows'
  BY <1>1, <1>2 DEF GhostInv, ReadKnows
<1>4. CASE \E p \in Products : Add(m, p)
  <2>1. PICK p \in Products : Add(m, p)
    BY <1>4
  <2>2. UnderWay(m)'
    <3>1. 1 \in 0 .. MaxQty
      BY TerminalAssumption
    <3>2. /\ Request("add", OptimisticLine(m, p), 1).stage = "sent"
          /\ ~Request("add", OptimisticLine(m, p), 1).lost
      BY <3>1, RequestType, OptimisticLineType DEF Kinds
    <3> QED BY <1>0, <2>1, <3>2 DEF Add, UnderWay
  <2>3. \A l \in screen' : l \in screen \/ l.id = m
    BY <2>1, OptimisticLineType DEF Add
  <2> QED BY <1>0, <1>1, <1>3, <2>2, <2>3, GhostsKept DEF GhostInv, UnderWay
<1>5. CASE \E l \in screen, qty \in 0 .. MaxQty : Change(m, l, qty)
  <2>1. PICK l \in screen, qty \in 0 .. MaxQty : Change(m, l, qty)
    BY <1>5
  <2>2. [l EXCEPT !.qty = qty].id = l.id /\ [l EXCEPT !.qty = qty].optimistic = l.optimistic
    BY <1>0 DEF Line
  <2>3. \A k \in screen' : k.optimistic => \E j \in screen : j.id = k.id /\ j.optimistic
    BY <2>1, <2>2 DEF Change, WithQty
  <2>4. \A k \in screen' : k.optimistic => k.id \in Clicks \ {m}
    BY <1>0, <2>3
  <2> QED BY <1>0, <1>1, <1>3, <2>3, <2>4, GhostsKept DEF GhostInv, UnderWay
<1>6. CASE \E kind \in {"save", "sent", "pay"} : SendOrPay(m, kind)
  <2>1. screen' = screen
    BY <1>6 DEF SendOrPay
  <2> QED BY <1>0, <1>1, <1>3, <2>1, GhostsKept DEF GhostInv, UnderWay
<1> QED BY <1>4, <1>5, <1>6 DEF Cashier

\* The answer of an add that holds its row takes the optimistic line away.
LEMMA AnsweredGhosts ==
  ASSUME TerminalInv, GhostInv, overtaken \subseteq overtaken', NEW m \in Clicks, Answered(m)
  PROVE  GhostInv'
<1>0. /\ click \in [Clicks -> Click] /\ click[m] \in Click /\ ~HasOptimistic(click[m].got)
      /\ \A l \in screen : l.optimistic => l.id \in Clicks /\ click[l.id].kind = "add"
  BY ClickType DEF TerminalInv, TypeOK
<1>1. click'[m] = Settled(m) /\ \A n \in Clicks \ {m} : click'[n] = click[n]
  BY <1>0 DEF Answered
<1>2. Settled(m).stage = "done"
  BY <1>0 DEF Settled, Click
<1>3. ReadKnows'
  BY <1>1, <1>2 DEF GhostInv, ReadKnows
<1>4. \A l \in screen' : l.optimistic => l \in screen
  <2>1. CASE click[m].kind \in {"add", "change"}
    BY <1>0, <2>1, MergeFrom DEF Answered, Reconciled, HasOptimistic
  <2>2. CASE click[m].kind \in {"save", "sent", "pay"}
    BY <1>0, <2>2 DEF Answered, HasOptimistic
  <2> QED BY <1>0, <2>1, <2>2 DEF Click, Kinds
<1>5. \A l \in screen' : (l.optimistic /\ l.id = m) => m \in overtaken
  <2> SUFFICES ASSUME NEW l \in screen', l.optimistic, l.id = m, m \notin overtaken
               PROVE  FALSE
    OBVIOUS
  <2>1. click[m].kind = "add" /\ click[m].stage = "answered"
    BY <1>0, <1>4 DEF Answered
  <2>2. PICK s \in click[m].got : s.by = m
    BY <2>1 DEF GhostInv, ReadKnows
  <2>3. screen' = click[m].got \cup Surviving(screen, click[m].got)
    BY <2>1, <2>2 DEF Answered, Reconciled, Merge
  <2> QED BY <1>0, <2>2, <2>3 DEF Surviving, HasOptimistic
<1> QED BY <1>0, <1>1, <1>3, <1>4, <1>5, GhostsKept DEF GhostInv, UnderWay

LEMMA FailedGhosts ==
  ASSUME TerminalInv, GhostInv, overtaken \subseteq overtaken', NEW m \in Clicks,
         NEW lost \in BOOLEAN, Failed(m, lost), lost => click[m].stage = "sent"
  PROVE  GhostInv'
<1>0. /\ click \in [Clicks -> Click] /\ click[m] \in Click
      /\ \A l \in screen : l.optimistic => l.id \in Clicks /\ click[l.id].kind = "add"
  BY DEF TerminalInv, TypeOK
<1>1. \A n \in Clicks \ {m} : click'[n] = click[n]
  BY <1>0 DEF Failed
<1>2. click'[m].stage # "answered"
  <2>1. CASE lost
    <3>1. click'[m] = [click[m] EXCEPT !.lost = TRUE]
      BY <1>0, <2>1 DEF Failed
    <3> QED BY <1>0, <2>1, <3>1 DEF Click
  <2>2. CASE ~lost
    <3>1. click'[m] = Settled(m)
      BY <1>0, <2>2 DEF Failed
    <3> QED BY <1>0, <3>1 DEF Settled, Click
  <2> QED BY <2>1, <2>2
<1>3. ReadKnows'
  BY <1>1, <1>2 DEF GhostInv, ReadKnows
<1>4. \A l \in screen' : l \in screen /\ (l.optimistic => l.id # m)
  BY <1>0 DEF Failed, RolledBack
<1> QED BY <1>0, <1>1, <1>3, <1>4, GhostsKept DEF GhostInv, UnderWay

\* The server's steps: what is read without the row of an add was overtaken.
LEMMA ServerGhosts ==
  ASSUME TerminalInv, GhostInv, HNext, NEW m \in Clicks, Commit(m) \/ ReadBack(m)
  PROVE  GhostInv'
<1>0. click \in [Clicks -> Click] /\ click[m] \in Click /\ overtaken \subseteq overtaken'
      /\ screen' = screen
  BY DEF TerminalInv, TypeOK, HNext, Commit, ReadBack
<1>1. \A n \in Clicks \ {m} : click'[n] = click[n]
  BY <1>0 DEF Commit, ReadBack
<1>2. click'[m].kind = click[m].kind /\ (UnderWay(m) => UnderWay(m)')
  BY <1>0 DEF Commit, ReadBack, UnderWay, Click
<1>3. GhostsWereOvertaken'
  <2>1. \A n \in Clicks : UnderWay(n) => UnderWay(n)'
    BY <1>1, <1>2 DEF UnderWay
  <2> QED BY <1>0, <2>1, GhostsKept DEF GhostInv, TerminalInv, TypeOK
<1>4. (click'[m].kind = "add" /\ click'[m].stage = "answered") =>
        m \in overtaken' \/ \E s \in click'[m].got : s.by = m
  <2>1. CASE Commit(m)
    BY <1>0, <2>1 DEF Commit, Click
  <2>2. CASE ReadBack(m)
    <3>1. click'[m].got = db /\ db' = db /\ click[m].stage = "committed"
      BY <1>0, <2>2 DEF ReadBack, Click
    <3> QED BY <1>2, <3>1 DEF HNext
  <2> QED BY <2>1, <2>2
<1>5. ReadKnows'
  BY <1>0, <1>1, <1>4 DEF GhostInv, ReadKnows
<1> QED BY <1>3, <1>5 DEF GhostInv

LEMMA RestGhosts ==
  ASSUME TerminalInv, GhostInv, overtaken \subseteq overtaken', click' = click,
         \A l \in screen' : l.optimistic => l \in screen
  PROVE  GhostInv'
<1>1. ReadKnows'
  BY DEF GhostInv, ReadKnows
<1> QED BY <1>1, GhostsKept DEF GhostInv, UnderWay

LEMMA NextGhost == TerminalInv /\ GhostInv /\ [HNext]_hvars => GhostInv'
<1> SUFFICES ASSUME TerminalInv, GhostInv, [HNext]_hvars PROVE GhostInv'
  OBVIOUS
<1>1. CASE UNCHANGED hvars
  BY <1>1 DEF hvars, GhostInv, GhostsWereOvertaken, ReadKnows, UnderWay
<1>2. CASE HNext
  <2>0. Next /\ overtaken \subseteq overtaken'
    BY <1>2 DEF HNext
  <2>1. ASSUME NEW m \in Clicks, Cashier(m) \/ Answered(m) PROVE GhostInv'
    BY <2>0, <2>1, CashierGhosts, AnsweredGhosts
  <2>2. ASSUME NEW m \in Clicks, Commit(m) \/ ReadBack(m) PROVE GhostInv'
    BY <1>2, <2>2, ServerGhosts
  <2>3. ASSUME NEW m \in Clicks, Refuse(m) \/ GiveUp(m) PROVE GhostInv'
    BY <2>0, <2>3, FailedGhosts DEF Refuse, GiveUp
  <2>4. ASSUME NEW isActive, screen' = Reconciled(get.got, isActive), click' = click PROVE GhostInv'
    <3>1. \A l \in screen' : l.optimistic => l \in screen
      BY <2>4, MergeFrom DEF Reconciled, TerminalInv, PayloadsPlain, HasOptimistic
    <3> QED BY <2>0, <2>4, <3>1, RestGhosts
  <2>5. CASE PollAnswered \/ LoadAnswered
    BY <2>4, <2>5 DEF PollAnswered, LoadAnswered
  <2>6. CASE Select \/ GuardAges \/ ReadLines \/ GetFails \/ \E o \in Others : Other(o)
    BY <2>0, <2>6, RestGhosts DEF Select, GuardAges, ReadLines, GetFails, Other
  <2> QED BY <2>0, <2>1, <2>2, <2>3, <2>5, <2>6 DEF Next
<1> QED BY <1>1, <1>2

\* mergeAuthoritativeOrders and rollbackOrderMutation leave no optimistic line behind
\* when its request is over, but for an add whose row was changed before it was read.
THEOREM Ghosts == HSpec => []GhostsWereOvertaken
<1>1. HInit => Init
  BY DEF HInit
<1>2. [HNext]_hvars => [Next]_vars
  BY DEF HNext, hvars, vars
<1>3. GhostInv => GhostsWereOvertaken
  BY DEF GhostInv
<1> QED BY <1>1, <1>2, <1>3, InitInv, NextInv, InitGhost, NextGhost, PTL DEF HSpec
=============================================================================
