------------------------- MODULE RuntimeStateProofs -------------------------
(***************************************************************************)
(* For any number of tabs, tenants, keys and requests: the tenants' values *)
(* are kept apart, a recent write stays, and the table state never goes    *)
(* back.  The first needs an invariant over everything that is on its way: *)
(* what a request has read is the value of the tenant it says (AnswerOK),  *)
(* what lies in a tab's mail is of that tab's tenant (MailPart), and no    *)
(* value is given to a second tenant (MadePart).  There is one part for    *)
(* each variable, and an action preserves them one by one.  A written      *)
(* value is posted: only a save, a lost session or a change of tenant      *)
(* stops the timer (FlushStays).                                           *)
(***************************************************************************)
EXTENDS RuntimeStateHistory, FiniteSetTheorems, TLAPS

TabPart ==
  /\ tab \in [Tabs -> Tab]
  /\ \A t \in Tabs : tab[t].tenant # Anonymous => MadeFor(tab[t].tenant, tab[t].store)

MailPart ==
  /\ mail \in [Tabs -> Seq(Store)]
  /\ \A t \in Tabs : tab[t].tenant # Anonymous =>
       \A i \in 1 .. Len(mail[t]) : MadeFor(tab[t].tenant, mail[t][i])

RowPart ==
  /\ row \in [Tenants -> Snapshot \cup {NoRow}]
  /\ \A u \in Tenants : row[u] # NoRow =>
       row[u].of \in {Anonymous, u} /\ MadeFor(u, row[u].store)

\* A snapshot a client may be sent.
Apart(snapshot) ==
  snapshot = Empty \/ (snapshot.of \in Tenants /\ MadeFor(snapshot.of, snapshot.store))

AnswerOK(r) ==
  r.kind # "none" =>
    /\ Apart(r.got)
    /\ r.stage \in {"read", "prune"} => r.target \in Tenants /\ r.got.of \in {Anonymous, r.target}

CallPart ==
  /\ call \in [Calls -> Call \cup {NoCall}]
  /\ \A c \in Calls : AnswerOK(call[c])

MadePart ==
  /\ made \in [1 .. MaxWrites -> Tenants \cup {Anonymous}]
  /\ session \in Tenants \cup {Anonymous}
  /\ \E n \in 0 .. MaxWrites : Written = 1 .. n

RuntimeInv == TabPart /\ MailPart /\ RowPart /\ CallPart /\ MadePart

\* Values are never given to another tenant.
MadeStays == \A n \in 1 .. MaxWrites : made[n] # Anonymous => made'[n] = made[n]

-----------------------------------------------------------------------------
(* Stores.                                                                  *)

LEMMA NothingMade ==
  /\ Nothing \in Store /\ \A u \in Tenants : MadeFor(u, Nothing)
  /\ \A k \in Keys : Nothing[k] = 0
  BY RuntimeAssumption DEF Nothing, Store, Versions, MadeFor

LEMMA OverlayMade ==
  ASSUME NEW base \in Store, NEW top \in Store
  PROVE  /\ Overlay(base, top) \in Store
         /\ \A u \in Tenants : MadeFor(u, base) /\ MadeFor(u, top) => MadeFor(u, Overlay(base, top))
  BY DEF Overlay, Store, MadeFor

LEMMA PrunedMade ==
  ASSUME NEW store \in Store
  PROVE  /\ Pruned(store) \in Store
         /\ \A u \in Tenants : MadeFor(u, store) => MadeFor(u, Pruned(store))
  BY RuntimeAssumption DEF Pruned, Store, Versions, MadeFor

LEMMA MadeForStays ==
  ASSUME MadeStays, NEW u \in Tenants, NEW store \in Store, MadeFor(u, store)
  PROVE  MadeFor(u, store)'
  BY RuntimeAssumption DEF MadeStays, MadeFor, Store, Versions

LEMMA EmptyTyped ==
  /\ Empty \in Snapshot /\ Empty.of = Anonymous /\ Empty.store = Nothing
  /\ Apart(Empty)
  BY NothingMade DEF Empty, Snapshot, Apart

LEMMA NewTabTyped ==
  ASSUME NEW u \in Tenants \cup {Anonymous}
  PROVE  NewTab(u) \in Tab /\ NewTab(u).tenant = u /\ NewTab(u).store = Nothing
  BY NothingMade DEF NewTab, Tab

\* What a merge makes of a snapshot of the right tenant, or of another one.
LEMMA MergedMade ==
  ASSUME TabPart, NEW t \in Tabs, NEW snapshot \in Snapshot,
         tab[t].tenant \in Tenants /\ snapshot.of \in {Anonymous, tab[t].tenant} =>
           MadeFor(tab[t].tenant, snapshot.store)
  PROVE  /\ Merged(t, snapshot) \in Store
         /\ tab[t].tenant # Anonymous => MadeFor(tab[t].tenant, Merged(t, snapshot))
<1> DEFINE over == Overlay(tab[t].store, snapshot.store)
           mixed == [k \in Keys |-> IF k \in LocalIsNewer(t, snapshot.store) THEN tab[t].store[k] ELSE over[k]]
<1>1. tab[t] \in Tab /\ tab[t].store \in Store /\ snapshot.store \in Store
  BY DEF TabPart, Tab, Snapshot
<1>2. over \in Store
  BY <1>1, OverlayMade
<1>3. mixed \in Store
  BY <1>1, <1>2 DEF Store
<1>4. CASE ~IdentityMatches(t, snapshot)
  BY <1>1, <1>4 DEF Merged, TabPart
<1>5. CASE IdentityMatches(t, snapshot)
  <2>1. Merged(t, snapshot) = mixed
    BY <1>5 DEF Merged
  <2>2. ASSUME tab[t].tenant # Anonymous PROVE MadeFor(tab[t].tenant, mixed)
    <3>1. tab[t].tenant \in Tenants /\ MadeFor(tab[t].tenant, tab[t].store)
      BY <1>1, <2>2 DEF TabPart, Tab
    <3>2. MadeFor(tab[t].tenant, snapshot.store)
      BY <1>5, <2>2, <3>1 DEF IdentityMatches
    <3>3. MadeFor(tab[t].tenant, over)
      BY <1>1, <3>1, <3>2, OverlayMade
    <3>4. QED
      BY <3>1, <3>3 DEF MadeFor
  <2>3. QED
    BY <1>3, <2>1, <2>2
<1>6. QED
  BY <1>4, <1>5

LEMMA ApartMade ==
  ASSUME NEW snapshot \in Snapshot, Apart(snapshot)
  PROVE  \A u \in Tenants : snapshot.of \in {Anonymous, u} => MadeFor(u, snapshot.store)
  BY NothingMade, EmptyTyped, RuntimeAssumption DEF Apart

-----------------------------------------------------------------------------
(* What a step that writes one place, or none, of a variable preserves.     *)

LEMMA TabKept == ASSUME RuntimeInv, MadeStays, tab' = tab PROVE TabPart'
<1>1. TabPart
  BY DEF RuntimeInv
<1>2. \A t \in Tabs : tab[t].store \in Store /\ tab[t].tenant \in Tenants \cup {Anonymous}
  BY <1>1 DEF TabPart, Tab
<1>3. \A t \in Tabs : tab[t].tenant # Anonymous => MadeFor(tab[t].tenant, tab[t].store)'
  <2>1. SUFFICES ASSUME NEW t \in Tabs, tab[t].tenant # Anonymous
                 PROVE  \A k \in Keys : tab[t].store[k] = 0 \/ made'[tab[t].store[k]] = tab[t].tenant
    BY DEF MadeFor
  <2>2. MadeFor(tab[t].tenant, tab[t].store)
    BY <1>1, <2>1 DEF TabPart
  <2>3. QED
    BY <1>2, <2>1, <2>2, MadeForStays DEF MadeFor
<1>4. QED
  BY <1>1, <1>3 DEF TabPart

LEMMA TabSet ==
  ASSUME RuntimeInv, MadeStays, NEW t \in Tabs, NEW new \in Tab, tab' = [tab EXCEPT ![t] = new],
         new.tenant # Anonymous =>
           \A k \in Keys : new.store[k] = 0 \/ made'[new.store[k]] = new.tenant
  PROVE  TabPart'
<1>1. TabPart /\ \A o \in Tabs : tab[o].store \in Store /\ tab[o].tenant \in Tenants \cup {Anonymous}
  BY DEF RuntimeInv, TabPart, Tab
<1>2. tab' \in [Tabs -> Tab] /\ tab'[t] = new /\ \A o \in Tabs \ {t} : tab'[o] = tab[o]
  BY <1>1 DEF TabPart
<1>3. \A o \in Tabs \ {t} : tab[o].tenant # Anonymous =>
        \A k \in Keys : tab[o].store[k] = 0 \/ made'[tab[o].store[k]] = tab[o].tenant
  BY <1>1, MadeForStays DEF TabPart, MadeFor
<1>4. QED
  BY <1>2, <1>3 DEF TabPart, MadeFor

\* The common case: what the tab shows, and whose it is, stays.
LEMMA TabTouched ==
  ASSUME RuntimeInv, MadeStays, NEW t \in Tabs, NEW new \in Tab, tab' = [tab EXCEPT ![t] = new],
         new.tenant = tab[t].tenant, new.store = tab[t].store
  PROVE  TabPart' /\ \A o \in Tabs : tab'[o].tenant = tab[o].tenant
<1>1. TabPart /\ tab[t].store \in Store /\ tab[t].tenant \in Tenants \cup {Anonymous}
  BY DEF RuntimeInv, TabPart, Tab
<1>2. new.tenant # Anonymous => \A k \in Keys : new.store[k] = 0 \/ made'[new.store[k]] = new.tenant
  BY <1>1, MadeForStays DEF TabPart, MadeFor
<1>3. \A o \in Tabs : tab'[o].tenant = tab[o].tenant
  BY <1>1 DEF TabPart
<1>4. QED
  BY <1>2, <1>3, TabSet

LEMMA MailKept ==
  ASSUME RuntimeInv, MadeStays, mail' = mail, \A o \in Tabs : tab'[o].tenant = tab[o].tenant
  PROVE  MailPart'
<1>1. MailPart /\ TabPart
  BY DEF RuntimeInv
<1>2. \A t \in Tabs : tab[t].tenant \in Tenants \cup {Anonymous}
                      /\ \A i \in 1 .. Len(mail[t]) : mail[t][i] \in Store
  BY <1>1 DEF TabPart, Tab, MailPart
<1>3. \A t \in Tabs : tab[t].tenant # Anonymous =>
        \A i \in 1 .. Len(mail[t]) : \A k \in Keys :
          mail[t][i][k] = 0 \/ made'[mail[t][i][k]] = tab[t].tenant
  BY <1>1, <1>2, MadeForStays DEF MailPart, MadeFor
<1>4. QED
  BY <1>1, <1>3 DEF MailPart, MadeFor

\* A broadcast reaches tabs of the sender's tenant only.
LEMMA MailSent ==
  ASSUME RuntimeInv, MadeStays, NEW t \in Tabs, NEW store \in Store, Broadcast(t, store),
         \A o \in Tabs : tab'[o].tenant = tab[o].tenant,
         tab[t].tenant # Anonymous => \A k \in Keys : store[k] = 0 \/ made'[store[k]] = tab[t].tenant
  PROVE  MailPart'
<1>1. PICK open \in SUBSET Listeners(t) :
        mail' = [o \in Tabs |-> IF o \in open THEN Append(mail[o], store) ELSE mail[o]]
  BY DEF Broadcast
<1>2. MailPart /\ TabPart
  BY DEF RuntimeInv
<1>3. mail' \in [Tabs -> Seq(Store)]
  BY <1>1, <1>2 DEF MailPart
<1>4. SUFFICES ASSUME NEW o \in Tabs, tab[o].tenant # Anonymous, NEW i \in 1 .. Len(mail'[o]),
                      NEW k \in Keys
               PROVE  mail'[o][i][k] = 0 \/ made'[mail'[o][i][k]] = tab[o].tenant
  BY <1>3 DEF MailPart, MadeFor
<1>5. mail[o] \in Seq(Store) /\ tab[o].tenant \in Tenants
  BY <1>2, <1>4 DEF MailPart, TabPart, Tab
<1>6. ASSUME i \in 1 .. Len(mail[o]), mail'[o][i] = mail[o][i]
      PROVE  mail'[o][i][k] = 0 \/ made'[mail'[o][i][k]] = tab[o].tenant
  <2>1. mail[o][i] \in Store /\ MadeFor(tab[o].tenant, mail[o][i])
    BY <1>2, <1>4, <1>5, <1>6 DEF MailPart
  <2>2. QED
    BY <1>4, <1>5, <1>6, <2>1, MadeForStays DEF MadeFor
<1>7. CASE o \notin open
  BY <1>1, <1>4, <1>6, <1>7
<1>8. CASE o \in open
  <2>1. tab[o].tenant = tab[t].tenant /\ mail'[o] = Append(mail[o], store)
    BY <1>1, <1>8 DEF Listeners
  <2>2. CASE i = Len(mail[o]) + 1
    <3>1. mail'[o][i] = store
      BY <1>5, <2>1, <2>2
    <3>2. QED
      BY <1>4, <2>1, <3>1
  <2>3. CASE i # Len(mail[o]) + 1
    <3>1. i \in 1 .. Len(mail[o]) /\ mail'[o][i] = mail[o][i]
      BY <1>4, <1>5, <2>1, <2>3
    <3>2. QED
      BY <1>6, <3>1
  <2>4. QED
    BY <2>2, <2>3
<1>9. QED
  BY <1>7, <1>8

LEMMA RowKept == ASSUME RuntimeInv, MadeStays, row' = row PROVE RowPart'
<1>1. RowPart
  BY DEF RuntimeInv
<1>2. \A u \in Tenants : row[u] # NoRow => row[u].store \in Store
  BY <1>1 DEF RowPart, Snapshot
<1>3. \A u \in Tenants : row[u] # NoRow =>
        \A k \in Keys : row[u].store[k] = 0 \/ made'[row[u].store[k]] = u
  BY <1>1, <1>2, MadeForStays DEF RowPart, MadeFor
<1>4. QED
  BY <1>1, <1>3 DEF RowPart, MadeFor, NoRow, Nothing

LEMMA RowSet ==
  ASSUME RuntimeInv, made' = made, NEW u \in Tenants, NEW new \in Snapshot \cup {NoRow},
         row' = [row EXCEPT ![u] = new],
         new # NoRow => new.of \in {Anonymous, u} /\ MadeFor(u, new.store)
  PROVE  RowPart'
  BY DEF RuntimeInv, RowPart, MadeFor, NoRow, Nothing

LEMMA CallKept == ASSUME RuntimeInv, MadeStays, call' = call PROVE CallPart'
<1>1. CallPart
  BY DEF RuntimeInv
<1>2. SUFFICES ASSUME NEW c \in Calls PROVE AnswerOK(call[c])'
  BY <1>1 DEF CallPart
<1>3. CASE call[c].kind = "none"
  BY <1>3 DEF AnswerOK
<1>4. CASE call[c].kind # "none"
  <2>1. call[c] \in Call /\ call[c].got \in Snapshot
    BY <1>1, <1>2, <1>4 DEF CallPart, NoCall, Call
  <2>2. CASE call[c].got = Empty
    BY <1>1, <1>2, <2>2 DEF CallPart, AnswerOK, Apart, Empty, Nothing
  <2>3. CASE call[c].got # Empty
    <3>1. call[c].got.of \in Tenants /\ MadeFor(call[c].got.of, call[c].got.store)
      BY <1>1, <1>2, <1>4, <2>3 DEF CallPart, AnswerOK, Apart
    <3>2. call[c].got.store \in Store
      BY <2>1 DEF Snapshot
    <3>3. \A k \in Keys : call[c].got.store[k] = 0 \/ made'[call[c].got.store[k]] = call[c].got.of
      BY <3>1, <3>2, MadeForStays DEF MadeFor
    <3>4. QED
      BY <1>1, <1>2, <3>1, <3>3 DEF CallPart, AnswerOK, Apart, MadeFor
  <2>4. QED
    BY <2>2, <2>3
<1>5. QED
  BY <1>3, <1>4

LEMMA CallSet ==
  ASSUME RuntimeInv, made' = made, NEW c \in Calls, NEW new \in Call \cup {NoCall},
         call' = [call EXCEPT ![c] = new], AnswerOK(new)
  PROVE  CallPart'
<1>1. call \in [Calls -> Call \cup {NoCall}] /\ \A d \in Calls : AnswerOK(call[d])
  BY DEF RuntimeInv, CallPart
<1>2. \A d \in Calls : call'[d] = IF d = c THEN new ELSE call[d]
  BY <1>1
<1>3. \A d \in Calls : AnswerOK(call'[d])
  BY <1>1, <1>2
<1>4. \A d \in Calls : AnswerOK(call[d])'
  BY <1>3 DEF AnswerOK, Apart, MadeFor, Empty, Nothing
<1>5. QED
  BY <1>1, <1>4 DEF CallPart

LEMMA CallFreed ==
  ASSUME RuntimeInv, made' = made, NEW c \in Calls, call' = [call EXCEPT ![c] = NoCall]
  PROVE  CallPart'
  BY CallSet DEF AnswerOK, NoCall

LEMMA CallMade ==
  ASSUME RuntimeInv, made' = made, NEW c \in Calls, NEW kind \in Kinds, NEW t \in Tabs,
         NEW body \in Store, call' = [call EXCEPT ![c] = Request(kind, t, body)]
  PROVE  CallPart'
<1>1. Request(kind, t, body) \in Call /\ AnswerOK(Request(kind, t, body))
  BY EmptyTyped DEF Request, Call, AnswerOK
<1>2. QED
  BY <1>1, CallSet

LEMMA MadeKept ==
  ASSUME RuntimeInv, made' = made, session' \in Tenants \cup {Anonymous}
  PROVE  MadeStays /\ MadePart'
  BY DEF RuntimeInv, MadePart, MadeStays, Written

\* The parts about variables a step leaves alone.
LEMMA SessionTyped == ASSUME RuntimeInv PROVE session \in Tenants \cup {Anonymous}
  BY DEF RuntimeInv, MadePart

LEMMA RuntimeInit == Init => RuntimeInv
<1> SUFFICES ASSUME Init PROVE RuntimeInv
  OBVIOUS
<1> USE DEF Init
<1>1. TabPart
  BY NewTabTyped, NothingMade DEF TabPart
<1>2. MailPart
  BY DEF MailPart
<1>3. CallPart
  BY DEF CallPart, AnswerOK, NoCall
<1>4. CASE row = [u \in Tenants |-> NoRow] /\ made = [n \in 1 .. MaxWrites |-> Anonymous]
  <2>1. RowPart
    BY <1>4 DEF RowPart
  <2>2. Written = 1 .. 0
    BY <1>4 DEF Written
  <2>3. MadePart
    BY <1>4, <2>2, RuntimeAssumption DEF MadePart
  <2>4. QED
    BY <1>1, <1>2, <1>3, <2>1, <2>3 DEF RuntimeInv
<1>5. ASSUME NEW u \in Tenants, NEW k \in Keys, OldRow(u, k),
             made = [n \in 1 .. MaxWrites |-> IF n = 1 THEN u ELSE Anonymous]
      PROVE  RuntimeInv
  <2> DEFINE old == [of |-> Anonymous, store |-> [Nothing EXCEPT ![k] = 1]]
  <2>1. [Nothing EXCEPT ![k] = 1] \in Store /\ MadeFor(u, [Nothing EXCEPT ![k] = 1])
    BY <1>5, NothingMade, RuntimeAssumption DEF Store, Versions, MadeFor
  <2>2. old \in Snapshot
    BY <2>1 DEF Snapshot
  <2>3. row = [v \in Tenants |-> IF v = u THEN old ELSE NoRow]
    BY <1>5 DEF OldRow
  <2>4. RowPart
    BY <2>1, <2>2, <2>3 DEF RowPart
  <2>5. Written = 1 .. 1
    BY <1>5, RuntimeAssumption DEF Written
  <2>6. MadePart
    BY <1>5, <2>5, RuntimeAssumption DEF MadePart
  <2>7. QED
    BY <1>1, <1>2, <1>3, <2>4, <2>6 DEF RuntimeInv
<1>6. QED
  BY <1>4, <1>5

-----------------------------------------------------------------------------
(* The server.                                                              *)

LEMMA ReadKeeps == ASSUME RuntimeInv, NEW c \in Calls, Read(c) PROVE RuntimeInv'
<1> DEFINE found == IF row[session] = NoRow THEN Empty ELSE Normalized(session, row[session])
           stage == IF call[c].kind = "post" THEN "read"
                    ELSE IF found # Empty /\ found # row[session] THEN "prune" ELSE "answered"
           new == [call[c] EXCEPT !.stage = stage, !.got = found, !.target = Target(stage)]
<1>1. /\ call[c].kind \in Kinds \ {"delete"} /\ session \in Tenants
      /\ call' = [call EXCEPT ![c] = new]
      /\ UNCHANGED <<tab, mail, row, session, made>>
  BY SessionTyped DEF Read
<1>2. call[c] \in Call
  BY <1>1 DEF RuntimeInv, CallPart, NoCall, Kinds
<1>3. found \in Snapshot /\ Apart(found) /\ found.of \in {Anonymous, session}
  <2>1. CASE row[session] = NoRow
    BY <2>1, EmptyTyped
  <2>2. CASE row[session] # NoRow
    <3>1. /\ row[session] \in Snapshot /\ row[session].store \in Store
          /\ row[session].of \in {Anonymous, session} /\ MadeFor(session, row[session].store)
      BY <1>1, <2>2 DEF RuntimeInv, RowPart, Snapshot
    <3>2. CASE row[session].of = Anonymous
      <4>1. found = [row[session] EXCEPT !.of = session]
        BY <2>2, <3>2 DEF Normalized
      <4>2. QED
        BY <1>1, <3>1, <4>1 DEF Snapshot, Apart
    <3>3. CASE row[session].of # Anonymous
      <4>1. found = [row[session] EXCEPT !.store = Pruned(row[session].store)]
        BY <2>2, <3>3 DEF Normalized
      <4>2. QED
        BY <1>1, <3>1, <3>3, <4>1, PrunedMade DEF Snapshot, Apart
    <3>4. QED
      BY <3>2, <3>3
  <2>3. QED
    BY <2>1, <2>2
<1>4. stage \in {"read", "prune", "answered"} /\ Target(stage) = IF stage = "answered" THEN Anonymous ELSE session
  BY DEF Target
<1> HIDE DEF found, stage
<1>5. new \in Call /\ new.got = found /\ new.stage = stage /\ new.target = Target(stage)
  BY <1>1, <1>2, <1>3, <1>4 DEF Call
<1>6. AnswerOK(new)
  BY <1>1, <1>3, <1>4, <1>5 DEF AnswerOK
<1> HIDE DEF new
<1>7. CallPart'
  BY <1>1, <1>5, <1>6, CallSet
<1>8. QED
  BY <1>1, <1>7, SessionTyped, MadeKept, TabKept, MailKept, RowKept DEF RuntimeInv

LEMMA PruneKeeps == ASSUME RuntimeInv, NEW c \in Calls, Prune(c) PROVE RuntimeInv'
<1> DEFINE new == [call[c] EXCEPT !.stage = "answered", !.target = Anonymous]
           u == call[c].target
<1>1. /\ call[c].kind # "none" /\ call[c].stage = "prune"
      /\ call' = [call EXCEPT ![c] = new]
      /\ row' = [row EXCEPT ![u] = IF row[u] = NoRow THEN row[u] ELSE call[c].got]
      /\ UNCHANGED <<tab, mail, session, made>>
  BY DEF Prune
<1>2. call[c] \in Call /\ call[c].got \in Snapshot /\ AnswerOK(call[c])
  BY <1>1 DEF RuntimeInv, CallPart, NoCall, Call
<1>3. u \in Tenants /\ call[c].got.of \in {Anonymous, u} /\ Apart(call[c].got)
  BY <1>1, <1>2 DEF AnswerOK
<1>4. MadeFor(u, call[c].got.store)
  BY <1>2, <1>3, ApartMade
<1>5. RowPart'
  <2>1. IF row[u] = NoRow THEN row'[u] = row[u] ELSE row'[u] = call[c].got
    BY <1>1, <1>3 DEF RuntimeInv, RowPart
  <2>2. QED
    BY <1>1, <1>2, <1>3, <1>4, RowSet
<1>6. new \in Call /\ new.got = call[c].got /\ new.stage = "answered"
  BY <1>2 DEF Call
<1>7. CallPart'
  BY <1>1, <1>3, <1>6, CallSet DEF AnswerOK
<1>8. QED
  BY <1>1, <1>5, <1>7, SessionTyped, MadeKept, TabKept, MailKept DEF RuntimeInv

LEMMA UpsertKeeps == ASSUME RuntimeInv, NEW c \in Calls, Upsert(c) PROVE RuntimeInv'
<1> DEFINE u == call[c].target
           whole == Pruned(Overlay(call[c].got.store, Incoming(call[c].body)))
           merged == [of |-> u, store |-> whole]
           base == Request("post", call[c].tab, Nothing)
           new == [base EXCEPT !.stage = "answered", !.got = merged]
<1>1. /\ call[c].kind = "post" /\ call[c].stage = "read"
      /\ row' = [row EXCEPT ![u] = merged] /\ call' = [call EXCEPT ![c] = new]
      /\ UNCHANGED <<tab, mail, session, made>>
  BY DEF Upsert
<1>2. call[c] \in Call /\ call[c].got \in Snapshot /\ call[c].tab \in Tabs /\ AnswerOK(call[c])
  BY <1>1 DEF RuntimeInv, CallPart, NoCall, Call
<1>3. u \in Tenants /\ call[c].got.of \in {Anonymous, u} /\ Apart(call[c].got)
  BY <1>1, <1>2 DEF AnswerOK
<1>4. call[c].got.store \in Store /\ MadeFor(u, call[c].got.store)
  BY <1>2, <1>3, ApartMade DEF Snapshot
<1>5. Incoming(call[c].body) = Nothing
  BY DEF Incoming, PostedSchema, ServerSchema
<1>6. whole \in Store /\ MadeFor(u, whole)
  BY <1>3, <1>4, <1>5, NothingMade, OverlayMade, PrunedMade
<1> HIDE DEF whole
<1>7. merged \in Snapshot /\ merged.of = u /\ merged.store = whole /\ Apart(merged)
  BY <1>3, <1>6 DEF Snapshot, Apart
<1> HIDE DEF merged, u
<1>8. RowPart'
  BY <1>1, <1>3, <1>6, <1>7, RowSet
<1>9. base \in Call
  BY <1>2, NothingMade, EmptyTyped DEF Request, Call, Kinds
<1>10. new \in Call /\ new.got = merged /\ new.stage = "answered"
  BY <1>7, <1>9 DEF Call
<1> HIDE DEF new
<1>11. CallPart'
  BY <1>1, <1>7, <1>10, CallSet DEF AnswerOK
<1>12. QED
  BY <1>1, <1>8, <1>11, SessionTyped, MadeKept, TabKept, MailKept DEF RuntimeInv

LEMMA DeleteKeeps == ASSUME RuntimeInv, NEW c \in Calls, Delete(c) PROVE RuntimeInv'
<1>1. /\ session \in Tenants /\ row' = [row EXCEPT ![session] = NoRow]
      /\ call' = [call EXCEPT ![c] = NoCall] /\ UNCHANGED <<tab, mail, session, made>>
  BY SessionTyped DEF Delete
<1>2. RowPart' /\ CallPart'
  BY <1>1, RowSet, CallFreed
<1>3. QED
  BY <1>1, <1>2, SessionTyped, MadeKept, TabKept, MailKept DEF RuntimeInv

-----------------------------------------------------------------------------
(* The client.                                                              *)

LEMMA WriteKeeps ==
  ASSUME RuntimeInv, NEW t \in Tabs, NEW k \in Keys, NEW n \in 1 .. MaxWrites,
         NEW persist \in BOOLEAN, Write(t, k, n, persist)
  PROVE  RuntimeInv'
<1> DEFINE u == tab[t].tenant
           store == [tab[t].store EXCEPT ![k] = n]
           new == [tab[t] EXCEPT !.store = store, !.recent = TRUE, !.dirty = tab[t].dirty \/ persist,
                                 !.flush = tab[t].flush \/ (persist /\ ~tab[t].locked)]
<1>1. tab \in [Tabs -> Tab] /\ tab[t] \in Tab /\ tab[t].store \in Store
  BY DEF RuntimeInv, TabPart, Tab
<1>2. u \in Tenants /\ MadeFor(u, tab[t].store)
  BY <1>1 DEF Write, RuntimeInv, TabPart, Tab
<1>3. store \in Store
  BY <1>1 DEF Store, Versions
<1>4. new \in Tab /\ new.store = store /\ new.tenant = u
  BY <1>1, <1>3 DEF Tab
<1>5. tab' = [tab EXCEPT ![t] = new] /\ UNCHANGED <<call, row, session>>
  BY <1>1 DEF Write, Tab
<1>6. Broadcast(t, store)
  BY <1>1, <1>4, <1>5 DEF Write
<1>7. MadeStays /\ MadePart' /\ made'[n] = u
  <2>1. PICK w \in 0 .. MaxWrites : Written = 1 .. w
    BY DEF RuntimeInv, MadePart
  <2>2. made \in [1 .. MaxWrites -> Tenants \cup {Anonymous}]
    BY DEF RuntimeInv, MadePart
  <2>3. CASE n = Cardinality(Written) + 1 /\ made' = [made EXCEPT ![n] = u]
    <3>1. Cardinality(1 .. w) = w
      BY FS_Interval, <2>1
    <3>2. n = w + 1
      BY <2>1, <2>3, <3>1
    <3>3. made[n] = Anonymous
      BY <2>1, <3>2 DEF Written
    <3>4. Written' = 1 .. n
      BY <1>2, <2>1, <2>2, <2>3, <3>2, RuntimeAssumption DEF Written
    <3>5. made' \in [1 .. MaxWrites -> Tenants \cup {Anonymous}] /\ made'[n] = u
      BY <1>2, <2>2, <2>3
    <3>6. MadeStays
      BY <2>2, <2>3, <3>3 DEF MadeStays
    <3>7. QED
      BY <1>5, <3>4, <3>5, <3>6, SessionTyped DEF MadePart
  <2>4. CASE n \in Written /\ made[n] = u /\ UNCHANGED made
    BY <1>5, <2>4, SessionTyped, MadeKept
  <2>5. QED
    BY <2>3, <2>4 DEF Write
<1>8. \A l \in Keys : store[l] = 0 \/ made'[store[l]] = u
  <2>1. \A l \in Keys : tab[t].store[l] = 0 \/ made'[tab[t].store[l]] = u
    BY <1>1, <1>2, <1>7, MadeForStays DEF MadeFor
  <2>2. QED
    BY <1>1, <1>7, <2>1 DEF Store
<1> HIDE DEF new, store
<1>9. TabPart' /\ \A o \in Tabs : tab'[o].tenant = tab[o].tenant
  BY <1>1, <1>4, <1>5, <1>7, <1>8, TabSet
<1>10. MailPart'
  BY <1>3, <1>6, <1>7, <1>8, <1>9, MailSent
<1>11. QED
  BY <1>5, <1>7, <1>9, <1>10, CallKept, RowKept DEF RuntimeInv

LEMMA HearKeeps == ASSUME RuntimeInv, NEW t \in Tabs, Hear(t) PROVE RuntimeInv'
<1> DEFINE heard == [of |-> Anonymous, store |-> Head(mail[t])]
<1>1. /\ mail[t] # << >> /\ mail' = [mail EXCEPT ![t] = Tail(@)]
      /\ UNCHANGED <<call, row, session, made>>
  BY DEF Hear
<1>2. MadeStays /\ MadePart'
  BY <1>1, MadeKept, SessionTyped
<1>3. /\ mail \in [Tabs -> Seq(Store)] /\ Head(mail[t]) \in Store /\ tab[t] \in Tab /\ TabPart
      /\ Tail(mail[t]) \in Seq(Store)
      /\ \A i \in 1 .. Len(Tail(mail[t])) :
           i + 1 \in 1 .. Len(mail[t]) /\ Tail(mail[t])[i] = mail[t][i + 1]
      /\ Head(mail[t]) = mail[t][1] /\ 1 \in 1 .. Len(mail[t])
  BY <1>1 DEF RuntimeInv, MailPart, TabPart
<1>4. TabPart' /\ \A o \in Tabs : tab'[o].tenant = tab[o].tenant
  <2>1. CASE tab' = tab
    BY <1>2, <2>1, TabKept
  <2>2. CASE tab' = [tab EXCEPT ![t].store = Merged(t, heard)]
    <3> DEFINE new == [tab[t] EXCEPT !.store = Merged(t, heard)]
    <3>1. heard \in Snapshot /\ heard.store = Head(mail[t])
      BY <1>3 DEF Snapshot
    <3>2. tab[t].tenant # Anonymous => MadeFor(tab[t].tenant, heard.store)
      BY <1>3, <3>1 DEF RuntimeInv, MailPart
    <3>3. /\ Merged(t, heard) \in Store
          /\ tab[t].tenant # Anonymous => MadeFor(tab[t].tenant, Merged(t, heard))
      BY <1>3, <3>1, <3>2, RuntimeAssumption, MergedMade
    <3>4. new \in Tab /\ new.tenant = tab[t].tenant /\ new.store = Merged(t, heard)
      BY <1>3, <3>3 DEF Tab
    <3>5. tab' = [tab EXCEPT ![t] = new]
      BY <2>2
    <3> HIDE DEF new, heard
    <3>6. TabPart'
      BY <1>1, <1>2, <3>3, <3>4, <3>5, TabSet DEF MadeFor
    <3>7. QED
      BY <1>3, <3>4, <3>5, <3>6 DEF TabPart
  <2>3. QED
    BY <2>1, <2>2 DEF Hear
<1>5. MailPart'
  <2>1. mail' \in [Tabs -> Seq(Store)] /\ \A o \in Tabs : mail'[o] = IF o = t THEN Tail(mail[t]) ELSE mail[o]
    BY <1>1, <1>3
  <2>2. \A o \in Tabs : \A i \in 1 .. Len(mail'[o]) :
          \E j \in 1 .. Len(mail[o]) : mail'[o][i] = mail[o][j]
    BY <1>3, <2>1
  <2>3. \A o \in Tabs : tab[o].tenant # Anonymous => \A i \in 1 .. Len(mail'[o]) : MadeFor(tab[o].tenant, mail'[o][i])
    BY <2>2 DEF RuntimeInv, MailPart
  <2>4. ASSUME NEW o \in Tabs, tab'[o].tenant # Anonymous, NEW i \in 1 .. Len(mail'[o])
        PROVE  MadeFor(tab[o].tenant, mail[o][i])'
    <3>1. tab[o].tenant # Anonymous /\ tab'[o].tenant = tab[o].tenant
      BY <1>4, <2>4
    <3>2. MadeFor(tab[o].tenant, mail'[o][i])
      BY <2>3, <2>4, <3>1
    <3>3. QED
      BY <1>1, <3>1, <3>2 DEF MadeFor
  <2>5. QED
    BY <2>1, <2>4 DEF MailPart
<1>6. QED
  BY <1>1, <1>2, <1>4, <1>5, CallKept, RowKept DEF RuntimeInv

\* Flags of a tab change, and nothing else.
LEMMA FlagsKeep ==
  ASSUME RuntimeInv, NEW t \in Tabs, NEW new \in Tab, tab' = [tab EXCEPT ![t] = new],
         new.tenant = tab[t].tenant, new.store = tab[t].store,
         UNCHANGED <<mail, row, session, made>>, CallPart'
  PROVE  RuntimeInv'
  BY SessionTyped, MadeKept, TabTouched, MailKept, RowKept DEF RuntimeInv

LEMMA GraceKeeps == ASSUME RuntimeInv, NEW t \in Tabs, GraceEnds(t) PROVE RuntimeInv'
<1> DEFINE new == [tab[t] EXCEPT !.recent = FALSE]
<1>1. tab[t] \in Tab
  BY DEF RuntimeInv, TabPart
<1>2. new \in Tab /\ new.tenant = tab[t].tenant /\ new.store = tab[t].store
  BY <1>1 DEF Tab
<1>3. tab' = [tab EXCEPT ![t] = new] /\ UNCHANGED <<call, mail, row, session, made>>
  BY DEF GraceEnds
<1>4. QED
  BY <1>2, <1>3, FlagsKeep, CallKept, MadeKept, SessionTyped

LEMMA TimerKeeps == ASSUME RuntimeInv, NEW t \in Tabs, TimerStopped(t) PROVE RuntimeInv'
<1> DEFINE new == [tab[t] EXCEPT !.flush = FALSE]
<1>1. tab[t] \in Tab
  BY DEF RuntimeInv, TabPart
<1>2. new \in Tab /\ new.tenant = tab[t].tenant /\ new.store = tab[t].store
  BY <1>1 DEF Tab
<1>3. tab' = [tab EXCEPT ![t] = new] /\ UNCHANGED <<call, mail, row, session, made>>
  BY DEF TimerStopped
<1>4. QED
  BY <1>2, <1>3, FlagsKeep, CallKept, MadeKept, SessionTyped

LEMMA UnlockKeeps == ASSUME RuntimeInv, NEW t \in Tabs, Unlock(t) PROVE RuntimeInv'
<1> DEFINE new == [tab[t] EXCEPT !.locked = FALSE]
<1>1. tab[t] \in Tab
  BY DEF RuntimeInv, TabPart
<1>2. new \in Tab /\ new.tenant = tab[t].tenant /\ new.store = tab[t].store
  BY <1>1 DEF Tab
<1>3. tab' = [tab EXCEPT ![t] = new] /\ UNCHANGED <<call, mail, row, session, made>>
  BY DEF Unlock
<1>4. QED
  BY <1>2, <1>3, FlagsKeep, CallKept, MadeKept, SessionTyped

LEMMA SaveKeeps == ASSUME RuntimeInv, NEW t \in Tabs, NEW c \in Calls, Save(t, c) PROVE RuntimeInv'
<1>1. PICK byTimer \in BOOLEAN : tab' = [tab EXCEPT ![t].flush = @ /\ ~byTimer, ![t].saving = TRUE]
  BY DEF Save
<1> DEFINE new == [tab[t] EXCEPT !.flush = tab[t].flush /\ ~byTimer, !.saving = TRUE]
<1>2. tab \in [Tabs -> Tab] /\ tab[t] \in Tab /\ tab[t].store \in Store
  BY DEF RuntimeInv, TabPart, Tab
<1>3. new \in Tab /\ new.tenant = tab[t].tenant /\ new.store = tab[t].store
  BY <1>2 DEF Tab
<1>4. tab' = [tab EXCEPT ![t] = new]
  BY <1>1, <1>2 DEF Tab
<1>5. UNCHANGED <<mail, row, session, made>> /\ call' = [call EXCEPT ![c] = Request("post", t, tab[t].store)]
  BY DEF Save
<1>6. "post" \in Kinds
  BY DEF Kinds
<1>7. CallPart'
  BY <1>2, <1>5, <1>6, CallMade
<1>8. QED
  BY <1>3, <1>4, <1>5, <1>7, FlagsKeep

LEMMA LoadKeeps ==
  ASSUME RuntimeInv, NEW t \in Tabs, NEW c \in Calls, NEW kind \in {"get", "forced"}, Load(t, c, kind)
  PROVE  RuntimeInv'
<1>1. UNCHANGED <<tab, mail, row, session, made>> /\ call' = [call EXCEPT ![c] = Request(kind, t, Nothing)]
  BY DEF Load
<1>2. kind \in Kinds
  BY DEF Kinds
<1>3. CallPart'
  BY <1>1, <1>2, NothingMade, CallMade
<1>4. QED
  BY <1>1, <1>3, SessionTyped, MadeKept, TabKept, MailKept, RowKept DEF RuntimeInv

\* A store of the tab's own tenant is taken over, and shown to the others.
LEMMA ApplyKeeps ==
  ASSUME RuntimeInv, made' = made, NEW t \in Tabs, NEW new \in Store, NEW after \in Tab,
         after.tenant = tab[t].tenant,
         tab[t].tenant # Anonymous => MadeFor(tab[t].tenant, new), Apply(t, new, after)
  PROVE  TabPart' /\ MailPart'
<1> DEFINE final == [after EXCEPT !.store = new]
<1>1. final \in Tab /\ final.tenant = tab[t].tenant /\ final.store = new
  BY DEF Tab
<1>2. tab' = [tab EXCEPT ![t] = final]
  BY DEF Apply
<1>3. MadeStays
  BY DEF MadeStays
<1> HIDE DEF final
<1>4. TabPart'
  BY <1>1, <1>2, <1>3, TabSet DEF MadeFor
<1>5. \A o \in Tabs : tab'[o].tenant = tab[o].tenant
  BY <1>1, <1>2 DEF RuntimeInv, TabPart
<1>6. MailPart'
  <2>1. CASE mail' = mail
    BY <1>3, <1>5, <2>1, MailKept
  <2>2. CASE Broadcast(t, new)
    BY <1>3, <1>5, <2>2, MailSent DEF MadeFor
  <2>3. QED
    BY <2>1, <2>2 DEF Apply
<1>7. QED
  BY <1>4, <1>6

LEMMA AnswerTyped ==
  ASSUME RuntimeInv, NEW c \in Calls, call[c].kind # "none"
  PROVE  /\ call[c] \in Call /\ call[c].tab \in Tabs /\ call[c].got \in Snapshot /\ Apart(call[c].got)
         /\ TabPart /\ tab[call[c].tab] \in Tab
         /\ \A u \in Tenants : call[c].got.of \in {Anonymous, u} => MadeFor(u, call[c].got.store)
<1>1. call[c] \in Call /\ AnswerOK(call[c])
  BY DEF RuntimeInv, CallPart, NoCall
<1>2. call[c].tab \in Tabs /\ call[c].got \in Snapshot /\ Apart(call[c].got)
  BY <1>1 DEF Call, AnswerOK
<1>3. QED
  BY <1>1, <1>2, ApartMade DEF RuntimeInv, TabPart

\* What a load makes of its answer is its tenant's, forced or not.
LEMMA LoadedMade ==
  ASSUME RuntimeInv, NEW c \in Calls, call[c].kind # "none", NEW t \in Tabs, t = call[c].tab,
         NEW got \in Snapshot, got = call[c].got \/ got = Preserving(t, call[c].got)
  PROVE  /\ Merged(t, got) \in Store
         /\ tab[t].tenant # Anonymous => MadeFor(tab[t].tenant, Merged(t, got))
<1>1. /\ TabPart /\ tab[t] \in Tab /\ call[c].got \in Snapshot
      /\ \A u \in Tenants : call[c].got.of \in {Anonymous, u} => MadeFor(u, call[c].got.store)
  BY AnswerTyped
<1>2. tab[t].tenant \in Tenants => MadeFor(tab[t].tenant, tab[t].store)
  BY <1>1, RuntimeAssumption DEF TabPart
<1>3. got.of = call[c].got.of
      /\ \A k \in Keys : got.store[k] \in {call[c].got.store[k], tab[t].store[k]}
  BY <1>1 DEF Preserving, Snapshot, Store
<1>4. tab[t].tenant \in Tenants /\ got.of \in {Anonymous, tab[t].tenant} =>
        MadeFor(tab[t].tenant, got.store)
  BY <1>1, <1>2, <1>3 DEF MadeFor
<1>5. QED
  BY <1>1, <1>4, MergedMade

LEMMA PreservingTyped ==
  ASSUME NEW t \in Tabs, tab[t] \in Tab, NEW got \in Snapshot
  PROVE  Preserving(t, got) \in Snapshot
  BY DEF Preserving, Snapshot, Store, Tab

LEMMA LoadAnsweredKeeps == ASSUME RuntimeInv, NEW c \in Calls, LoadAnswered(c) PROVE RuntimeInv'
<1> DEFINE t == call[c].tab
           got == call[c].got
<1>1. /\ call[c].kind # "none" /\ call' = [call EXCEPT ![c] = NoCall]
      /\ UNCHANGED <<row, session, made>>
      /\ \/ Apply(t, Merged(t, Preserving(t, got)), tab[t])
         \/ Apply(t, Merged(t, got), tab[t])
         \/ UNCHANGED <<tab, mail>>
  BY DEF LoadAnswered
<1>2. t \in Tabs /\ got \in Snapshot /\ tab[t] \in Tab /\ Preserving(t, got) \in Snapshot
  BY <1>1, AnswerTyped, PreservingTyped
<1>3. MadeStays /\ MadePart' /\ CallPart' /\ RowPart'
  BY <1>1, SessionTyped, MadeKept, CallFreed, RowKept
<1>4. TabPart' /\ MailPart'
  <2>1. CASE Apply(t, Merged(t, Preserving(t, got)), tab[t])
    BY <1>1, <1>2, <2>1, LoadedMade, ApplyKeeps
  <2>2. CASE Apply(t, Merged(t, got), tab[t])
    BY <1>1, <1>2, <2>2, LoadedMade, ApplyKeeps
  <2>3. CASE UNCHANGED <<tab, mail>>
    BY <1>3, <2>3, TabKept, MailKept
  <2>4. QED
    BY <1>1, <2>1, <2>2, <2>3
<1>5. QED
  BY <1>3, <1>4 DEF RuntimeInv

LEMMA SaveAnsweredKeeps == ASSUME RuntimeInv, NEW c \in Calls, SaveAnswered(c) PROVE RuntimeInv'
<1> DEFINE t == call[c].tab
           got == call[c].got
<1>1. /\ call[c].kind # "none" /\ call' = [call EXCEPT ![c] = NoCall]
      /\ UNCHANGED <<row, session, made>>
      /\ \/ Apply(t, Merged(t, got), Saved(t))
         \/ tab' = [tab EXCEPT ![t] = Saved(t)] /\ UNCHANGED mail
  BY DEF SaveAnswered
<1>2. t \in Tabs /\ got \in Snapshot /\ tab[t] \in Tab
  BY <1>1, AnswerTyped
<1>3. Saved(t) \in Tab /\ Saved(t).tenant = tab[t].tenant /\ Saved(t).store = tab[t].store
  BY <1>2 DEF Saved, Tab
<1>4. MadeStays /\ MadePart' /\ CallPart' /\ RowPart'
  BY <1>1, SessionTyped, MadeKept, CallFreed, RowKept
<1>5. CASE Apply(t, Merged(t, got), Saved(t))
  <2>1. TabPart' /\ MailPart'
    BY <1>1, <1>2, <1>3, <1>5, LoadedMade, ApplyKeeps
  <2>2. QED
    BY <1>4, <2>1 DEF RuntimeInv
<1>6. CASE tab' = [tab EXCEPT ![t] = Saved(t)] /\ UNCHANGED mail
  BY <1>1, <1>2, <1>3, <1>4, <1>6, FlagsKeep
<1>7. QED
  BY <1>1, <1>5, <1>6

LEMMA FailKeeps == ASSUME RuntimeInv, NEW c \in Calls, Fail(c) PROVE RuntimeInv'
<1> DEFINE t == call[c].tab
<1>1. /\ call[c].kind # "none" /\ call' = [call EXCEPT ![c] = NoCall]
      /\ UNCHANGED <<mail, row, session, made>>
  BY DEF Fail
<1>2. PICK auth \in BOOLEAN : tab' = [tab EXCEPT ![t] = Failed(t, call[c].kind, auth)]
  BY DEF Fail
<1>3. t \in Tabs /\ tab[t] \in Tab
  BY <1>1, AnswerTyped
<1> DEFINE new == Failed(t, call[c].kind, auth)
<1>4. new \in Tab /\ new.tenant = tab[t].tenant /\ new.store = tab[t].store
  <2>1. CASE call[c].kind = "post"
    <3>1. new = [tab[t] EXCEPT !.dirty = ~auth, !.saving = FALSE, !.flush = tab[t].flush /\ ~auth,
                               !.locked = tab[t].locked \/ auth]
      BY <1>3, <2>1 DEF Failed, Tab
    <3>2. QED
      BY <1>3, <3>1 DEF Tab
  <2>2. CASE call[c].kind # "post"
    <3>1. new = [tab[t] EXCEPT !.locked = tab[t].locked \/ auth]
      BY <1>3, <2>2 DEF Failed, Tab
    <3>2. QED
      BY <1>3, <3>1 DEF Tab
  <2>3. QED
    BY <2>1, <2>2
<1>5. CallPart'
  BY <1>1, CallFreed
<1> HIDE DEF new
<1>6. tab' = [tab EXCEPT ![t] = new]
  BY <1>2 DEF new
<1>7. QED
  BY <1>1, <1>3, <1>4, <1>5, <1>6, FlagsKeep

LEMMA SendDeleteKeeps ==
  ASSUME RuntimeInv, made' = made, NEW t \in Tabs, NEW c \in Calls, SendDelete(t, c)
  PROVE  CallPart'
<1>1. MadeStays /\ "delete" \in Kinds
  BY DEF MadeStays, Kinds
<1>2. QED
  BY <1>1, NothingMade, CallKept, CallMade DEF SendDelete

LEMMA ClearKeeps == ASSUME RuntimeInv, NEW t \in Tabs, NEW c \in Calls, Clear(t, c) PROVE RuntimeInv'
<1> DEFINE new == [tab[t] EXCEPT !.store = Nothing, !.dirty = FALSE]
<1>1. /\ tab' = [tab EXCEPT ![t] = new] /\ Broadcast(t, Nothing) /\ SendDelete(t, c)
      /\ UNCHANGED <<row, session, made>>
  BY DEF Clear
<1>2. tab \in [Tabs -> Tab] /\ tab[t] \in Tab
  BY DEF RuntimeInv, TabPart
<1>3. new \in Tab /\ new.tenant = tab[t].tenant /\ new.store = Nothing
  BY <1>2, NothingMade DEF Tab
<1>4. MadeStays /\ MadePart' /\ CallPart' /\ RowPart'
  BY <1>1, SessionTyped, MadeKept, SendDeleteKeeps, RowKept
<1> HIDE DEF new
<1>5. \A o \in Tabs : tab'[o].tenant = tab[o].tenant
  BY <1>1, <1>2, <1>3
<1>6. TabPart' /\ MailPart'
  BY <1>1, <1>3, <1>4, <1>5, NothingMade, TabSet, MailSent
<1>7. QED
  BY <1>4, <1>6 DEF RuntimeInv

LEMMA ResetKeeps ==
  ASSUME RuntimeInv, made' = made, NEW t \in Tabs, NEW u \in Tenants \cup {Anonymous}, Reset(t, u)
  PROVE  TabPart' /\ MailPart'
<1> DEFINE new == [NewTab(u) EXCEPT !.locked = tab[t].locked /\ u = Anonymous]
<1>1. MadeStays /\ tab[t] \in Tab /\ tab \in [Tabs -> Tab] /\ mail \in [Tabs -> Seq(Store)]
  BY DEF MadeStays, RuntimeInv, TabPart, MailPart
<1>2. new \in Tab /\ new.store = Nothing
  BY <1>1, NewTabTyped DEF Tab
<1>3. tab' = [tab EXCEPT ![t] = new] /\ mail' = [mail EXCEPT ![t] = << >>]
  BY DEF Reset
<1> HIDE DEF new
<1>4. TabPart'
  BY <1>1, <1>2, <1>3, NothingMade, TabSet
<1>5. /\ mail' \in [Tabs -> Seq(Store)] /\ mail'[t] = << >>
      /\ \A o \in Tabs \ {t} : mail'[o] = mail[o] /\ tab'[o] = tab[o]
  BY <1>1, <1>3
<1>6. MailPart'
  <2>1. \A o \in Tabs \ {t} : tab[o].tenant # Anonymous =>
          \A i \in 1 .. Len(mail[o]) : MadeFor(tab[o].tenant, mail[o][i])
    BY DEF RuntimeInv, MailPart
  <2>2. QED
    BY <1>5, <2>1 DEF MailPart, MadeFor
<1>7. QED
  BY <1>4, <1>6

LEMMA SignKeeps ==
  ASSUME RuntimeInv, NEW t \in Tabs, SignIn(t) \/ \E c \in Calls : SignOut(t, c) PROVE RuntimeInv'
<1>1. UNCHANGED <<row, session, made>>
  BY DEF SignIn, SignOut
<1>2. TabPart' /\ MailPart'
  BY <1>1, SessionTyped, ResetKeeps DEF SignIn, SignOut
<1>3. MadeStays /\ MadePart'
  BY <1>1, SessionTyped, MadeKept
<1>4. CallPart'
  BY <1>1, <1>3, CallKept, SendDeleteKeeps DEF SignIn, SignOut
<1>5. QED
  BY <1>1, <1>2, <1>3, <1>4, RowKept DEF RuntimeInv

LEMMA LoginKeeps == ASSUME RuntimeInv, NEW u \in Tenants \cup {Anonymous}, Login(u) PROVE RuntimeInv'
<1>1. UNCHANGED <<tab, call, mail, row, made>> /\ session' = u
  BY DEF Login
<1>2. QED
  BY <1>1, MadeKept, TabKept, CallKept, MailKept, RowKept DEF RuntimeInv

-----------------------------------------------------------------------------

LEMMA ServerKeeps == ASSUME RuntimeInv, NEW c \in Calls, Server(c) PROVE RuntimeInv'
  BY ReadKeeps, PruneKeeps, UpsertKeeps, DeleteKeeps DEF Server

LEMMA AnsweredKeeps == ASSUME RuntimeInv, NEW c \in Calls, Answered(c) PROVE RuntimeInv'
  BY LoadAnsweredKeeps, SaveAnsweredKeeps, FailKeeps DEF Answered

LEMMA RequestKeeps ==
  ASSUME RuntimeInv, NEW t \in Tabs, NEW c \in Calls,
         Bootstrap(t, c) \/ \E force \in BOOLEAN : Refresh(t, c, force)
  PROVE  RuntimeInv'
  BY LoadKeeps DEF Bootstrap, Refresh

LEMMA RuntimeNext == RuntimeInv /\ [Next]_vars => RuntimeInv'
<1> SUFFICES ASSUME RuntimeInv, [Next]_vars PROVE RuntimeInv'
  OBVIOUS
<1>1. CASE UNCHANGED vars
  BY <1>1, SessionTyped, MadeKept, TabKept, CallKept, MailKept, RowKept DEF vars, RuntimeInv
<1>2. CASE \E c \in Calls : Server(c) \/ Answered(c)
  BY <1>2, ServerKeeps, AnsweredKeeps
<1>3. CASE \E t \in Tabs, c \in Calls :
         Save(t, c) \/ Clear(t, c) \/ SignOut(t, c) \/ Bootstrap(t, c)
         \/ \E force \in BOOLEAN : Refresh(t, c, force)
  BY <1>3, SaveKeeps, ClearKeeps, SignKeeps, RequestKeeps
<1>4. CASE \E t \in Tabs : GraceEnds(t) \/ Hear(t) \/ TimerStopped(t) \/ Unlock(t) \/ SignIn(t)
  BY <1>4, GraceKeeps, HearKeeps, TimerKeeps, UnlockKeeps, SignKeeps
<1>5. CASE \E t \in Tabs, k \in Keys, n \in 1 .. MaxWrites, persist \in BOOLEAN : Write(t, k, n, persist)
  BY <1>5, WriteKeeps
<1>6. CASE \E u \in Tenants \cup {Anonymous} : Login(u)
  BY <1>6, LoginKeeps
<1>7. QED
  BY <1>1, <1>2, <1>3, <1>4, <1>5, <1>6 DEF Next

LEMMA RuntimeInvariant == Spec => []RuntimeInv
  BY RuntimeInit, RuntimeNext, PTL DEF Spec

\* Tabs, requests, mail and rows are well typed, and a request that will write a
\* row has a tenant.
THEOREM TypeCorrect == Spec => []TypeOK
<1>1. RuntimeInv => TypeOK
  BY DEF RuntimeInv, TabPart, MailPart, RowPart, CallPart, MadePart, AnswerOK, TypeOK
<1>2. QED
  BY <1>1, RuntimeInvariant, PTL

\* Whatever tenants share the browser, in any number of tabs and with any requests
\* and broadcasts under way: nobody sees or stores another tenant's values.
THEOREM TenantsKeptApart == Spec => []TenantsApart
<1>1. RuntimeInv => TenantsApart
  BY DEF RuntimeInv, TabPart, RowPart, TenantsApart
<1>2. QED
  BY <1>1, RuntimeInvariant, PTL

-----------------------------------------------------------------------------
(* What a tab takes from outside.                                           *)

\* A merge never takes a table key back, whatever it merges.
LEMMA MergedNotOlder ==
  ASSUME TabPart, NEW t \in Tabs, NEW snapshot, snapshot.store \in Store, NEW k \in TableKeys
  PROVE  Merged(t, snapshot)[k] >= tab[t].store[k]
<1>1. tab[t].store \in Store /\ k \in Keys
  BY RuntimeAssumption DEF TabPart, Tab, Keys
<1>2. tab[t].store[k] \in Nat /\ snapshot.store[k] \in Nat
  BY <1>1, RuntimeAssumption DEF Store, Versions
<1>3. CASE ~IdentityMatches(t, snapshot)
  BY <1>2, <1>3 DEF Merged
<1>4. CASE IdentityMatches(t, snapshot) /\ tab[t].store[k] > snapshot.store[k]
  BY <1>1, <1>2, <1>4 DEF Merged, LocalIsNewer
<1>5. CASE IdentityMatches(t, snapshot) /\ ~(tab[t].store[k] > snapshot.store[k])
  BY <1>1, <1>2, <1>5 DEF Merged, LocalIsNewer, Overlay
<1>6. QED
  BY <1>3, <1>4, <1>5

\* What preserves the tab's domain keys leaves them as they are.
LEMMA PreservedStays ==
  ASSUME TabPart, NEW t \in Tabs, NEW got \in Snapshot, NEW k \in DomainKeys, tab[t].store[k] # 0
  PROVE  Merged(t, Preserving(t, got))[k] = tab[t].store[k]
<1>1. tab[t].store \in Store /\ k \in Keys
  BY RuntimeAssumption DEF TabPart, Tab, Keys
<1>2. Preserving(t, got).store[k] = tab[t].store[k]
  BY <1>1 DEF Preserving, Snapshot
<1>3. QED
  BY <1>1, <1>2 DEF Merged, Overlay

\* A tab that receives something shows afterwards what it showed, or a merge that
\* its grace window allows, or the outcome of a forced refresh.
LEMMA ReceivedStore ==
  ASSUME RuntimeInv, NEW t \in Tabs, Received(t)
  PROVE  \/ tab'[t].store = tab[t].store
         \/ ~tab[t].recent /\ \E got : got.store \in Store /\ tab'[t].store = Merged(t, got)
         \/ /\ Forced(t)
            /\ \E got \in Snapshot : tab'[t].store = Merged(t, Preserving(t, got))
<1>1. TabPart /\ tab \in [Tabs -> Tab] /\ tab[t] \in Tab
  BY DEF RuntimeInv, TabPart
<1>2. CASE Hear(t)
  <2>1. Head(mail[t]) \in Store
    BY <1>2 DEF Hear, RuntimeInv, MailPart
  <2>2. [of |-> Anonymous, store |-> Head(mail[t])].store = Head(mail[t])
    OBVIOUS
  <2>3. CASE tab' = tab
    BY <2>3
  <2>4. CASE Settled(t) /\ tab' = [tab EXCEPT ![t].store =
               Merged(t, [of |-> Anonymous, store |-> Head(mail[t])])]
    <3>1. tab'[t].store = Merged(t, [of |-> Anonymous, store |-> Head(mail[t])])
      BY <1>1, <2>4 DEF Tab
    <3>2. QED
      BY <2>1, <2>2, <2>4, <3>1 DEF Settled
  <2>5. QED
    BY <1>2, <2>3, <2>4 DEF Hear
<1>3. ASSUME NEW c \in Calls, call[c].kind # "none", call[c].tab = t, Answered(c)
      PROVE  \/ tab'[t].store = tab[t].store
             \/ ~tab[t].recent /\ \E got : got.store \in Store /\ tab'[t].store = Merged(t, got)
             \/ /\ Forced(t)
                /\ \E got \in Snapshot : tab'[t].store = Merged(t, Preserving(t, got))
  <2>1. call[c].got \in Snapshot /\ call[c].got.store \in Store
    BY <1>3, AnswerTyped DEF Snapshot
  <2>2. Saved(t) \in Tab /\ Saved(t).store = tab[t].store
    BY <1>1 DEF Saved, Tab
  <2>3. ASSUME NEW new, NEW after \in Tab, Apply(t, new, after) PROVE tab'[t].store = new
    <3>1. tab'[t] = [after EXCEPT !.store = new]
      BY <1>1, <2>3 DEF Apply
    <3>2. QED
      BY <3>1 DEF Tab
  <2>4. CASE LoadAnswered(c)
    <3>1. CASE call[c].kind = "forced"
      BY <1>1, <1>3, <2>1, <2>3, <2>4, <3>1 DEF LoadAnswered, Forced
    <3>2. CASE call[c].kind # "forced"
      BY <1>1, <1>3, <2>1, <2>3, <2>4, <3>2 DEF LoadAnswered, Settled
    <3>3. QED
      BY <3>1, <3>2
  <2>5. CASE SaveAnswered(c)
    BY <1>1, <1>3, <2>1, <2>2, <2>3, <2>5 DEF SaveAnswered, Applicable
  <2>6. CASE Fail(c)
    <3>1. PICK auth \in BOOLEAN : tab' = [tab EXCEPT ![t] = Failed(t, call[c].kind, auth)]
      BY <1>3, <2>6 DEF Fail
    <3>2. Failed(t, call[c].kind, auth).store = tab[t].store
      BY <1>1 DEF Failed, Tab
    <3>3. QED
      BY <1>1, <3>1, <3>2
  <2>7. QED
    BY <1>3, <2>4, <2>5, <2>6 DEF Answered
<1>4. QED
  BY <1>2, <1>3 DEF Received

LEMMA RecentStay ==
  ASSUME RuntimeInv, NEW t \in Tabs, NEW k \in Keys, tab[t].recent,
         tab[t].store[k] \notin {0, tab'[t].store[k]}, Received(t)
  PROVE  k \in PlainKeys /\ Forced(t)
<1>1. PICK got \in Snapshot : Forced(t) /\ tab'[t].store = Merged(t, Preserving(t, got))
  BY ReceivedStore
<1>2. k \notin DomainKeys
  BY <1>1, PreservedStays DEF RuntimeInv
<1>3. QED
  BY <1>1, <1>2 DEF Keys

LEMMA NotOlder ==
  ASSUME RuntimeInv, NEW t \in Tabs, NEW k \in TableKeys, tab'[t].store[k] < tab[t].store[k]
  PROVE  ~Received(t)
<1>1. TabPart /\ tab[t] \in Tab /\ k \in Keys /\ tab[t].store[k] \in Nat
  <2>1. TabPart /\ tab[t] \in Tab /\ tab[t].store \in [Keys -> Versions]
    BY DEF RuntimeInv, TabPart, Tab, Store
  <2>2. k \in Keys
    BY RuntimeAssumption DEF Keys
  <2>3. QED
    BY <2>1, <2>2, RuntimeAssumption DEF Versions
<1>2. SUFFICES ASSUME Received(t) PROVE FALSE
  OBVIOUS
<1>3. CASE tab'[t].store = tab[t].store
  BY <1>1, <1>3
<1>4. ASSUME NEW got, got.store \in Store, tab'[t].store = Merged(t, got) PROVE FALSE
  <2>1. tab'[t].store[k] >= tab[t].store[k]
    BY <1>1, <1>4, MergedNotOlder
  <2>2. tab'[t].store[k] \in Nat
    <3>1. Merged(t, got)[k] \in {tab[t].store[k], got.store[k]}
      BY <1>1 DEF Merged, Overlay
    <3>2. got.store[k] \in Nat
      BY <1>1, <1>4, RuntimeAssumption DEF Store, Versions
    <3>3. QED
      BY <1>1, <1>4, <3>1, <3>2
  <2>3. QED
    BY <1>1, <2>1, <2>2
<1>5. ASSUME NEW got \in Snapshot, tab'[t].store = Merged(t, Preserving(t, got)) PROVE FALSE
  <2>1. Preserving(t, got).store \in Store
    BY <1>1, PreservingTyped DEF Snapshot
  <2>2. QED
    BY <1>4, <1>5, <2>1
<1>6. QED
  BY <1>2, <1>3, <1>4, <1>5, ReceivedStore

\* A write that is less than eight seconds old is not undone by a broadcast, an
\* answer or a refresh, whenever it was asked for.
THEOREM RecentWritesKept == Spec => RecentWritesStay
<1>1. RuntimeInv => [\A t \in Tabs, k \in Keys :
        tab[t].recent /\ tab[t].store[k] \notin {0, tab'[t].store[k]} =>
          ~Received(t) \/ (k \in PlainKeys /\ Forced(t))]_vars
  BY RecentStay
<1>2. QED
  BY <1>1, RuntimeInvariant, PTL DEF RecentWritesStay

\* A tab's table state goes back to an older version by nothing it receives.
THEOREM TableForward == Spec => TableNeverOlder
<1>1. RuntimeInv => [\A t \in Tabs, k \in TableKeys :
        tab'[t].store[k] < tab[t].store[k] => ~Received(t)]_vars
  BY NotOlder
<1>2. QED
  BY <1>1, RuntimeInvariant, PTL DEF TableNeverOlder

-----------------------------------------------------------------------------
(* Nothing that is written is forgotten.                                    *)

\* What stops the timer of tab t: a save, an invalid session, another tenant.
Stops(t) == Saves(t) \/ tab'[t].locked \/ tab'[t].tenant # tab[t].tenant

LEMMA FlushStaysInTab ==
  ASSUME RuntimeInv, NEW o \in Tabs, NEW new \in Tab, tab' = [tab EXCEPT ![o] = new],
         tab[o].flush => new.flush \/ Stops(o), NEW t \in Tabs, tab[t].flush
  PROVE  tab'[t].flush \/ Stops(t)
  BY DEF RuntimeInv, TabPart

LEMMA FlushOnMerge ==
  ASSUME NEW t \in Tabs, tab[t] \in Tab, NEW new \in Store, NEW after \in Tab, after.flush = tab[t].flush,
         Apply(t, new, after)
  PROVE  \E all \in Tab : tab' = [tab EXCEPT ![t] = all] /\ all.flush = tab[t].flush
<1> DEFINE all == [after EXCEPT !.store = new]
<1>1. all \in Tab /\ all.flush = after.flush
  BY DEF Tab
<1>2. tab' = [tab EXCEPT ![t] = all]
  BY DEF Apply
<1> HIDE DEF all
<1>3. QED
  BY <1>1, <1>2

\* An answer, an error or a broadcast does not stop it, but an answer that the
\* session is not valid does.
LEMMA FlushOnAnswer ==
  ASSUME RuntimeInv, NEW c \in Calls, Answered(c), NEW t \in Tabs, tab[t].flush
  PROVE  tab'[t].flush \/ Stops(t)
<1> DEFINE o == call[c].tab
<1>1. CASE tab' = tab
  BY <1>1
<1>2. TabPart /\ tab \in [Tabs -> Tab] /\ CallPart
  BY DEF RuntimeInv, TabPart
<1>3. call[c].kind # "none"
  BY DEF Answered, LoadAnswered, SaveAnswered, Fail
<1>4. o \in Tabs /\ tab[o] \in Tab /\ call[c].got \in Snapshot
      /\ Saved(o) \in Tab /\ Saved(o).flush = tab[o].flush
  <2>1. o \in Tabs /\ tab[o] \in Tab /\ call[c].got \in Snapshot
    BY <1>2, <1>3, AnswerTyped
  <2>2. QED
    BY <2>1 DEF Saved, Tab
<1>5. CASE LoadAnswered(c) /\ tab' # tab
  <2>1. PICK new \in Store : Apply(o, new, tab[o])
    <3>1. Preserving(o, call[c].got) \in Snapshot
      BY <1>2, <1>4, PreservingTyped
    <3>2. Merged(o, call[c].got) \in Store /\ Merged(o, Preserving(o, call[c].got)) \in Store
      BY <1>3, <1>4, <3>1, LoadedMade
    <3>3. QED
      BY <1>5, <3>2 DEF LoadAnswered
  <2>2. QED
    BY <1>4, <2>1, FlushOnMerge, FlushStaysInTab
<1>6. CASE SaveAnswered(c)
  <2>1. CASE tab' = [tab EXCEPT ![o] = Saved(o)]
    BY <1>4, <2>1, FlushStaysInTab
  <2>2. CASE Apply(o, Merged(o, call[c].got), Saved(o))
    <3>1. Merged(o, call[c].got) \in Store
      BY <1>3, <1>4, LoadedMade
    <3>2. QED
      BY <1>4, <2>2, <3>1, FlushOnMerge, FlushStaysInTab
  <2>3. QED
    BY <1>6, <2>1, <2>2 DEF SaveAnswered
<1>7. CASE Fail(c)
  <2>1. PICK auth \in BOOLEAN : tab' = [tab EXCEPT ![o] = Failed(o, call[c].kind, auth)]
    BY <1>7 DEF Fail
  <2> DEFINE new == Failed(o, call[c].kind, auth)
  <2>2. new \in Tab /\ (new.locked \/ new.flush = tab[o].flush)
    <3>1. CASE call[c].kind = "post"
      <4>1. new = [tab[o] EXCEPT !.dirty = ~auth, !.saving = FALSE, !.flush = tab[o].flush /\ ~auth,
                                 !.locked = tab[o].locked \/ auth]
        BY <1>4, <3>1 DEF Failed, Tab
      <4>2. QED
        BY <1>4, <4>1 DEF Tab
    <3>2. CASE call[c].kind # "post"
      <4>1. new = [tab[o] EXCEPT !.locked = tab[o].locked \/ auth]
        BY <1>4, <3>2 DEF Failed, Tab
      <4>2. QED
        BY <1>4, <4>1 DEF Tab
    <3>3. QED
      BY <3>1, <3>2
  <2> HIDE DEF new
  <2>3. tab' = [tab EXCEPT ![o] = new]
    BY <2>1 DEF new
  <2>4. tab'[o] = new
    BY <1>2, <1>4, <2>3
  <2>5. QED
    BY <1>4, <2>2, <2>3, <2>4, FlushStaysInTab DEF Stops
<1>8. QED
  BY <1>1, <1>5, <1>6, <1>7 DEF Answered

LEMMA FlushOnSave ==
  ASSUME RuntimeInv, NEW o \in Tabs, NEW c \in Calls, Save(o, c), NEW t \in Tabs, tab[t].flush
  PROVE  tab'[t].flush \/ Stops(t)
<1>1. PICK byTimer \in BOOLEAN :
        tab' = [tab EXCEPT ![o].flush = @ /\ ~byTimer, ![o].saving = TRUE]
  BY DEF Save
<1> DEFINE new == [tab[o] EXCEPT !.flush = tab[o].flush /\ ~byTimer, !.saving = TRUE]
<1>2. tab \in [Tabs -> Tab] /\ tab[o] \in Tab /\ call \in [Calls -> Call \cup {NoCall}]
  BY DEF RuntimeInv, TabPart, CallPart
<1>3. new \in Tab
  BY <1>2 DEF Tab
<1>4. tab' = [tab EXCEPT ![o] = new]
  BY <1>1, <1>2 DEF Tab
<1> HIDE DEF new
<1>5. Saves(o)
  <2>1. call[c] = NoCall /\ call'[c] = Request("post", o, tab[o].store)
    BY <1>2 DEF Save
  <2>2. call'[c].kind = "post" /\ call'[c].tab = o
    BY <2>1 DEF Request
  <2>3. QED
    BY <2>1, <2>2 DEF Saves
<1>6. QED
  BY <1>3, <1>4, <1>5, FlushStaysInTab DEF Stops

LEMMA FlushOnWrite ==
  ASSUME RuntimeInv, NEW o \in Tabs, NEW k \in Keys, NEW n \in 1 .. MaxWrites, NEW persist \in BOOLEAN,
         Write(o, k, n, persist)
  PROVE  /\ \A t \in Tabs : tab[t].flush => tab'[t].flush
         /\ persist => tab'[o].flush \/ tab'[o].locked
<1> DEFINE store == [tab[o].store EXCEPT ![k] = n]
           new == [tab[o] EXCEPT !.store = store, !.recent = TRUE, !.dirty = tab[o].dirty \/ persist,
                                 !.flush = tab[o].flush \/ (persist /\ ~tab[o].locked)]
<1>1. tab \in [Tabs -> Tab] /\ tab[o] \in Tab
  BY DEF RuntimeInv, TabPart
<1>2. tab' = [tab EXCEPT ![o] = new]
  BY <1>1 DEF Write, Tab
<1>3. new.flush = (tab[o].flush \/ (persist /\ ~tab[o].locked)) /\ new.locked = tab[o].locked
  BY <1>1 DEF Tab
<1> HIDE DEF new
<1>4. \A t \in Tabs : tab'[t] = IF t = o THEN new ELSE tab[t]
  BY <1>1, <1>2
<1>5. QED
  BY <1>3, <1>4

\* The steps that give a tab other flags, or an empty copy.
LEMMA FlushOnFlags ==
  ASSUME RuntimeInv, NEW o \in Tabs, NEW t \in Tabs, tab[t].flush,
         GraceEnds(o) \/ Hear(o) \/ Unlock(o) \/ \E c \in Calls : Clear(o, c)
  PROVE  tab'[t].flush \/ Stops(t)
<1>1. tab[o] \in Tab /\ MailPart /\ TabPart
  BY DEF RuntimeInv, TabPart
<1>2. CASE tab' = tab
  BY <1>2
<1>3. \/ \E new \in Tab : tab' = [tab EXCEPT ![o] = new] /\ new.flush = tab[o].flush
      \/ tab' = tab
  <2>1. CASE GraceEnds(o)
    <3>1. [tab[o] EXCEPT !.recent = FALSE] \in Tab /\ [tab[o] EXCEPT !.recent = FALSE].flush = tab[o].flush
      BY <1>1 DEF Tab
    <3>2. QED
      BY <2>1, <3>1 DEF GraceEnds
  <2>2. CASE Hear(o)
    <3> DEFINE store == Merged(o, [of |-> Anonymous, store |-> Head(mail[o])])
    <3>1. store \in Store
      <4>1. mail[o] \in Seq(Store) /\ mail[o] # << >> /\ tab[o].tenant \in Tenants \cup {Anonymous}
        BY <1>1, <2>2 DEF Hear, MailPart, Tab
      <4>2. Head(mail[o]) \in Store /\ Head(mail[o]) = mail[o][1] /\ 1 \in 1 .. Len(mail[o])
        BY <4>1
      <4>3. [of |-> Anonymous, store |-> Head(mail[o])] \in Snapshot
        BY <4>2 DEF Snapshot
      <4>4. tab[o].tenant # Anonymous => MadeFor(tab[o].tenant, Head(mail[o]))
        BY <1>1, <4>2 DEF MailPart
      <4>5. tab[o].tenant \in Tenants => tab[o].tenant # Anonymous
        BY RuntimeAssumption
      <4>6. QED
        BY <1>1, <4>3, <4>4, <4>5, MergedMade
    <3> HIDE DEF store
    <3>2. [tab[o] EXCEPT !.store = store] \in Tab /\ [tab[o] EXCEPT !.store = store].flush = tab[o].flush
      BY <1>1, <3>1 DEF Tab
    <3>3. tab' = tab \/ tab' = [tab EXCEPT ![o] = [tab[o] EXCEPT !.store = store]]
      BY <2>2 DEF Hear, store
    <3>4. QED
      BY <3>2, <3>3
  <2>3. CASE Unlock(o)
    <3>1. [tab[o] EXCEPT !.locked = FALSE] \in Tab /\ [tab[o] EXCEPT !.locked = FALSE].flush = tab[o].flush
      BY <1>1 DEF Tab
    <3>2. QED
      BY <2>3, <3>1 DEF Unlock
  <2>4. CASE \E c \in Calls : Clear(o, c)
    <3> DEFINE new == [tab[o] EXCEPT !.store = Nothing, !.dirty = FALSE]
    <3>1. new \in Tab /\ new.flush = tab[o].flush
      BY <1>1, NothingMade DEF Tab
    <3>2. tab' = [tab EXCEPT ![o] = new]
      BY <2>4 DEF Clear
    <3> HIDE DEF new
    <3>3. QED
      BY <3>1, <3>2
  <2>5. QED
    BY <2>1, <2>2, <2>3, <2>4
<1>4. QED
  BY <1>2, <1>3, FlushStaysInTab

\* A tab that signs out or in has another tenant.
LEMMA FlushOnSign ==
  ASSUME RuntimeInv, NEW o \in Tabs, NEW t \in Tabs, tab[t].flush,
         SignIn(o) \/ \E c \in Calls : SignOut(o, c)
  PROVE  tab'[t].flush \/ Stops(t)
<1>1. PICK u \in Tenants \cup {Anonymous} : Reset(o, u) /\ u # tab[o].tenant
  BY SessionTyped DEF SignIn, SignOut
<1> DEFINE new == [NewTab(u) EXCEPT !.locked = tab[o].locked /\ u = Anonymous]
<1>2. tab \in [Tabs -> Tab] /\ tab[o] \in Tab
  BY DEF RuntimeInv, TabPart
<1>3. new \in Tab /\ new.tenant = u
  BY <1>2, NewTabTyped DEF Tab
<1>4. tab' = [tab EXCEPT ![o] = new]
  BY <1>1 DEF Reset
<1> HIDE DEF new
<1>5. tab'[o].tenant # tab[o].tenant
  BY <1>1, <1>2, <1>3, <1>4
<1>6. QED
  BY <1>3, <1>4, <1>5, FlushStaysInTab DEF Stops

LEMMA FlushStays ==
  ASSUME RuntimeInv, Next, NEW t \in Tabs, tab[t].flush, ~tab[t].locked
  PROVE  tab'[t].flush \/ Stops(t)
<1>1. CASE \E c \in Calls : Server(c)
  BY <1>1 DEF Server, Read, Prune, Upsert, Delete
<1>2. CASE \E c \in Calls : Answered(c)
  BY <1>2, FlushOnAnswer
<1>3. CASE \E o \in Tabs, c \in Calls : Save(o, c)
  BY <1>3, FlushOnSave
<1>4. CASE \E o \in Tabs, c \in Calls : Bootstrap(o, c) \/ \E force \in BOOLEAN : Refresh(o, c, force)
  BY <1>4 DEF Bootstrap, Refresh, Load
<1>5. CASE \E o \in Tabs : GraceEnds(o) \/ Hear(o) \/ Unlock(o) \/ \E c \in Calls : Clear(o, c)
  BY <1>5, FlushOnFlags
<1>6. CASE \E o \in Tabs : SignIn(o) \/ \E c \in Calls : SignOut(o, c)
  BY <1>6, FlushOnSign
<1>7. CASE \E o \in Tabs : TimerStopped(o)
  BY <1>7 DEF TimerStopped, RuntimeInv, TabPart
<1>8. CASE \E o \in Tabs, k \in Keys, n \in 1 .. MaxWrites, persist \in BOOLEAN : Write(o, k, n, persist)
  BY <1>8, FlushOnWrite
<1>9. CASE \E u \in Tenants \cup {Anonymous} : Login(u)
  BY <1>9 DEF Login
<1>10. QED
  BY <1>1, <1>2, <1>3, <1>4, <1>5, <1>6, <1>7, <1>8, <1>9 DEF Next

\* The timer of a tab with something unsent is set, and its requests are not stopped.
UnsentInv ==
  /\ unsent \in [Tabs -> BOOLEAN]
  /\ \A t \in Tabs : unsent[t] => tab[t].flush /\ ~tab[t].locked

LEMMA UnsentNext == RuntimeInv /\ UnsentInv /\ [HNext]_hvars => UnsentInv'
<1> SUFFICES ASSUME RuntimeInv, UnsentInv, [HNext]_hvars PROVE UnsentInv'
  OBVIOUS
<1>1. CASE UNCHANGED hvars
  BY <1>1 DEF hvars, UnsentInv
<1>2. CASE HNext
  <2>1. unsent' = [t \in Tabs |-> /\ tab'[t].tenant = tab[t].tenant /\ ~tab'[t].locked /\ ~Saves(t)
                                  /\ unsent[t] \/ Writes(t)]
    BY <1>2 DEF HNext
  <2>2. unsent' \in [Tabs -> BOOLEAN]
    BY <2>1 DEF Saves, Writes, UnsentInv
  <2>3. ASSUME NEW t \in Tabs, unsent'[t] PROVE tab'[t].flush /\ ~tab'[t].locked
    <3>1. ~Stops(t) /\ (unsent[t] \/ Writes(t)) /\ ~tab'[t].locked
      BY <2>1, <2>3 DEF Stops
    <3>2. CASE unsent[t]
      BY <1>2, <3>1, <3>2, FlushStays DEF UnsentInv, HNext
    <3>3. CASE Writes(t)
      BY <3>1, <3>3, FlushOnWrite DEF Writes
    <3>4. QED
      BY <3>1, <3>2, <3>3
  <2>4. QED
    BY <2>2, <2>3 DEF UnsentInv
<1>3. QED
  BY <1>1, <1>2

LEMMA HistoryOfRuntime == HSpec => Spec
<1>1. HInit => Init
  BY DEF HInit
<1>2. [HNext]_hvars => [Next]_vars
  BY DEF HNext, hvars, vars
<1>3. QED
  BY <1>1, <1>2, PTL DEF HSpec, Spec

\* As long as the session is valid and the tenant stays, a value that was written to
\* be saved is posted or has its timer set, whatever is answered, heard, refreshed or
\* cleared meanwhile.
THEOREM UnsentScheduled == HSpec => []UnsentIsScheduled
<1>1. HInit => UnsentInv
  BY DEF HInit, UnsentInv
<1>2. UnsentInv => UnsentIsScheduled
  BY DEF UnsentInv, UnsentIsScheduled
<1>3. QED
  BY <1>1, <1>2, UnsentNext, RuntimeInvariant, HistoryOfRuntime, PTL DEF HSpec
=============================================================================
