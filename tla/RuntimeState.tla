---------------------------- MODULE RuntimeState ----------------------------
(***************************************************************************)
(* The key-value state of a branch: a copy in every tab                    *)
(* (lib/client/runtime-state.ts, scope 'tenant') and one row per tenant at *)
(* the server (app/api/runtime/state/[scope]/route.ts).  A tab saves its   *)
(* copy a quarter of a second after a write, shows it to the other tabs,   *)
(* and merges what it is sent.  The values are numbered in the order they  *)
(* were written.                                                           *)
(***************************************************************************)
EXTENDS Naturals, Sequences, FiniteSets

CONSTANTS
  Tabs, Tenants, Anonymous,
  TableKeys,    \* TABLE_RUNTIME_KEYS, which share one version: 0 or one key
  DomainKeys,   \* DOMAIN_RUNTIME_KEYS, the table keys among them
  PlainKeys,    \* any other
  Calls,        \* bounds the requests under way
  MaxWrites,    \* bounds the values
  MaxMail,      \* bounds the broadcasts a tab has not read
  Disturbances  \* what else happens: "switch", "clear", "error", "auth"

ASSUME RuntimeAssumption ==
  /\ TableKeys \subseteq DomainKeys /\ DomainKeys \cap PlainKeys = {}
  /\ Cardinality(TableKeys) <= 1
  /\ Anonymous \notin Tenants
  /\ MaxWrites \in Nat \ {0} /\ MaxMail \in Nat
  /\ Disturbances \subseteq {"switch", "clear", "error", "auth"}

Keys == DomainKeys \cup PlainKeys
Versions == 0 .. MaxWrites
Store == [Keys -> Versions]  \* 0: the key is absent
Nothing == [k \in Keys |-> 0]

\* recent: a write is less than eight seconds old; flush: the save timer is set.
Tab == [tenant : Tenants \cup {Anonymous}, store : Store, dirty : BOOLEAN, flush : BOOLEAN,
        saving : BOOLEAN, recent : BOOLEAN, locked : BOOLEAN]

NewTab(u) == [tenant |-> u, store |-> Nothing, dirty |-> FALSE, flush |-> FALSE,
              saving |-> FALSE, recent |-> FALSE, locked |-> FALSE]

\* What the server has or answers: the tenant its metadata names, if it has any.
Snapshot == [of : Tenants \cup {Anonymous}, store : Store]
Empty == [of |-> Anonymous, store |-> Nothing]
NoRow == [of |-> "absent", store |-> Nothing]

\* "get" and "forced" are GET; stage "prune": a GET that has yet to write back
\* what it dropped; target: the tenant whose row is being written.
Kinds == {"get", "forced", "post", "delete"}
Call == [kind : Kinds, tab : Tabs, stage : {"sent", "read", "prune", "answered"},
         target : Tenants \cup {Anonymous}, body : Store, got : Snapshot]
NoCall == [kind |-> "none"]

VARIABLES
  tab,      \* tab[t]: the module variables of the scope in tab t
  call,     \* call[c]: a request under way
  mail,     \* mail[t]: broadcasts on their way to t
  row,      \* row[u]: the payload of tenant u's row, or NoRow
  session,  \* the tenant of the browser's session cookie
  made      \* made[n]: the tenant value n was written for

vars == <<tab, call, mail, row, session, made>>

-----------------------------------------------------------------------------
(* The server.                                                              *)

Overlay(base, top) == [k \in Keys |-> IF top[k] # 0 THEN top[k] ELSE base[k]]

\* A snapshot with metadata is older than a day, whenever it was made: no code
\* writes a timestamp into it.  The table keys are dropped from it.
Pruned(store) == [k \in Keys |-> IF k \in TableKeys THEN 0 ELSE store[k]]

\* normalizeSnapshot of a payload: one without metadata is given some.
Normalized(u, payload) ==
  IF payload.of = Anonymous THEN [payload EXCEPT !.of = u]
  ELSE [payload EXCEPT !.store = Pruned(@)]

\* The metadata that the client writes names no schema version, so what a tab
\* posts is answered ok and not kept.
PostedSchema == "none"
ServerSchema == "1"

Request(kind, t, body) ==
  [kind |-> kind, tab |-> t, stage |-> "sent", target |-> Anonymous, body |-> body, got |-> Empty]

Incoming(store) == IF PostedSchema = ServerSchema THEN Pruned(store) ELSE Nothing

\* Mutant: the tenant is forgotten before the write.
Target_Lost(stage) == Anonymous

Target(stage) == IF stage = "answered" THEN Anonymous ELSE session

Read(c) ==
  LET u == session
      found == IF row[u] = NoRow THEN Empty ELSE Normalized(u, row[u])
      stage == IF call[c].kind = "post" THEN "read"
               ELSE IF found # Empty /\ found # row[u] THEN "prune" ELSE "answered"
  IN /\ call[c].kind \in Kinds \ {"delete"}
     /\ call[c].stage = "sent" /\ u # Anonymous
     /\ call' = [call EXCEPT ![c].stage = stage, ![c].got = found,
                             ![c].target = Target(stage)]
     /\ UNCHANGED <<tab, mail, row, session, made>>

\* The update of a row that is gone fails, and its error is caught.
Prune(c) ==
  /\ call[c].kind # "none" /\ call[c].stage = "prune"
  /\ call' = [call EXCEPT ![c].stage = "answered", ![c].target = Anonymous]
  /\ row' = [row EXCEPT ![call[c].target] = IF @ = NoRow THEN @ ELSE call[c].got]
  /\ UNCHANGED <<tab, mail, session, made>>

Upsert(c) ==
  LET merged == [of |-> call[c].target,
                 store |-> Pruned(Overlay(call[c].got.store, Incoming(call[c].body)))]
  IN /\ call[c].kind = "post" /\ call[c].stage = "read"
     /\ row' = [row EXCEPT ![call[c].target] = merged]
     /\ call' = [call EXCEPT ![c] = [Request("post", @.tab, Nothing) EXCEPT !.stage = "answered", !.got = merged]]
     /\ UNCHANGED <<tab, mail, session, made>>

Delete(c) ==
  /\ call[c].kind = "delete" /\ call[c].stage = "sent"
  /\ session # Anonymous
  /\ row' = [row EXCEPT ![session] = NoRow]
  /\ call' = [call EXCEPT ![c] = NoCall]
  /\ UNCHANGED <<tab, mail, session, made>>

-----------------------------------------------------------------------------
(* The client.                                                              *)

\* The channel is named after tenant and branch; a tab opens it with its own
\* first broadcast.
Listeners(t) == {o \in Tabs \ {t} : tab[o].tenant = tab[t].tenant}

Broadcast(t, store) ==
  \E open \in SUBSET Listeners(t) :
    /\ \A o \in open : Len(mail[o]) < MaxMail
    /\ mail' = [o \in Tabs |-> IF o \in open THEN Append(mail[o], store) ELSE mail[o]]

\* Mutant: whatever it says it is of.
IdentityMatches_Any(t, snapshot) == TRUE

IdentityMatches(t, snapshot) ==
  tab[t].tenant = Anonymous \/ snapshot.of \in {Anonymous, tab[t].tenant}

\* Mutant: what comes in is always newer.
LocalIsNewer_Never(t, store) == {}

LocalIsNewer(t, store) == {k \in TableKeys : tab[t].store[k] > store[k]}

\* mergeIncomingSnapshot.
Merged(t, snapshot) ==
  IF ~IdentityMatches(t, snapshot) THEN tab[t].store
  ELSE LET kept == LocalIsNewer(t, snapshot.store)
       IN [k \in Keys |-> IF k \in kept THEN tab[t].store[k]
                          ELSE Overlay(tab[t].store, snapshot.store)[k]]

\* Mutant: the age of the last write is not looked at.
Settled_Clean(t) == ~tab[t].dirty /\ ~tab[t].saving

Settled(t) == ~tab[t].dirty /\ ~tab[t].saving /\ ~tab[t].recent

Applicable(t) == ~tab[t].recent

\* The tab takes over a store, and shows it to the others if it is another one.
Apply(t, new, after) ==
  /\ tab' = [tab EXCEPT ![t] = [after EXCEPT !.store = new]]
  /\ IF new = tab[t].store THEN UNCHANGED mail ELSE Broadcast(t, new)

-----------------------------------------------------------------------------

Written == {n \in 1 .. MaxWrites : made[n] # Anonymous}

\* writeRuntimeItem.  A table key may also be given the version that the table
\* state of the server has.
Write(t, k, n, persist) ==
  /\ tab[t].tenant # Anonymous
  /\ \/ n = Cardinality(Written) + 1 /\ made' = [made EXCEPT ![n] = tab[t].tenant]
     \/ n \in Written /\ k \in TableKeys /\ made[n] = tab[t].tenant /\ UNCHANGED made
  /\ n # tab[t].store[k]
  /\ tab' = [tab EXCEPT ![t].store[k] = n, ![t].recent = TRUE,
                        ![t].dirty = @ \/ persist,
                        ![t].flush = @ \/ (persist /\ ~tab[t].locked)]
  /\ Broadcast(t, tab'[t].store)
  /\ UNCHANGED <<call, row, session>>

GraceEnds(t) ==
  /\ tab[t].recent
  /\ tab' = [tab EXCEPT ![t].recent = FALSE]
  /\ UNCHANGED <<call, mail, row, session, made>>

Hear(t) ==
  /\ mail[t] # << >>
  /\ tab' = IF Settled(t)
            THEN [tab EXCEPT ![t].store = Merged(t, [of |-> Anonymous, store |-> Head(mail[t])])]
            ELSE tab
  /\ mail' = [mail EXCEPT ![t] = Tail(@)]
  /\ UNCHANGED <<call, row, session, made>>

\* persistRuntimeScope, by the timer or by the store that has just written.
Save(t, c) ==
  /\ tab[t].tenant # Anonymous /\ ~tab[t].locked
  /\ call[c] = NoCall
  /\ call' = [call EXCEPT ![c] = Request("post", t, tab[t].store)]
  /\ \E byTimer \in BOOLEAN :
       /\ IF byTimer THEN tab[t].flush ELSE tab[t].recent
       /\ tab' = [tab EXCEPT ![t].flush = @ /\ ~byTimer, ![t].saving = TRUE]
  /\ UNCHANGED <<mail, row, session, made>>

\* The timer of a page that was stopped.
TimerStopped(t) ==
  /\ tab[t].flush /\ tab[t].locked
  /\ tab' = [tab EXCEPT ![t].flush = FALSE]
  /\ UNCHANGED <<call, mail, row, session, made>>

Load(t, c, kind) ==
  /\ ~tab[t].locked
  /\ call[c] = NoCall
  /\ call' = [call EXCEPT ![c] = Request(kind, t, Nothing)]
  /\ UNCHANGED <<tab, mail, row, session, made>>

\* bootstrapRuntimeScope.
Bootstrap(t, c) == Load(t, c, "get")

\* refreshRuntimeScope tests before its request as after it, unless it is forced.
Refresh(t, c, force) ==
  /\ force \/ (Settled(t) /\ ~tab[t].flush)
  /\ Load(t, c, IF force THEN "forced" ELSE "get")

\* mergePreservingVolatileLocalKeys: the domain keys the tab has stay.  It is an
\* option of its own; the only caller that forces a refresh also sets it.
Preserving(t, snapshot) ==
  [snapshot EXCEPT !.store =
     [k \in Keys |-> IF k \in DomainKeys /\ tab[t].store[k] # 0 THEN tab[t].store[k] ELSE @[k]]]

LoadAnswered(c) ==
  LET t == call[c].tab
      got == call[c].got
  IN /\ call[c].kind \in {"get", "forced"} /\ call[c].stage = "answered"
     /\ \/ call[c].kind = "forced" /\ Apply(t, Merged(t, Preserving(t, got)), tab[t])
        \/ call[c].kind = "get" /\ Settled(t) /\ Apply(t, Merged(t, got), tab[t])
        \/ call[c].kind = "get" /\ ~Settled(t) /\ UNCHANGED <<tab, mail>>
     /\ call' = [call EXCEPT ![c] = NoCall]
     /\ UNCHANGED <<row, session, made>>

\* Mutant: the answer stops the timer of a later write.
Saved_StopsTimer(t) == [tab[t] EXCEPT !.dirty = FALSE, !.saving = FALSE, !.flush = FALSE]

Saved(t) == [tab[t] EXCEPT !.dirty = FALSE, !.saving = FALSE]

SaveAnswered(c) ==
  LET t == call[c].tab
  IN /\ call[c].kind = "post" /\ call[c].stage = "answered"
     /\ \/ Applicable(t) /\ Apply(t, Merged(t, call[c].got), Saved(t))
        \/ ~Applicable(t) /\ tab' = [tab EXCEPT ![t] = Saved(t)] /\ UNCHANGED mail
     /\ call' = [call EXCEPT ![c] = NoCall]
     /\ UNCHANGED <<row, session, made>>

\* An answer is lost or is an error; a failed save is not tried again.  An
\* answer that the session is not valid stops all requests of the page.
Failed(t, kind, auth) ==
  IF kind = "post"
  THEN [tab[t] EXCEPT !.dirty = ~auth, !.saving = FALSE, !.flush = @ /\ ~auth, !.locked = @ \/ auth]
  ELSE [tab[t] EXCEPT !.locked = @ \/ auth]

Fail(c) ==
  /\ call[c].kind # "none"
  /\ \/ "error" \in Disturbances
        /\ tab' = [tab EXCEPT ![call[c].tab] = Failed(call[c].tab, call[c].kind, FALSE)]
     \/ ("auth" \in Disturbances \/ session = Anonymous) /\ call[c].stage = "sent"
        /\ tab' = [tab EXCEPT ![call[c].tab] = Failed(call[c].tab, call[c].kind, TRUE)]
  /\ call' = [call EXCEPT ![c] = NoCall]
  /\ UNCHANGED <<mail, row, session, made>>

\* resetRuntimeAuthFailureLock.
Unlock(t) ==
  /\ tab[t].locked
  /\ session # Anonymous
  /\ tab' = [tab EXCEPT ![t].locked = FALSE]
  /\ UNCHANGED <<call, mail, row, session, made>>

-----------------------------------------------------------------------------

SendDelete(t, c) ==
  \/ tab[t].locked /\ UNCHANGED call
  \/ ~tab[t].locked /\ call[c] = NoCall /\ call' = [call EXCEPT ![c] = Request("delete", t, Nothing)]

\* clearRuntimeScope.
Clear(t, c) ==
  /\ "clear" \in Disturbances
  /\ SendDelete(t, c)
  /\ tab' = [tab EXCEPT ![t].store = Nothing, ![t].dirty = FALSE]
  /\ Broadcast(t, Nothing)
  /\ UNCHANGED <<row, session, made>>

\* Somebody logs in or out in another page of the browser.
Login(u) ==
  /\ "switch" \in Disturbances
  /\ session' = u
  /\ UNCHANGED <<tab, call, mail, row, made>>

\* The provider sees the session of another tenant: it forgets the old one,
\* clears the scope, and takes on the new one.
Reset(t, u) ==
  /\ tab' = [tab EXCEPT ![t] = [NewTab(u) EXCEPT !.locked = tab[t].locked /\ u = Anonymous]]
  /\ mail' = [mail EXCEPT ![t] = << >>]

SignOut(t, c) ==
  /\ tab[t].tenant \notin {Anonymous, session}
  /\ SendDelete(t, c)
  /\ Reset(t, Anonymous)
  /\ UNCHANGED <<row, session, made>>

SignIn(t) ==
  /\ tab[t].tenant = Anonymous /\ session # Anonymous
  /\ Reset(t, session)
  /\ UNCHANGED <<call, row, session, made>>

-----------------------------------------------------------------------------

\* A tenant's row may date from before the metadata was introduced.
OldRow(u, k) == row = [v \in Tenants |->
  IF v = u THEN [of |-> Anonymous, store |-> [Nothing EXCEPT ![k] = 1]] ELSE NoRow]

Init ==
  /\ \/ row = [u \in Tenants |-> NoRow] /\ made = [n \in 1 .. MaxWrites |-> Anonymous]
     \/ \E u \in Tenants, k \in Keys :
          OldRow(u, k) /\ made = [n \in 1 .. MaxWrites |-> IF n = 1 THEN u ELSE Anonymous]
  /\ session \in Tenants
  /\ tab = [t \in Tabs |-> NewTab(session)]
  /\ call = [c \in Calls |-> NoCall]
  /\ mail = [t \in Tabs |-> << >>]

Server(c) == Read(c) \/ Prune(c) \/ Upsert(c) \/ Delete(c)

Answered(c) == LoadAnswered(c) \/ SaveAnswered(c) \/ Fail(c)

Next ==
  \/ \E c \in Calls : Server(c) \/ Answered(c)
  \/ \E t \in Tabs, c \in Calls :
       Save(t, c) \/ Clear(t, c) \/ SignOut(t, c) \/ Bootstrap(t, c)
       \/ \E force \in BOOLEAN : Refresh(t, c, force)
  \/ \E t \in Tabs : GraceEnds(t) \/ Hear(t) \/ TimerStopped(t) \/ Unlock(t) \/ SignIn(t)
  \/ \E t \in Tabs, k \in Keys, n \in 1 .. MaxWrites, persist \in BOOLEAN : Write(t, k, n, persist)
  \/ \E u \in Tenants \cup {Anonymous} : Login(u)

Spec == Init /\ [][Next]_vars

-----------------------------------------------------------------------------
TypeOK ==
  /\ tab \in [Tabs -> Tab]
  /\ \A c \in Calls : call[c] \in Call \cup {NoCall}
  /\ \A c \in Calls : call[c].kind # "none" /\ call[c].stage \in {"read", "prune"} => call[c].target \in Tenants
  /\ \A t \in Tabs : mail[t] \in Seq(Store)
  /\ \A u \in Tenants : row[u] \in Snapshot \cup {NoRow}
  /\ session \in Tenants \cup {Anonymous}
  /\ made \in [1 .. MaxWrites -> Tenants \cup {Anonymous}]

MadeFor(u, store) == \A k \in Keys : store[k] = 0 \/ made[store[k]] = u

\* "Foreign tenant snapshots remain rejected"
\* (verify-runtime-tenant-snapshot-hydration.mjs): whatever sessions, answers and
\* broadcasts come and go meanwhile, a tab shows its own tenant's values only, and
\* a row holds its own tenant's (no row is written from what a tab posts: Incoming).
TenantsApart ==
  /\ \A t \in Tabs : tab[t].tenant # Anonymous => MadeFor(tab[t].tenant, tab[t].store)
  /\ \A u \in Tenants : row[u] # NoRow => MadeFor(u, row[u].store)

Received(t) ==
  \/ Hear(t)
  \/ \E c \in Calls : call[c].kind # "none" /\ call[c].tab = t /\ Answered(c)

Forced(t) == \E c \in Calls : call[c].kind = "forced" /\ call[c].tab = t /\ LoadAnswered(c)

\* "Cross-tab snapshots must not overwrite a recent local mutation while the
\* local write grace window is active" (PERSISTENCE_AND_HYDRATION_RULES.md), nor
\* does an answer, whenever its request was made; but a forced refresh may
\* overwrite a key of no domain.
RecentWritesStay ==
  [][\A t \in Tabs, k \in Keys :
       tab[t].recent /\ tab[t].store[k] \notin {0, tab'[t].store[k]} =>
         ~Received(t) \/ (k \in PlainKeys /\ Forced(t))]_vars

\* Stale table snapshots are rejected: no broadcast and no answer, however late,
\* takes a tab's table state back to an older version.
TableNeverOlder ==
  [][\A t \in Tabs, k \in TableKeys : tab'[t].store[k] < tab[t].store[k] => ~Received(t)]_vars
=============================================================================
