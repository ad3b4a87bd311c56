------------------------- MODULE TableOrdersProofs -------------------------
(***************************************************************************)
(* Theorems about TableOrders, for any number of requests, tables,         *)
(* products, keys and accounts.                                            *)
(***************************************************************************)
EXTENDS TableOrders, FiniteSetTheorems, WellFoundedInduction, TLAPS

-----------------------------------------------------------------------------
(* Amounts are integers, whatever rows they are summed over.                *)

LEMMA DecimalToNumberInt == \A v : DecimalToNumber(v) \in Int
  BY DEF DecimalToNumber

LEMMA ItemTotalInt == \A rows : ItemTotal(rows) \in Int
  BY DecimalToNumberInt, Zenon DEF ItemTotal

LEMMA SumInt == \A rows : Sum(rows) \in Int
  BY DecimalToNumberInt, Zenon DEF Sum

LEMMA OrderTotalInt == \A t, ord : ord \in Order => OrderTotal(t, ord) \in Int
  BY ItemTotalInt DEF OrderTotal, Order

LEMMA RemainingTotalInt ==
  \A ord : \A bill, paid \in Int : RemainingTotal(bill, paid, ord) \in Nat
  BY DEF RemainingTotal

LEMMA PartsInt ==
  \A o \in Offer, n \in Int : CashPart(o, n) \in Int /\ AccountPart(o, n) \in Int
  BY DEF CashPart, AccountPart, Offer, Lesser, Larger, NotSent

LEMMA StoredInt == \A p \in Payment : StoredCash(p) \in Int /\ StoredAccount(p) \in Int
  BY DEF StoredCash, StoredAccount, Payment, Offer, NotSent

-----------------------------------------------------------------------------
(* Sums.  A sum takes the elements of a set in the order in which CHOOSE    *)
(* gives them; on a finite set the order does not matter.                   *)

Pick(s) == CHOOSE x \in s : TRUE

\* w[s] is the sum of the weights f of the elements of s, for every part s of S.
Sums(w, S, f) ==
  \A s \in SUBSET S : w[s] = IF s = {} THEN 0 ELSE f[Pick(s)] + w[s \ {Pick(s)}]

\* Weights are integers: the lemmas below name it, which the solvers need to cite them.
Weights(f, S) == \A x \in S : f[x] \in Int

\* A set of parts of a finite set has a smallest member.
LEMMA SmallestPart ==
  ASSUME NEW S, IsFiniteSet(S), NEW T, T \subseteq SUBSET S, T # {}
  PROVE  \E s \in T : \A u \in T : ~(u \subseteq s /\ u # s)
<1>1. FiniteSubsetsOf(S) = SUBSET S
  BY FS_FiniteSubsetsOfFinite
<1>2. IsWellFoundedOn(StrictSubsetOrdering(S), SUBSET S)
  BY <1>1, FS_StrictSubsetOrderingWellFounded
<1>3. \E s \in T : \A u \in T : ~(<<u, s>> \in StrictSubsetOrdering(S))
  BY <1>2, WFMin
<1>4. QED
  BY <1>3 DEF StrictSubsetOrdering

LEMMA PickIn == ASSUME NEW s, s # {} PROVE Pick(s) \in s
  BY DEF Pick

LEMMA SumsUnique ==
  ASSUME NEW S, IsFiniteSet(S), NEW f, NEW v, NEW w, NEW R, Sums(v, S, f), Sums(w, R, f), S \subseteq R
  PROVE  \A s \in SUBSET S : v[s] = w[s]
<1> DEFINE Differ == {s \in SUBSET S : v[s] # w[s]}
<1>1. SUFFICES ASSUME Differ # {} PROVE FALSE
  OBVIOUS
<1>2. PICK s \in Differ : \A u \in Differ : ~(u \subseteq s /\ u # s)
  <2>1. Differ \subseteq SUBSET S
    OBVIOUS
  <2> HIDE DEF Differ
  <2>2. QED
    BY <1>1, <2>1, SmallestPart
<1>3. s # {}
  BY <1>2 DEF Sums
<1>4. Pick(s) \in s
  BY <1>3, PickIn
<1>5. v[s \ {Pick(s)}] = w[s \ {Pick(s)}]
  BY <1>2, <1>4
<1>6. v[s] = f[Pick(s)] + v[s \ {Pick(s)}] /\ w[s] = f[Pick(s)] + w[s \ {Pick(s)}]
  BY <1>2, <1>3 DEF Sums
<1>7. QED
  BY <1>2, <1>5, <1>6

LEMMA SumsExist ==
  ASSUME NEW S, IsFiniteSet(S), NEW f, Weights(f, S)
  PROVE  \E w \in [SUBSET S -> Int] : Sums(w, S, f)
<1> DEFINE Has(s) == \E w \in [SUBSET s -> Int] : Sums(w, s, f)
           Lacking == {s \in SUBSET S : ~Has(s)}
           W(s) == CHOOSE w : w \in [SUBSET s -> Int] /\ Sums(w, s, f)
           V(s) == W(s)[s]
<1>1. SUFFICES ASSUME Lacking # {} PROVE FALSE
  OBVIOUS
<1>2. PICK s \in Lacking : \A u \in Lacking : ~(u \subseteq s /\ u # s)
  <2> HIDE DEF Lacking
  <2>1. Lacking \subseteq SUBSET S
    BY DEF Lacking
  <2>2. QED
    BY <1>1, <2>1, SmallestPart
<1>3. \A u \in SUBSET s : u # s => Has(u)
  BY <1>2
<1>4. \A u \in SUBSET s : u # s => W(u) \in [SUBSET u -> Int] /\ Sums(W(u), u, f)
  <2> HIDE DEF Has
  <2>1. SUFFICES ASSUME NEW u \in SUBSET s, u # s
                 PROVE  W(u) \in [SUBSET u -> Int] /\ Sums(W(u), u, f)
    OBVIOUS
  <2>2. \E w : w \in [SUBSET u -> Int] /\ Sums(w, u, f)
    BY <1>3, <2>1 DEF Has
  <2>3. QED
    BY <2>2
<1> HIDE DEF W
<1> DEFINE Step(u) == IF u = {} THEN 0 ELSE f[Pick(u)] + V(u \ {Pick(u)})
           w == [u \in SUBSET s |-> Step(u)]
<1>5. \A u \in SUBSET s : u # {} =>
        Pick(u) \in u /\ f[Pick(u)] \in Int /\ u \ {Pick(u)} \in SUBSET s /\ u \ {Pick(u)} # s
  BY <1>2, PickIn DEF Weights
<1>6. \A u \in SUBSET s : u # s => V(u) \in Int
  BY <1>4
<1> HIDE DEF V
<1>7. \A u \in SUBSET s : Step(u) \in Int
  BY <1>5, <1>6
<1>8. w \in [SUBSET s -> Int]
  BY <1>7
<1>9. \A u \in SUBSET s : u # s => V(u) = Step(u)
  <2>1. SUFFICES ASSUME NEW u \in SUBSET s, u # s PROVE V(u) = Step(u)
    OBVIOUS
  <2>2. CASE u = {}
    BY <1>4, <2>1, <2>2 DEF V, Sums
  <2>3. CASE u # {}
    <3> DEFINE z == u \ {Pick(u)}
    <3>1. z \in SUBSET s /\ z # s /\ z \subseteq u /\ IsFiniteSet(z)
      BY <1>2, <1>5, <2>3, FS_Subset
    <3>2. V(u) = f[Pick(u)] + W(u)[z]
      BY <1>4, <2>1, <2>3 DEF V, Sums
    <3>3. Sums(W(z), z, f) /\ Sums(W(u), u, f)
      BY <1>4, <2>1, <3>1
    <3>4. W(z)[z] = W(u)[z]
      <4> HIDE DEF z
      <4>1. \A y \in SUBSET z : W(z)[y] = W(u)[y]
        BY <3>1, <3>3, SumsUnique
      <4>2. QED
        BY <4>1
    <3>5. QED
      BY <2>3, <3>2, <3>4 DEF V
  <2>4. QED
    BY <2>2, <2>3
<1>10. Sums(w, s, f)
  <2>1. SUFFICES ASSUME NEW u \in SUBSET s
                 PROVE  w[u] = IF u = {} THEN 0 ELSE f[Pick(u)] + w[u \ {Pick(u)}]
    BY DEF Sums
  <2>2. w[u] = Step(u)
    OBVIOUS
  <2>3. u # {} => w[u \ {Pick(u)}] = V(u \ {Pick(u)})
    BY <1>5, <1>9
  <2> HIDE DEF w
  <2>4. QED
    BY <2>2, <2>3
<1>11. QED
  <2> HIDE DEF w
  <2>1. Has(s)
    BY <1>8, <1>10
  <2>2. QED
    BY <1>2, <2>1

\* An element may be counted first.
LEMMA SumsAnyOrder ==
  ASSUME NEW S, IsFiniteSet(S), NEW f, Weights(f, S),
         NEW w \in [SUBSET S -> Int], Sums(w, S, f), NEW x \in S
  PROVE  w[S] = f[x] + w[S \ {x}]
<1> DEFINE Wrong == {u \in SUBSET S : \E z \in u : w[u] # f[z] + w[u \ {z}]}
<1>1. SUFFICES ASSUME Wrong # {} PROVE FALSE
  OBVIOUS
<1>2. PICK t \in Wrong : \A u \in Wrong : ~(u \subseteq t /\ u # t)
  <2>1. Wrong \subseteq SUBSET S
    OBVIOUS
  <2> HIDE DEF Wrong
  <2>2. QED
    BY <1>1, <2>1, SmallestPart
<1>3. PICK z \in t : w[t] # f[z] + w[t \ {z}]
  BY <1>2
<1> DEFINE y == Pick(t)
<1>4. y \in t /\ w[t] = f[y] + w[t \ {y}]
  BY <1>2, <1>3, PickIn DEF Sums
<1> HIDE DEF y
<1>5. z # y
  BY <1>3, <1>4
<1>6. t \ {z} \in SUBSET S /\ t \ {y} \in SUBSET S /\ (t \ {z}) \ {y} \in SUBSET S
      /\ t \ {z} \notin Wrong /\ t \ {y} \notin Wrong
  BY <1>2, <1>4
<1> DEFINE n == w[(t \ {z}) \ {y}]
<1>7. w[t \ {y}] = f[z] + n /\ w[t \ {z}] = f[y] + n
  <2>1. w[t \ {y}] = f[z] + w[(t \ {y}) \ {z}] /\ w[t \ {z}] = f[y] + w[(t \ {z}) \ {y}]
    BY <1>4, <1>5, <1>6
  <2>2. (t \ {y}) \ {z} = (t \ {z}) \ {y}
    OBVIOUS
  <2>3. QED
    BY <2>1, <2>2
<1>8. f[z] \in Int /\ f[y] \in Int /\ n \in Int
  BY <1>2, <1>4, <1>6 DEF Weights
<1> HIDE DEF n
<1>9. f[y] + (f[z] + n) = f[z] + (f[y] + n)
  BY <1>8
<1>10. QED
  BY <1>3, <1>4, <1>7, <1>9

LEMMA SumsAdd ==
  ASSUME NEW S, IsFiniteSet(S), NEW x, x \notin S, NEW f, Weights(f, S \cup {x})
  PROVE  \E w \in [SUBSET (S \cup {x}) -> Int] :
           Sums(w, S \cup {x}, f) /\ w[S \cup {x}] = f[x] + w[S]
<1>1. PICK R : R = S \cup {x}
  OBVIOUS
<1>2. IsFiniteSet(R)
  BY <1>1, FS_AddElement
<1>3. Weights(f, R) /\ x \in R
  BY <1>1
<1>4. PICK w \in [SUBSET R -> Int] : Sums(w, R, f)
  BY <1>2, <1>3, SumsExist
<1>5. w[R] = f[x] + w[R \ {x}]
  BY <1>2, <1>3, <1>4, SumsAnyOrder
<1>6. R \ {x} = S
  BY <1>1
<1>7. w[R] = f[x] + w[S]
  BY <1>5, <1>6, Zenon
<1>8. QED
  BY <1>1, <1>4, <1>7, Zenon

-----------------------------------------------------------------------------
(* The amounts of payments and the values of lines.                         *)

AmountOf == [p \in Payment |-> p.amount]
ValueOf  == [l \in Line |-> l.qty * Price[l.product]]

PaidSums(S) == CHOOSE g : g = [s \in SUBSET S |->
                 IF s = {} THEN 0 ELSE Pick(s).amount + g[s \ {Pick(s)}]]
LineSums(S) == CHOOSE g : g = [s \in SUBSET S |->
                 IF s = {} THEN 0 ELSE Pick(s).qty * Price[Pick(s).product] + g[s \ {Pick(s)}]]

LEMMA SumIs == \A S : Sum(S) = DecimalToNumber(PaidSums(S)[S])
  BY DEF Sum, MapThenSumSet, MapThenFoldSet, PaidSums, Pick

LEMMA ItemTotalIs == \A S : ItemTotal(S) = DecimalToNumber(LineSums(S)[S])
  BY DEF ItemTotal, MapThenSumSet, MapThenFoldSet, LineSums, Pick

LEMMA AmountInt == AmountOf \in [Payment -> Int]
  BY DEF AmountOf, Payment

LEMMA ValueInt == ValueOf \in [Line -> Int]
<1>1. \A l \in Line : l.qty * Price[l.product] \in Int
  BY ConstantsAssumption DEF Line
<1>2. QED
  BY <1>1 DEF ValueOf

LEMMA SumValue ==
  ASSUME NEW S, IsFiniteSet(S), NEW R, S \subseteq R, R \subseteq Payment,
         NEW w \in [SUBSET R -> Int], Sums(w, R, AmountOf)
  PROVE  Sum(S) = w[S]
<1> DEFINE g == [s \in SUBSET S |-> w[s]]
           G(h) == [s \in SUBSET S |-> IF s = {} THEN 0 ELSE Pick(s).amount + h[s \ {Pick(s)}]]
<1>1. g = G(g)
  <2>1. ASSUME NEW s \in SUBSET S
        PROVE  g[s] = IF s = {} THEN 0 ELSE Pick(s).amount + g[s \ {Pick(s)}]
    <3>1. s # {} => AmountOf[Pick(s)] = Pick(s).amount
      BY PickIn DEF AmountOf
    <3>2. w[s] = IF s = {} THEN 0 ELSE AmountOf[Pick(s)] + w[s \ {Pick(s)}]
      BY DEF Sums
    <3>3. g[s] = w[s] /\ g[s \ {Pick(s)}] = w[s \ {Pick(s)}]
      OBVIOUS
    <3> HIDE DEF g
    <3>4. QED
      BY <3>1, <3>2, <3>3
  <2>2. QED
    BY <2>1
<1> HIDE DEF g
<1>2. PaidSums(S) = G(PaidSums(S))
  BY <1>1 DEF PaidSums
<1>3. Sums(PaidSums(S), S, AmountOf)
  <2>1. ASSUME NEW s \in SUBSET S
        PROVE  PaidSums(S)[s] = IF s = {} THEN 0 ELSE AmountOf[Pick(s)] + PaidSums(S)[s \ {Pick(s)}]
    <3>1. s # {} => AmountOf[Pick(s)] = Pick(s).amount
      BY PickIn DEF AmountOf
    <3>2. PaidSums(S)[s] = IF s = {} THEN 0 ELSE Pick(s).amount + PaidSums(S)[s \ {Pick(s)}]
      BY <1>2
    <3>3. QED
      BY <3>1, <3>2
  <2>2. QED
    BY <2>1 DEF Sums
<1>4. PaidSums(S)[S] = w[S] /\ w[S] \in Int
  <2>1. \A s \in SUBSET S : PaidSums(S)[s] = w[s]
    BY <1>3, SumsUnique
  <2>2. QED
    BY <2>1
<1>5. QED
  BY <1>4, SumIs DEF DecimalToNumber

LEMMA ItemTotalValue ==
  ASSUME NEW S, IsFiniteSet(S), NEW R, S \subseteq R, R \subseteq Line,
         NEW w \in [SUBSET R -> Int], Sums(w, R, ValueOf)
  PROVE  ItemTotal(S) = w[S]
<1> DEFINE g == [s \in SUBSET S |-> w[s]]
           worth(l) == l.qty * Price[l.product]
           G(h) == [s \in SUBSET S |-> IF s = {} THEN 0 ELSE worth(Pick(s)) + h[s \ {Pick(s)}]]
<1>0. \A s \in SUBSET S : s # {} => ValueOf[Pick(s)] = worth(Pick(s))
  BY PickIn DEF ValueOf
<1>1. g = G(g)
  <2> HIDE DEF worth
  <2>1. ASSUME NEW s \in SUBSET S
        PROVE  g[s] = IF s = {} THEN 0 ELSE worth(Pick(s)) + g[s \ {Pick(s)}]
    <3>2. w[s] = IF s = {} THEN 0 ELSE ValueOf[Pick(s)] + w[s \ {Pick(s)}]
      BY DEF Sums
    <3>3. g[s] = w[s] /\ g[s \ {Pick(s)}] = w[s \ {Pick(s)}]
      OBVIOUS
    <3> HIDE DEF g
    <3>4. QED
      BY <1>0, <3>2, <3>3
  <2>2. QED
    BY <2>1
<1> HIDE DEF g
<1>2. LineSums(S) = G(LineSums(S))
  BY <1>1 DEF LineSums
<1> HIDE DEF worth
<1>3. Sums(LineSums(S), S, ValueOf)
  <2>1. ASSUME NEW s \in SUBSET S
        PROVE  LineSums(S)[s] = IF s = {} THEN 0 ELSE ValueOf[Pick(s)] + LineSums(S)[s \ {Pick(s)}]
    <3>2. LineSums(S)[s] = IF s = {} THEN 0 ELSE worth(Pick(s)) + LineSums(S)[s \ {Pick(s)}]
      BY <1>2
    <3>3. QED
      BY <1>0, <3>2
  <2>2. QED
    BY <2>1 DEF Sums
<1>4. LineSums(S)[S] = w[S] /\ w[S] \in Int
  <2>1. \A s \in SUBSET S : LineSums(S)[s] = w[s]
    BY <1>3, SumsUnique
  <2>2. QED
    BY <2>1
<1>5. QED
  BY <1>4, ItemTotalIs DEF DecimalToNumber

\* One payment more, one line more.
LEMMA SumAdd ==
  ASSUME NEW S, IsFiniteSet(S), S \subseteq Payment, NEW p \in Payment, p \notin S
  PROVE  Sum(S \cup {p}) = Sum(S) + p.amount
<1>1. PICK R : R = S \cup {p}
  OBVIOUS
<1>2. IsFiniteSet(R) /\ R \subseteq Payment /\ S \subseteq R
  BY <1>1, FS_AddElement
<1>3. Weights(AmountOf, R)
  BY <1>2, AmountInt DEF Weights
<1>4. PICK w \in [SUBSET R -> Int] : Sums(w, R, AmountOf) /\ w[R] = AmountOf[p] + w[S]
  <2>1. Weights(AmountOf, S \cup {p})
    BY <1>1, <1>3, Zenon
  <2>2. \E w \in [SUBSET (S \cup {p}) -> Int] :
          Sums(w, S \cup {p}, AmountOf) /\ w[S \cup {p}] = AmountOf[p] + w[S]
    BY <2>1, SumsAdd, Zenon
  <2>3. QED
    BY <1>1, <2>2, Zenon
<1>5. Sum(R) = w[R] /\ Sum(S) = w[S] /\ w[S] \in Int
  BY <1>2, <1>4, SumValue
<1>6. AmountOf[p] = p.amount /\ p.amount \in Int
  BY DEF AmountOf, Payment
<1>7. Sum(R) = Sum(S) + p.amount
  BY <1>4, <1>5, <1>6
<1>8. QED
  BY <1>1, <1>7, Zenon

LEMMA ItemTotalAdd ==
  ASSUME NEW S, IsFiniteSet(S), S \subseteq Line, NEW l \in Line, l \notin S
  PROVE  ItemTotal(S \cup {l}) = ItemTotal(S) + ItemTotal({l})
<1>1. PICK R : R = S \cup {l}
  OBVIOUS
<1>2. IsFiniteSet(R) /\ R \subseteq Line /\ S \subseteq R
      /\ IsFiniteSet({l}) /\ {l} \subseteq R
  BY <1>1, FS_AddElement, FS_Singleton
<1>3. Weights(ValueOf, R)
  BY <1>2, ValueInt DEF Weights
<1>4. PICK w \in [SUBSET R -> Int] : Sums(w, R, ValueOf) /\ w[R] = ValueOf[l] + w[S]
  <2>1. Weights(ValueOf, S \cup {l})
    BY <1>1, <1>3, Zenon
  <2>2. \E w \in [SUBSET (S \cup {l}) -> Int] :
          Sums(w, S \cup {l}, ValueOf) /\ w[S \cup {l}] = ValueOf[l] + w[S]
    BY <2>1, SumsAdd, Zenon
  <2>3. QED
    BY <1>1, <2>2, Zenon
<1>5. ItemTotal(R) = w[R] /\ ItemTotal(S) = w[S] /\ ItemTotal({l}) = w[{l}] /\ w[S] \in Int
  BY <1>2, <1>4, ItemTotalValue
<1>6. w[{l}] = ValueOf[l] /\ ValueOf[l] \in Int
  <2>1. Pick({l}) = l
    BY PickIn
  <2>2. ValueOf[l] \in Int
    BY ValueInt
  <2>3. {l} \ {l} = {}
    OBVIOUS
  <2>4. w[{l}] = ValueOf[l] + w[{}] /\ w[{}] = 0
    BY <1>2, <1>4, <2>1, <2>3 DEF Sums
  <2>5. QED
    BY <2>2, <2>4
<1>7. ItemTotal(R) = ItemTotal(S) + ItemTotal({l})
  BY <1>4, <1>5, <1>6
<1>8. QED
  BY <1>1, <1>7, Zenon

LEMMA NothingAddsUp == Sum({}) = 0 /\ ItemTotal({}) = 0
<1>1. IsFiniteSet({}) /\ {} \subseteq Payment /\ {} \subseteq Line
  BY FS_EmptySet
<1>2. PICK v \in [SUBSET {} -> Int] : Sums(v, {}, AmountOf)
  BY <1>1, SumsExist DEF Weights
<1>3. PICK w \in [SUBSET {} -> Int] : Sums(w, {}, ValueOf)
  BY <1>1, SumsExist DEF Weights
<1>4. Sum({}) = v[{}] /\ ItemTotal({}) = w[{}]
  BY <1>1, <1>2, <1>3, SumValue, ItemTotalValue
<1>5. v[{}] = 0 /\ w[{}] = 0
  BY <1>2, <1>3 DEF Sums
<1>6. QED
  BY <1>4, <1>5

-----------------------------------------------------------------------------
(* Types.                                                                   *)

\* The variables a step can change, typed, and the step of r checked.
LEMMA StepType ==
  ASSUME TypeOK, NEW r \in Requests, NEW s \in Steps \cup Ends, Goto(r, s),
         order' \in [Tables -> Order], items' \subseteq Line, payments' \subseteq Payment,
         cash' \subseteq CashRow, movements' \subseteq Movement, runtime' \subseteq Line,
         req' = req, NEW w \in Work, work' = [work EXCEPT ![r] = w], StepOK(r)'
  PROVE  TypeOK'
<1>1. pc' \in [Requests -> {"idle"} \cup Steps \cup Ends] /\ work' \in [Requests -> Work]
  BY DEF TypeOK, Goto
<1>2. \A q \in Requests \ {r} : StepOK(q)'
  <2>1. ASSUME NEW q \in Requests \ {r} PROVE StepOK(q)'
    <3>1. pc'[q] = pc[q] /\ work'[q] = work[q] /\ req'[q] = req[q] /\ StepOK(q)
      BY DEF TypeOK, Goto
    <3>2. QED
      BY <3>1 DEF StepOK
  <2>2. QED
    BY <2>1
<1>3. QED
  BY <1>1, <1>2 DEF TypeOK

\* The fields of the request that runs a step.
LEMMA RequestFields ==
  ASSUME TypeOK, NEW r \in Requests
  PROVE  /\ work[r] \in Work
         /\ req[r].kind = "add" => /\ req[r].table \in Tables /\ req[r].product \in Products
                                   /\ req[r].qty \in Quantities
         /\ req[r].kind = "line" => /\ req[r].table \in Tables /\ req[r].qty \in Quantities
                                    /\ req[r].line \in LineIds /\ req[r].order \in Order
         /\ req[r].kind \in {"sent", "save", "clear"} =>
              req[r].table \in Tables /\ req[r].order \in Order
         /\ req[r].kind \in PaymentKinds =>
              /\ req[r].table \in Tables /\ req[r].key \in Keys
              /\ req[r].offer \in Offer /\ req[r].order \in Order
         /\ req[r].kind = "cancel" =>
              req[r].table \in Tables /\ req[r].key \in Keys /\ req[r].order \in Order
<1>1. req[r] \in Request /\ work[r] \in Work
  BY DEF TypeOK
<1>2. QED
  BY <1>1, ConstantsAssumption DEF Request, PaymentKinds

\* A request that arrives.
LEMMA ArriveType ==
  ASSUME TypeOK, NEW r \in Requests, NEW body \in Request, NEW s, Arrive(r, body, s),
         \/ body.kind = "add" /\ s = "upsert"
         \/ body.kind = "line" /\ s = "find"
         \/ body.kind = "sent" /\ s = "sent_find"
         \/ body.kind = "save" /\ s = "save_order"
         \/ body.kind = "clear" /\ s \in {"clear_lock", "reload"}
         \/ body.kind \in PaymentKinds /\ s = "pay_lock"
         \/ body.kind = "cancel" /\ s = "cancel_lock"
  PROVE  TypeOK'
<1>1. req' \in [Requests -> Request] /\ req'[r] = body
  BY DEF TypeOK, Arrive
<1>2. s \in Steps
  BY DEF Steps
<1>3. pc' \in [Requests -> {"idle"} \cup Steps \cup Ends] /\ pc'[r] = s
  BY <1>2 DEF TypeOK, Arrive, Goto
<1>4. StepOK(r)'
  BY <1>1, <1>3 DEF StepOK, PaymentKinds
<1>5. ASSUME NEW q \in Requests \ {r} PROVE StepOK(q)'
  <2>1. pc'[q] = pc[q] /\ work'[q] = work[q] /\ req'[q] = req[q] /\ StepOK(q)
    BY DEF TypeOK, Arrive, Goto
  <2>2. QED
    BY <2>1 DEF StepOK
<1>6. QED
  BY <1>1, <1>3, <1>4, <1>5 DEF TypeOK, Arrive, db

LEMMA ReceiveType ==
  ASSUME TypeOK, NEW r \in Requests, Receive(r)
  PROVE  TypeOK'
<1>0. order \in [Tables -> Order] /\ items \subseteq Line
  BY DEF TypeOK
<1>1. CASE ReceiveAdd(r)
  <2>1. PICK t \in Tables, p \in Products, n \in Quantities \ {0} :
          Arrive(r, [kind |-> "add", table |-> t, product |-> p, qty |-> n], "upsert")
    BY <1>1 DEF ReceiveAdd
  <2>2. [kind |-> "add", table |-> t, product |-> p, qty |-> n] \in Request
    BY DEF Request
  <2>3. QED
    BY <2>1, <2>2, ArriveType
<1>2. CASE ReceiveLine(r)
  <2>1. PICK l \in items, n \in Quantities :
          Arrive(r, [kind |-> "line", table |-> l.table, line |-> l.id, qty |-> n,
                     order |-> order[l.table]], "find")
    BY <1>2 DEF ReceiveLine
  <2>2. l.table \in Tables /\ l.id \in LineIds /\ order[l.table] \in Order
    BY <1>0 DEF Line
  <2>3. [kind |-> "line", table |-> l.table, line |-> l.id, qty |-> n,
         order |-> order[l.table]] \in Request
    BY <2>2 DEF Request
  <2>4. QED
    BY <2>1, <2>3, ArriveType
<1>3. CASE ReceiveSave(r)
  <2>1. PICK t \in Tables, k \in {"sent", "save"} :
          Arrive(r, [kind |-> k, table |-> t, order |-> order[t]],
                 IF k = "sent" THEN "sent_find" ELSE "save_order")
    BY <1>3 DEF ReceiveSave
  <2>2. [kind |-> k, table |-> t, order |-> order[t]] \in Request
    BY <1>0 DEF Request
  <2>3. QED
    BY <2>1, <2>2, ArriveType
<1>4. CASE ReceiveClear(r)
  <2>1. PICK t \in Tables :
          Arrive(r, [kind |-> "clear", table |-> t, order |-> order[t]],
                 IF order[t].status = "none" THEN "reload" ELSE "clear_lock")
    BY <1>4 DEF ReceiveClear
  <2>2. [kind |-> "clear", table |-> t, order |-> order[t]] \in Request
    BY <1>0 DEF Request
  <2>3. QED
    BY <2>1, <2>2, ArriveType
<1>5. CASE ReceivePayment(r)
  <2>1. PICK t \in Tables, k \in PaymentKinds, key \in Keys, o \in Offers :
          Arrive(r, [kind |-> k, table |-> t, key |-> key, offer |-> o, order |-> order[t]],
                 "pay_lock")
    BY <1>5 DEF ReceivePayment
  <2>2. [kind |-> k, table |-> t, key |-> key, offer |-> o, order |-> order[t]] \in Request
    BY <1>0 DEF Request
  <2>3. QED
    BY <2>1, <2>2, ArriveType
<1>6. CASE ReceiveCancel(r)
  <2>1. PICK t \in Tables, key \in Keys :
          Arrive(r, [kind |-> "cancel", table |-> t, key |-> key, order |-> order[t]],
                 "cancel_lock")
    BY <1>6 DEF ReceiveCancel
  <2>2. [kind |-> "cancel", table |-> t, key |-> key, order |-> order[t]] \in Request
    BY <1>0 DEF Request
  <2>3. QED
    BY <2>1, <2>2, ArriveType
<1>7. QED
  BY <1>1, <1>2, <1>3, <1>4, <1>5, <1>6 DEF Receive

\* A step that writes no row and no work.
LEMMA MoveType ==
  ASSUME TypeOK, NEW r \in Requests, NEW s \in Steps \cup Ends, Goto(r, s),
         UNCHANGED <<db, runtime, req, work>>, StepOK(r)'
  PROVE  TypeOK'
<1>1. work' = [work EXCEPT ![r] = work[r]] /\ work[r] \in Work
  BY DEF TypeOK
<1>2. QED
  BY <1>1, StepType DEF TypeOK, db

LEMMA RowsOfTable ==
  ASSUME TypeOK
  PROVE  \A t : LinesOf(t) \subseteq Line /\ PaidOf(t) \subseteq Payment
  BY DEF TypeOK, LinesOf, PaidOf

LEMMA AddType ==
  ASSUME TypeOK, NEW r \in Requests, AddUpsert(r) \/ AddCommit(r)
  PROVE  TypeOK'
<1>0. /\ order \in [Tables -> Order] /\ items \subseteq Line /\ work[r] \in Work
      /\ pc \in [Requests -> {"idle"} \cup Steps \cup Ends] /\ StepOK(r)
  BY DEF TypeOK
<1>r. req[r].table \in Tables /\ req[r].product \in Products /\ req[r].qty \in Nat
  BY <1>0, RequestFields, ConstantsAssumption DEF StepOK, AddUpsert, AddCommit
<1>1. CASE AddUpsert(r)
  <2>1. SameLine(r) \subseteq Line
    BY RowsOfTable DEF SameLine
  <2>2. [work[r] EXCEPT !.rows = SameLine(r)] \in Work
    BY <1>0, <2>1 DEF Work
  <2>3. work' = [work EXCEPT ![r] = [work[r] EXCEPT !.rows = SameLine(r)]]
    BY <1>1 DEF AddUpsert
  <2>4. StepOK(r)'
    BY <1>0, <1>1 DEF AddUpsert, Goto, StepOK
  <2>5. QED
    BY <1>1, <2>2, <2>3, <2>4, StepType DEF AddUpsert, TypeOK, db, Steps
<1>2. CASE AddCommit(r)
  <2>1. items' \subseteq Line
    <3>1. CASE items' = items \cup {NewLine(r)}
      <4>1. NewLine(r) \in Line
        BY <1>r DEF NewLine, Line, LineIds
      <4>2. QED
        BY <1>0, <3>1, <4>1
    <3>2. ASSUME NEW seen \in work[r].rows, items' = Merge(r, seen)
          PROVE  items' \subseteq Line
      <4>1. seen \in Line
        BY <1>0 DEF Work
      <4>2. [seen EXCEPT !.qty = @ + req[r].qty] \in Line
        BY <4>1, <1>r DEF Line
      <4>3. QED
        BY <1>0, <3>2, <4>2 DEF Merge
    <3>3. QED
      BY <1>2, <3>1, <3>2 DEF AddCommit
  <2>2. order' \in [Tables -> Order]
    <3>1. PICK n : /\ n \in Int
                   /\ order' = [order EXCEPT ![req[r].table] = [status |-> "open", subtotal |-> n,
                        discount |-> order[req[r].table].discount, total |-> n, pre |-> 0]]
      BY <1>2, ItemTotalInt DEF AddCommit
    <3>2. [status |-> "open", subtotal |-> n, discount |-> order[req[r].table].discount,
           total |-> n, pre |-> 0] \in Order
      BY <1>0, <1>r, <3>1 DEF Order
    <3>3. QED
      BY <1>0, <3>1, <3>2
  <2>3. work' = [work EXCEPT ![r] = work[r]]
    BY <1>2 DEF AddCommit, TypeOK
  <2>4. StepOK(r)'
    BY <1>0, <1>2 DEF AddCommit, Goto, StepOK
  <2>5. QED
    BY <1>0, <1>2, <2>1, <2>2, <2>3, <2>4, StepType DEF AddCommit, TypeOK, Ends
<1>3. QED
  BY <1>1, <1>2

\* Rows locked and rewritten take the place of the ones read.
LEMMA WrittenLines ==
  ASSUME TypeOK, NEW r \in Requests, WriteLines(r)
  PROVE  items' \subseteq Line
  BY DEF TypeOK, WriteLines, Work

LEMMA LineType ==
  ASSUME TypeOK, NEW r \in Requests,
         LineFind(r) \/ LineWrite(r) \/ LineGone(r) \/ LineCommit(r)
  PROVE  TypeOK'
<1>0. /\ order \in [Tables -> Order] /\ items \subseteq Line /\ work[r] \in Work
      /\ pc \in [Requests -> {"idle"} \cup Steps \cup Ends] /\ StepOK(r)
  BY DEF TypeOK
<1>r. req[r].table \in Tables /\ req[r].qty \in Nat /\ req[r].order \in Order
  BY <1>0, RequestFields, ConstantsAssumption
     DEF StepOK, LineFind, LineWrite, LineGone, LineCommit
<1>1. CASE LineFind(r)
  <2>1. [work[r] EXCEPT !.rows = {l \in items : l.id = req[r].line}] \in Work
    BY <1>0 DEF Work
  <2>2. work' = [work EXCEPT ![r] = [work[r] EXCEPT !.rows = {l \in items : l.id = req[r].line}]]
    BY <1>1 DEF LineFind
  <2>3. PICK s \in {"done", "line_write"} : Goto(r, s)
    BY <1>1, Zenon DEF LineFind
  <2>4. StepOK(r)'
    BY <1>0, <1>1, <2>3 DEF LineFind, Goto, StepOK
  <2>5. QED
    BY <1>1, <2>1, <2>2, <2>3, <2>4, StepType DEF LineFind, TypeOK, db, Steps, Ends
<1>2. CASE LineWrite(r)
  <2>1. PICK l \in items, seen \in work[r].rows :
          LET write == Requantified(l, seen, req[r].qty)
              rows  == (LinesOf(l.table) \ {l}) \cup write
          IN work' = [work EXCEPT ![r].rows = {l}, ![r].write = write,
                                  ![r].bill = ItemTotal(rows),
                                  ![r].closes = rows = {}]
    BY <1>2 DEF LineWrite
  <2> DEFINE write == Requantified(l, seen, req[r].qty)
             rows  == (LinesOf(l.table) \ {l}) \cup write
             w == [[[[work[r] EXCEPT !.rows = {l}] EXCEPT !.write = write]
                     EXCEPT !.bill = ItemTotal(rows)] EXCEPT !.closes = rows = {}]
  <2>2. l \in Line /\ seen \in Line
    BY <1>0 DEF Work
  <2>3. write \subseteq Line
    <3>1. Lesser(seen.sent, req[r].qty) \in Nat
      BY <1>r, <2>2 DEF Lesser, Line
    <3>2. [l EXCEPT !.qty = req[r].qty, !.sent = Lesser(seen.sent, req[r].qty)] \in Line
      BY <1>r, <2>2, <3>1 DEF Line
    <3>3. QED
      BY <3>2 DEF Requantified
  <2>4. w \in Work
    <3>1. ItemTotal(rows) \in Int /\ (rows = {}) \in BOOLEAN
      BY ItemTotalInt
    <3> HIDE DEF rows, write
    <3>2. QED
      BY <1>0, <2>2, <2>3, <3>1 DEF Work
  <2>5. work' = [work EXCEPT ![r] = w]
    <3> HIDE DEF rows, write
    <3>1. work' = [work EXCEPT ![r].rows = {l}, ![r].write = write,
                   ![r].bill = ItemTotal(rows), ![r].closes = rows = {}]
      BY <2>1 DEF rows, write
    <3>2. work \in [Requests -> Work]
      BY DEF TypeOK
    <3>3. QED
      BY <3>1, <3>2
  <2>6. StepOK(r)'
    BY <1>0, <1>2 DEF LineWrite, Goto, StepOK
  <2> HIDE DEF w
  <2>7. QED
    BY <1>2, <2>4, <2>5, <2>6, StepType DEF LineWrite, TypeOK, db, Steps
<1>3. CASE LineGone(r)
  <2>1. StepOK(r)'
    BY <1>0, <1>3 DEF LineGone, Goto, StepOK
  <2>2. QED
    BY <1>3, <2>1, MoveType DEF LineGone, Ends
<1>4. CASE LineCommit(r)
  <2>1. items' \subseteq Line
    BY <1>4, WrittenLines DEF LineCommit
  <2>2. order' \in [Tables -> Order]
    <3>1. [status |-> IF work[r].closes THEN "paid" ELSE "open",
           subtotal |-> work[r].bill, discount |-> order[req[r].table].discount,
           total |-> work[r].bill, pre |-> req[r].order.pre] \in Order
      BY <1>0, <1>r DEF Order, Work
    <3>2. QED
      BY <1>0, <1>4, <3>1 DEF LineCommit
  <2>3. work' = [work EXCEPT ![r] = work[r]]
    BY <1>4 DEF LineCommit, TypeOK
  <2>4. StepOK(r)'
    BY <1>0, <1>4 DEF LineCommit, Goto, StepOK
  <2>5. QED
    BY <1>0, <1>4, <2>1, <2>2, <2>3, <2>4, StepType DEF LineCommit, TypeOK, Ends
<1>5. QED
  BY <1>1, <1>2, <1>3, <1>4

LEMMA SaveType ==
  ASSUME TypeOK, NEW r \in Requests,
         SentFind(r) \/ SentWrite(r) \/ SentGone(r) \/ SentCommit(r) \/ SaveCommit(r)
  PROVE  TypeOK'
<1>0. /\ order \in [Tables -> Order] /\ items \subseteq Line /\ work[r] \in Work
      /\ pc \in [Requests -> {"idle"} \cup Steps \cup Ends] /\ StepOK(r)
  BY DEF TypeOK
<1>r. req[r].table \in Tables /\ req[r].order \in Order
  BY <1>0, RequestFields DEF StepOK, SentFind, SentWrite, SentGone, SentCommit, SaveCommit
<1>o. Reopened(r) \in [Tables -> Order]
  BY <1>0, <1>r DEF Reopened, Order
<1>1. CASE SentFind(r)
  <2>1. [work[r] EXCEPT !.rows = LinesOf(req[r].table)] \in Work
    BY <1>0, RowsOfTable DEF Work
  <2>2. work' = [work EXCEPT ![r] = [work[r] EXCEPT !.rows = LinesOf(req[r].table)]]
    BY <1>1 DEF SentFind
  <2>3. PICK s \in {"save_order", "sent_write"} : Goto(r, s)
    BY <1>1, Zenon DEF SentFind
  <2>4. StepOK(r)'
    BY <1>0, <1>1, <2>3 DEF SentFind, Goto, StepOK
  <2>5. QED
    BY <1>1, <2>1, <2>2, <2>3, <2>4, StepType DEF SentFind, TypeOK, db, Steps, Ends
<1>2. CASE SentWrite(r)
  <2> DEFINE seen == work[r].rows
             current == {l \in items : l.id \in Ids(seen)}
             write == {[l EXCEPT !.sent = AsRead(seen, l).qty] : l \in current}
             w == [[work[r] EXCEPT !.rows = current] EXCEPT !.write = write]
  <2>1. write \subseteq Line
    <3>1. ASSUME NEW l \in current PROVE [l EXCEPT !.sent = AsRead(seen, l).qty] \in Line
      <4>1. \E s \in seen : s.id = l.id
        BY DEF Ids
      <4>2. AsRead(seen, l) \in seen
        BY <4>1 DEF AsRead
      <4>3. AsRead(seen, l).qty \in Nat /\ l \in Line
        BY <1>0, <4>2 DEF Work, Line
      <4>4. QED
        BY <4>3 DEF Line
    <3>2. QED
      BY <3>1
  <2>2. w \in Work
    <3> HIDE DEF write
    <3>1. QED
      BY <1>0, <2>1 DEF Work
  <2>3. work' = [work EXCEPT ![r] = w]
    <3>1. work' = [work EXCEPT ![r].rows = current, ![r].write = write]
      BY <1>2 DEF SentWrite
    <3>2. work \in [Requests -> Work]
      BY DEF TypeOK
    <3> HIDE DEF write, current
    <3>3. QED
      BY <3>1, <3>2
  <2>4. StepOK(r)'
    BY <1>0, <1>2 DEF SentWrite, Goto, StepOK
  <2> HIDE DEF w
  <2>5. QED
    BY <1>2, <2>2, <2>3, <2>4, StepType DEF SentWrite, TypeOK, db, Steps
<1>3. CASE SentGone(r)
  <2>1. StepOK(r)'
    BY <1>0, <1>3 DEF SentGone, Goto, StepOK
  <2>2. QED
    BY <1>3, <2>1, MoveType DEF SentGone, Ends
<1>4. CASE SentCommit(r)
  <2>1. items' \subseteq Line
    BY <1>4, WrittenLines DEF SentCommit
  <2>2. work' = [work EXCEPT ![r] = work[r]]
    BY <1>4 DEF SentCommit, TypeOK
  <2>3. StepOK(r)'
    BY <1>0, <1>4 DEF SentCommit, Goto, StepOK
  <2>4. QED
    BY <1>0, <1>o, <1>4, <2>1, <2>2, <2>3, StepType DEF SentCommit, TypeOK, Ends
<1>5. CASE SaveCommit(r)
  <2>1. work' = [work EXCEPT ![r] = work[r]]
    BY <1>5 DEF SaveCommit, TypeOK
  <2>2. StepOK(r)'
    BY <1>0, <1>5 DEF SaveCommit, Goto, StepOK
  <2>3. QED
    BY <1>0, <1>o, <1>5, <2>1, <2>2, StepType DEF SaveCommit, TypeOK, Ends
<1>6. QED
  BY <1>1, <1>2, <1>3, <1>4, <1>5

LEMMA ClearType ==
  ASSUME TypeOK, NEW r \in Requests, ClearLock(r) \/ ClearCommit(r)
  PROVE  TypeOK'
<1>0. /\ order \in [Tables -> Order] /\ items \subseteq Line /\ work[r] \in Work
      /\ pc \in [Requests -> {"idle"} \cup Steps \cup Ends] /\ StepOK(r)
  BY DEF TypeOK
<1>r. req[r].table \in Tables /\ req[r].order \in Order
  BY <1>0, RequestFields DEF StepOK, ClearLock, ClearCommit
<1>1. CASE ClearLock(r)
  <2>1. [work[r] EXCEPT !.rows = LinesOf(req[r].table)] \in Work
    BY <1>0, RowsOfTable DEF Work
  <2>2. work' = [work EXCEPT ![r] = [work[r] EXCEPT !.rows = LinesOf(req[r].table)]]
    BY <1>1 DEF ClearLock
  <2>3. StepOK(r)'
    BY <1>0, <1>1 DEF ClearLock, Goto, StepOK
  <2>4. QED
    BY <1>1, <2>1, <2>2, <2>3, StepType DEF ClearLock, TypeOK, db, Steps
<1>2. CASE ClearCommit(r)
  <2>1. order' \in [Tables -> Order]
    <3>1. [status |-> "paid", subtotal |-> 0, discount |-> 0, total |-> 0,
           pre |-> req[r].order.pre] \in Order
      BY <1>r DEF Order
    <3>2. QED
      BY <1>0, <1>2, <3>1 DEF ClearCommit
  <2>2. work' = [work EXCEPT ![r] = work[r]]
    BY <1>2 DEF ClearCommit, TypeOK
  <2>3. StepOK(r)'
    BY <1>0, <1>2 DEF ClearCommit, Goto, StepOK
  <2>4. QED
    BY <1>0, <1>2, <2>1, <2>2, <2>3, StepType DEF ClearCommit, DeleteLines, TypeOK, Steps
<1>3. QED
  BY <1>1, <1>2

\* What is left to pay, and what a payment charges.
LEMMA ChargeInt ==
  ASSUME TypeOK, NEW r \in Requests, req[r].kind \in PaymentKinds
  PROVE  Bill(r) \in Int /\ Left(r) \in Nat /\ Charge(r) \in Nat
<1>1. req[r].order \in Order /\ req[r].offer.amount \in Nat
  BY RequestFields DEF Offer
<1>2. Bill(r) \in Int
  BY <1>1, OrderTotalInt DEF Bill
<1>3. Left(r) \in Nat
  BY <1>2, SumInt, RemainingTotalInt DEF Left
<1>4. QED
  BY <1>1, <1>2, <1>3 DEF Charge, Lesser

LEMMA PayReadType ==
  ASSUME TypeOK, NEW r \in Requests,
         PayDuplicate(r) \/ PayRefused(r) \/ PayCharge(r) \/ PayLoad(r) \/ PayScan(r)
  PROVE  TypeOK'
<1>0. /\ work \in [Requests -> Work] /\ work[r] \in Work
      /\ pc \in [Requests -> {"idle"} \cup Steps \cup Ends] /\ StepOK(r)
  BY DEF TypeOK
<1>k. req[r].kind \in PaymentKinds
  BY <1>0 DEF StepOK, PayDuplicate, PayRefused, PayCharge, PayLoad, PayScan, PayLocked
<1>1. CASE PayDuplicate(r)
  <2>1. StepOK(r)'
    BY <1>0, <1>1 DEF PayDuplicate, Goto, StepOK
  <2>2. QED
    BY <1>1, <2>1, MoveType DEF PayDuplicate, Steps
<1>2. CASE PayRefused(r)
  <2>1. StepOK(r)'
    BY <1>0, <1>2 DEF PayRefused, Goto, StepOK
  <2>2. QED
    BY <1>2, <2>1, MoveType DEF PayRefused, Ends
<1>3. CASE PayCharge(r)
  <2> DEFINE c == Charge(r)
             ps == PaidOf(req[r].table)
             b == AccountBalance(req[r].offer.accountId)
             w == [[[work[r] EXCEPT !.charge = c] EXCEPT !.pays = ps] EXCEPT !.balance = b]
  <2>1. c \in Int /\ ps \subseteq Payment /\ b \in Int
    BY <1>k, ChargeInt, RowsOfTable, SumInt DEF AccountBalance
  <2>2. work' = [work EXCEPT ![r].charge = c, ![r].pays = ps, ![r].balance = b]
    BY <1>3 DEF PayCharge
  <2>3. c > 0 /\ (AccountPart(req[r].offer, c) > 0 => req[r].offer.accountId # NoAccount)
    BY <1>3 DEF PayCharge, NoAccountGiven
  <2> HIDE DEF c, ps, b
  <2>4. w \in Work
    BY <1>0, <2>1 DEF Work
  <2>5. work' = [work EXCEPT ![r] = w]
    BY <1>0, <2>2
  <2>6. w.charge = c
    BY <1>0 DEF Work
  <2> HIDE DEF w
  <2>7. StepOK(r)'
    BY <1>0, <1>3, <1>k, <2>3, <2>5, <2>6 DEF PayCharge, Goto, StepOK
  <2>8. QED
    BY <1>3, <2>4, <2>5, <2>7, StepType DEF PayCharge, TypeOK, db, Steps
<1>4. CASE PayLoad(r)
  <2> DEFINE b == Bill(r)
             n == RemainingTotal(b, Sum(PaidOf(req[r].table)) + work[r].charge, req[r].order)
             f == req[r].kind = "close" \/ n <= 0
             w == [[[work[r] EXCEPT !.bill = b] EXCEPT !.left = n] EXCEPT !.closes = f]
  <2>1. b \in Int /\ n \in Int /\ f \in BOOLEAN
    <3>1. b \in Int
      BY <1>k, ChargeInt
    <3>2. Sum(PaidOf(req[r].table)) + work[r].charge \in Int
      BY <1>0, SumInt DEF Work
    <3> HIDE DEF b
    <3>3. QED
      BY <3>1, <3>2, RemainingTotalInt
  <2>2. work' = [work EXCEPT ![r].bill = b, ![r].left = n, ![r].closes = f]
    BY <1>4 DEF PayLoad
  <2>3. PICK s \in {"pay_scan", "pay_order"} : Goto(r, s)
    BY <1>4, Zenon DEF PayLoad
  <2> HIDE DEF b, n, f
  <2>4. w \in Work
    BY <1>0, <2>1 DEF Work
  <2>5. work' = [work EXCEPT ![r] = w]
    BY <1>0, <2>2
  <2>6. w.charge = work[r].charge
    BY <1>0 DEF Work
  <2> HIDE DEF w
  <2>7. StepOK(r)'
    BY <1>0, <1>4, <1>k, <2>3, <2>5, <2>6 DEF PayLoad, Goto, StepOK
  <2>8. QED
    BY <1>4, <2>3, <2>4, <2>5, <2>7, StepType DEF PayLoad, TypeOK, db, Steps
<1>5. CASE PayScan(r)
  <2>1. [work[r] EXCEPT !.rows = LinesOf(req[r].table)] \in Work
    BY <1>0, RowsOfTable DEF Work
  <2>2. work' = [work EXCEPT ![r] = [work[r] EXCEPT !.rows = LinesOf(req[r].table)]]
    BY <1>5 DEF PayScan
  <2>3. StepOK(r)'
    BY <1>0, <1>5 DEF PayScan, Goto, StepOK, Work
  <2>4. QED
    BY <1>5, <2>1, <2>2, <2>3, StepType DEF PayScan, TypeOK, db, Steps
<1>6. QED
  BY <1>1, <1>2, <1>3, <1>4, <1>5

LEMMA PayWriteType ==
  ASSUME TypeOK, NEW r \in Requests, PayCommit(r) \/ PayConflict(r)
  PROVE  TypeOK'
<1>0. /\ order \in [Tables -> Order] /\ items \subseteq Line /\ work[r] \in Work
      /\ pc \in [Requests -> {"idle"} \cup Steps \cup Ends] /\ StepOK(r)
  BY DEF TypeOK
<1>r. /\ req[r].table \in Tables /\ req[r].key \in Keys /\ req[r].offer \in Offer
      /\ req[r].order \in Order
  BY <1>0, RequestFields DEF StepOK, PayCommit, PayConflict
<1>w. /\ work[r].charge \in Int /\ work[r].bill \in Int /\ work[r].left \in Int
      /\ work[r].balance \in Int
  BY <1>0 DEF Work
<1>p. CashPart(req[r].offer, work[r].charge) \in Int /\ AccountPart(req[r].offer, work[r].charge) \in Int
  BY <1>r, <1>w, PartsInt
<1>1. CASE PayCommit(r)
  <2>1. NewPayment(r) \in Payment
    BY <1>r, <1>w DEF NewPayment, Payment, Offer
  <2>2. CashRows(r, CashPart(req[r].offer, work[r].charge)) \subseteq CashRow
    BY <1>p DEF CashRows, CashRow
  <2>3. SaleRows(r, AccountPart(req[r].offer, work[r].charge)) \subseteq Movement
    <3>1. SUFFICES ASSUME AccountPart(req[r].offer, work[r].charge) > 0
                   PROVE  req[r].offer.accountId \in Accounts
      BY <1>p, <1>r, <1>w DEF SaleRows, Movement
    <3>2. req[r].offer.accountId # NoAccount
      BY <1>0, <1>1, <3>1 DEF StepOK, PayCommit
    <3>3. QED
      BY <1>r, <3>2 DEF Offer
  <2>4. order' \in [Tables -> Order]
    <3> DEFINE d == IF work[r].closes THEN work[r].left ELSE 0
    <3>1. d \in Int
      BY <1>w
    <3>2. order' = [order EXCEPT ![req[r].table] =
            [status |-> IF work[r].closes THEN "paid" ELSE "open", subtotal |-> work[r].bill,
             discount |-> d, total |-> work[r].bill - d, pre |-> work[r].bill]]
      BY <1>1 DEF PayCommit
    <3> HIDE DEF d
    <3>3. [status |-> IF work[r].closes THEN "paid" ELSE "open", subtotal |-> work[r].bill,
           discount |-> d, total |-> work[r].bill - d, pre |-> work[r].bill] \in Order
      BY <1>w, <3>1 DEF Order
    <3>4. QED
      BY <1>0, <3>2, <3>3
  <2>5. work' = [work EXCEPT ![r] = work[r]]
    BY <1>1 DEF PayCommit, TypeOK
  <2>6. StepOK(r)'
    BY <1>0, <1>1 DEF PayCommit, Goto, StepOK
  <2>7. items' \subseteq Line
    BY <1>0, <1>1 DEF PayCommit, DeleteLines
  <2>8. payments' \subseteq Payment /\ cash' \subseteq CashRow /\ movements' \subseteq Movement
    BY <1>1, <2>1, <2>2, <2>3 DEF PayCommit, TypeOK
  <2>9. Goto(r, "reload") /\ req' = req /\ runtime' \subseteq Line
    BY <1>1 DEF PayCommit, TypeOK
  <2>10. QED
    BY <1>0, <2>4, <2>5, <2>6, <2>7, <2>8, <2>9, StepType DEF Steps
<1>2. CASE PayConflict(r)
  <2>1. StepOK(r)'
    BY <1>0, <1>2 DEF PayConflict, Goto, StepOK
  <2>2. QED
    BY <1>2, <2>1, MoveType DEF PayConflict, Ends
<1>3. QED
  BY <1>1, <1>2

LEMMA CancelType ==
  ASSUME TypeOK, NEW r \in Requests, CancelRefused(r) \/ CancelFind(r) \/ CancelCommit(r)
  PROVE  TypeOK'
<1>0. /\ order \in [Tables -> Order] /\ items \subseteq Line /\ work[r] \in Work
      /\ pc \in [Requests -> {"idle"} \cup Steps \cup Ends] /\ StepOK(r)
  BY DEF TypeOK
<1>r. req[r].table \in Tables /\ req[r].key \in Keys /\ req[r].order \in Order
  BY <1>0, RequestFields DEF StepOK, CancelRefused, CancelFind, CancelCommit, CancelLocked
<1>1. CASE CancelRefused(r)
  <2>1. StepOK(r)'
    BY <1>0, <1>1 DEF CancelRefused, Goto, StepOK
  <2>2. QED
    BY <1>1, <2>1, MoveType DEF CancelRefused, Ends
<1>2. CASE CancelFind(r)
  <2>1. PICK p \in PaidOf(req[r].table) : work' = [work EXCEPT ![r].pays = {p}]
    BY <1>2 DEF CancelFind
  <2>2. [work[r] EXCEPT !.pays = {p}] \in Work
    BY <1>0, RowsOfTable DEF Work
  <2>3. work' = [work EXCEPT ![r] = [work[r] EXCEPT !.pays = {p}]]
    BY <2>1
  <2>4. StepOK(r)'
    BY <1>0, <1>2 DEF CancelFind, CancelLocked, Goto, StepOK
  <2>5. QED
    BY <1>2, <2>2, <2>3, <2>4, StepType DEF CancelFind, TypeOK, db, Steps
<1>3. CASE CancelCommit(r)
  <2>1. PICK p \in work[r].pays :
          /\ payments' = (payments \ {p}) \cup {Voided(p)}
          /\ cash' = cash \cup VoidCash(r, p)
          /\ movements' = movements \cup
               {m \in RefundRows(p, req[r].key) :
                  ~\E n \in movements : n.key = m.key /\ n.side = m.side}
    BY <1>3 DEF CancelCommit
  <2>2. p \in Payment /\ p.offer \in Offer
    BY <1>0 DEF Work, Payment
  <2>3. Voided(p) \in Payment
    BY <2>2 DEF Voided, Payment
  <2>4. VoidCash(r, p) \subseteq CashRow
    BY <2>2, StoredInt DEF VoidCash, CashRow, Payment
  <2>5. RefundRows(p, req[r].key) \subseteq Movement
    <3>1. AccountBalance(Voided(p).accountId) \in Int
      BY SumInt DEF AccountBalance
    <3>2. Voided(p).accountId \in Accounts \cup {NoAccount}
      BY <2>3 DEF Payment
    <3>3. QED
      BY <1>r, <2>2, <3>1, <3>2, StoredInt DEF RefundRows, Movement, Payment
  <2>6. payments' \subseteq Payment /\ cash' \subseteq CashRow /\ movements' \subseteq Movement
    BY <2>1, <2>3, <2>4, <2>5 DEF TypeOK
  <2>7. order' \in [Tables -> Order]
    BY <1>0, <1>r, <1>3 DEF CancelCommit, Order
  <2>8. work' = [work EXCEPT ![r] = work[r]]
    BY <1>3 DEF CancelCommit, TypeOK
  <2>9. StepOK(r)'
    BY <1>0, <1>3 DEF CancelCommit, Goto, StepOK
  <2>10. Goto(r, "reload") /\ req' = req /\ items' \subseteq Line /\ runtime' \subseteq Line
    BY <1>3 DEF CancelCommit, TypeOK
  <2>11. QED
    BY <1>0, <2>6, <2>7, <2>8, <2>9, <2>10, StepType DEF Steps
<1>4. QED
  BY <1>1, <1>2, <1>3

LEMMA EndType ==
  ASSUME TypeOK, NEW r \in Requests,
         Reload(r) \/ Persist(r) \/ Fail(r) \/ (DeadlockVictim(r))
  PROVE  TypeOK'
<1>0. /\ items \subseteq Line /\ work[r] \in Work
      /\ pc \in [Requests -> {"idle"} \cup Steps \cup Ends] /\ StepOK(r)
  BY DEF TypeOK
<1>1. CASE Reload(r)
  <2>1. [work[r] EXCEPT !.rows = OrdersByTable] \in Work
    BY <1>0 DEF Work, OrdersByTable
  <2>2. work' = [work EXCEPT ![r] = [work[r] EXCEPT !.rows = OrdersByTable]]
    BY <1>1 DEF Reload
  <2>3. StepOK(r)'
    BY <1>0, <1>1 DEF Reload, Goto, StepOK
  <2>4. QED
    BY <1>1, <2>1, <2>2, <2>3, StepType DEF Reload, TypeOK, db, Steps
<1>2. CASE Persist(r)
  <2>1. work' = [work EXCEPT ![r] = work[r]] /\ runtime' \subseteq Line
    BY <1>0, <1>2 DEF Persist, TypeOK, Work
  <2>2. StepOK(r)'
    BY <1>0, <1>2 DEF Persist, Goto, StepOK
  <2>3. QED
    BY <1>0, <1>2, <2>1, <2>2, StepType DEF Persist, TypeOK, db, Ends
<1>3. CASE Fail(r) \/ DeadlockVictim(r)
  <2>1. StepOK(r)'
    BY <1>0, <1>3 DEF Fail, DeadlockVictim, Goto, StepOK
  <2>2. QED
    BY <1>3, <2>1, MoveType DEF Fail, DeadlockVictim, Ends
<1>4. QED
  BY <1>1, <1>2, <1>3

LEMMA InitType == Init => TypeOK
<1> SUFFICES ASSUME Init PROVE TypeOK
  OBVIOUS
<1>1. order \in [Tables -> Order]
  <2>1. NoOrder \in Order
    BY DEF NoOrder, Order
  <2>2. \A n \in Int : [NoOrder EXCEPT !.status = "open", !.subtotal = n, !.total = n] \in Order
    BY <2>1 DEF Order
  <2>3. \A t \in Tables : order[t] \in Order
    BY <2>1, <2>2, ItemTotalInt DEF Init
  <2>4. QED
    BY <2>3 DEF Init
<1>2. items \subseteq Line
  BY ConstantsAssumption DEF Init
<1>3. work \in [Requests -> Work]
  <2>1. NoWork \in Work
    BY DEF NoWork, Work
  <2>2. QED
    BY <2>1 DEF Init
<1>4. req \in [Requests -> Request]
  BY DEF Init, Request
<1>5. \A r \in Requests : StepOK(r)
  BY DEF Init, StepOK
<1>6. QED
  BY <1>1, <1>2, <1>3, <1>4, <1>5 DEF Init, TypeOK

LEMMA NextType == TypeOK /\ [Next]_vars => TypeOK'
<1> SUFFICES ASSUME TypeOK, [Next]_vars PROVE TypeOK'
  OBVIOUS
<1>1. CASE UNCHANGED vars
  BY <1>1 DEF vars, TypeOK, StepOK
<1>2. ASSUME NEW r \in Requests, Receive(r) PROVE TypeOK'
  BY <1>2, ReceiveType
<1>3. ASSUME NEW r \in Requests, Progress(r) PROVE TypeOK'
  BY <1>3, AddType, LineType, SaveType, ClearType, PayReadType, PayWriteType, CancelType,
     EndType DEF Progress
<1>4. ASSUME NEW r \in Requests, Fail(r) \/ DeadlockVictim(r) PROVE TypeOK'
  BY <1>4, EndType
<1>5. QED
  BY <1>1, <1>2, <1>3, <1>4 DEF Next

\* Whatever requests race, every row, body and transaction has its type, a step is run by
\* a request of its kind, and a payment on its way is for a positive amount and, where
\* it charges an account, names one (route.ts checks both before it writes).
THEOREM TypeCorrect == Spec => []TypeOK
  BY InitType, NextType, PTL DEF Spec

-----------------------------------------------------------------------------
(***************************************************************************)
(* The payments of TableOrders are safe however many terminals race: one   *)
(* payment per reconciliation key, and the payments table implements the   *)
(* ledger of charges.  Neither formula is inductive: a payment that is on  *)
(* its way commits what it checked several statements ago.  The invariant  *)
(* says why that is still true: only one request at a time holds the       *)
(* advisory lock of an order, and what it read there is what is there.     *)
(***************************************************************************)

PaySteps == {"pay_load", "pay_scan", "pay_order"}

\* One request at a time holds the advisory lock of an order.
AdvisoryExclusive ==
  \A q, r \in Requests, t \in Tables : HoldsAdvisory(q, t) /\ HoldsAdvisory(r, t) => q = r

\* What the holder read is current, and its key is not among it.
ReadCurrent(r) ==
  /\ pc[r] \in PaySteps => /\ work[r].pays = PaidOf(req[r].table)
                           /\ \A p \in work[r].pays : p.key # req[r].key
  /\ pc[r] = "cancel_order" => work[r].pays \subseteq PaidOf(req[r].table)

PaymentInv ==
  /\ TypeOK
  /\ AdvisoryExclusive
  /\ \A r \in Requests : ReadCurrent(r)
  /\ OnePaymentPerKey

LEMMA InitPaymentInv == Init => PaymentInv
<1> SUFFICES ASSUME Init PROVE PaymentInv
  OBVIOUS
<1>1. TypeOK
  BY InitType
<1>2. \A r \in Requests : pc[r] = "idle"
  BY DEF Init
<1>3. AdvisoryExclusive
  BY <1>2 DEF AdvisoryExclusive, HoldsAdvisory, AdvisoryHolders
<1>4. \A r \in Requests : ReadCurrent(r)
  BY <1>2 DEF ReadCurrent, PaySteps
<1>5. OnePaymentPerKey
  BY DEF Init, OnePaymentPerKey
<1>6. QED
  BY <1>1, <1>3, <1>4, <1>5 DEF PaymentInv

\* A step of r that writes no payment, and that leaves r without the lock or
\* with what it read under it.
LEMMA QuietStep ==
  ASSUME PaymentInv, TypeOK', NEW r \in Requests, NEW s,
         pc' = [pc EXCEPT ![r] = s], payments' = payments,
         \A q \in Requests \ {r} : work'[q] = work[q] /\ req'[q] = req[q],
         s \in AdvisoryHolders => /\ ReadCurrent(r)'
                                  /\ AdvisoryFree(r, req'[r].table)
  PROVE  PaymentInv'
<1>1. /\ pc'[r] = s
      /\ \A q \in Requests \ {r} : pc'[q] = pc[q]
  BY DEF PaymentInv, TypeOK
<1>2. ReadCurrent(r)'
  BY <1>1 DEF ReadCurrent, PaySteps, AdvisoryHolders
<1>3. ASSUME NEW q \in Requests \ {r} PROVE ReadCurrent(q)'
  BY <1>1 DEF ReadCurrent, PaidOf, PaymentInv
<1>4. AdvisoryExclusive'
  <2>1. SUFFICES ASSUME NEW p \in Requests, NEW q \in Requests, NEW t \in Tables, p # q,
                        HoldsAdvisory(p, t)', HoldsAdvisory(q, t)'
                 PROVE  FALSE
    BY DEF AdvisoryExclusive
  <2>2. CASE p # r /\ q # r
    BY <1>1, <2>1, <2>2 DEF PaymentInv, AdvisoryExclusive, HoldsAdvisory
  <2>3. CASE p = r
    BY <1>1, <2>1, <2>3 DEF AdvisoryFree, HoldsAdvisory
  <2>4. CASE q = r
    BY <1>1, <2>1, <2>4 DEF AdvisoryFree, HoldsAdvisory
  <2>5. QED
    BY <2>2, <2>3, <2>4
<1>5. OnePaymentPerKey'
  BY DEF PaymentInv, OnePaymentPerKey
<1>6. QED
  BY <1>2, <1>3, <1>4, <1>5 DEF PaymentInv

\* A commit under the lock that changes only payments of its own order.
LEMMA CommitStep ==
  ASSUME PaymentInv, TypeOK', NEW r \in Requests, pc[r] \in AdvisoryHolders,
         req[r].table \in Tables,
         Goto(r, "reload"), UNCHANGED <<req, work>>, OnePaymentPerKey',
         \A t \in Tables \ {req[r].table} : PaidOf(t)' = PaidOf(t)
  PROVE  PaymentInv'
<1>1. /\ pc'[r] = "reload"
      /\ \A q \in Requests \ {r} : pc'[q] = pc[q]
  BY DEF PaymentInv, TypeOK, Goto
<1>2. ReadCurrent(r)'
  BY <1>1 DEF ReadCurrent, PaySteps
<1>3. ASSUME NEW q \in Requests \ {r} PROVE ReadCurrent(q)'
  <2>1. CASE pc[q] \in AdvisoryHolders
    <3>1. req[q].table \in Tables
      <4>1. req[q].kind \in PaymentKinds \cup {"cancel", "clear"}
        BY <2>1 DEF PaymentInv, TypeOK, StepOK, AdvisoryHolders
      <4>2. QED
        BY <4>1, RequestFields DEF PaymentInv
    <3>2. req[q].table # req[r].table
      BY <2>1, <3>1 DEF PaymentInv, AdvisoryExclusive, HoldsAdvisory
    <3>3. PaidOf(req[q].table)' = PaidOf(req[q].table)
      BY <3>1, <3>2
    <3>4. QED
      BY <1>1, <3>3 DEF ReadCurrent, PaymentInv
  <2>2. CASE pc[q] \notin AdvisoryHolders
    BY <1>1, <2>2 DEF ReadCurrent, PaySteps, AdvisoryHolders
  <2>3. QED
    BY <2>1, <2>2
<1>4. AdvisoryExclusive'
  BY <1>1 DEF PaymentInv, AdvisoryExclusive, HoldsAdvisory, AdvisoryHolders
<1>5. QED
  BY <1>2, <1>3, <1>4 DEF PaymentInv

LEMMA ReceivePaymentInv ==
  ASSUME PaymentInv, TypeOK', NEW r \in Requests, Receive(r)
  PROVE  PaymentInv'
<1> DEFINE Entries == {"upsert", "find", "sent_find", "save_order", "clear_lock", "reload",
                       "pay_lock", "cancel_lock"}
<1>0. \E body : \E s \in Entries : Arrive(r, body, s)
  <2>1. CASE ReceiveSave(r)
    <3>1. PICK t \in Tables, k \in {"sent", "save"} :
            Arrive(r, [kind |-> k, table |-> t, order |-> order[t]],
                   IF k = "sent" THEN "sent_find" ELSE "save_order")
      BY <2>1 DEF ReceiveSave
    <3>2. (IF k = "sent" THEN "sent_find" ELSE "save_order") \in Entries
      OBVIOUS
    <3> HIDE DEF Entries
    <3>3. QED
      BY <3>1, <3>2, Zenon
  <2>2. CASE ReceiveClear(r)
    <3>1. PICK t \in Tables :
            Arrive(r, [kind |-> "clear", table |-> t, order |-> order[t]],
                   IF order[t].status = "none" THEN "reload" ELSE "clear_lock")
      BY <2>2 DEF ReceiveClear
    <3>2. (IF order[t].status = "none" THEN "reload" ELSE "clear_lock") \in Entries
      OBVIOUS
    <3> HIDE DEF Entries
    <3>3. QED
      BY <3>1, <3>2, Zenon
  <2>3. CASE ReceiveAdd(r) \/ ReceiveLine(r) \/ ReceivePayment(r) \/ ReceiveCancel(r)
    BY <2>3, Zenon DEF ReceiveAdd, ReceiveLine, ReceivePayment, ReceiveCancel
  <2>4. QED
    BY <2>1, <2>2, <2>3 DEF Receive
<1>1. PICK body, s : Arrive(r, body, s) /\ s \notin AdvisoryHolders
  <2>1. Entries \cap AdvisoryHolders = {}
    BY DEF AdvisoryHolders
  <2> HIDE DEF Entries
  <2>2. QED
    BY <1>0, <2>1
<1>2. \A q \in Requests \ {r} : work'[q] = work[q] /\ req'[q] = req[q]
  BY <1>1 DEF Arrive, PaymentInv, TypeOK
<1>3. QED
  BY <1>1, <1>2, QuietStep DEF Arrive, Goto, db

\* The steps that neither hold nor take the advisory lock.
LEMMA UnlockedPaymentInv ==
  ASSUME PaymentInv, TypeOK', NEW r \in Requests,
         \/ AddUpsert(r) \/ AddCommit(r)
         \/ LineFind(r) \/ LineWrite(r) \/ LineGone(r) \/ LineCommit(r)
         \/ SentFind(r) \/ SentWrite(r) \/ SentGone(r) \/ SentCommit(r) \/ SaveCommit(r)
         \/ ClearCommit(r) \/ PayDuplicate(r) \/ PayRefused(r) \/ PayConflict(r)
         \/ CancelRefused(r) \/ Reload(r) \/ Persist(r) \/ Fail(r) \/ DeadlockVictim(r)
  PROVE  PaymentInv'
<1>1. PICK s : Goto(r, s) /\ s \notin AdvisoryHolders
  <2>1. CASE LineFind(r)
    <3>1. Goto(r, "done") \/ Goto(r, "line_write")
      BY <2>1, Zenon DEF LineFind
    <3>2. QED
      BY <3>1 DEF AdvisoryHolders
  <2>2. CASE SentFind(r)
    <3>1. Goto(r, "save_order") \/ Goto(r, "sent_write")
      BY <2>2, Zenon DEF SentFind
    <3>2. QED
      BY <3>1 DEF AdvisoryHolders
  <2>3. CASE ~LineFind(r) /\ ~SentFind(r)
    <3>1. \E s \in {"add_lines", "done", "line_order", "failed", "sent_order", "reload", "persist"} :
            Goto(r, s)
      BY <2>3, Zenon DEF AddUpsert, AddCommit, LineWrite, LineGone, LineCommit, SentWrite,
         SentGone, SentCommit, SaveCommit, ClearCommit, PayDuplicate, PayRefused, PayConflict,
         CancelRefused, Reload, Persist, Fail, DeadlockVictim
    <3>2. QED
      BY <3>1 DEF AdvisoryHolders
  <2>4. QED
    BY <2>1, <2>2, <2>3
<1>2. payments' = payments /\ req' = req
  BY DEF AddUpsert, AddCommit, LineFind, LineWrite, LineGone, LineCommit, SentFind, SentWrite,
         SentGone, SentCommit, SaveCommit, ClearCommit, PayDuplicate, PayRefused, PayConflict,
         CancelRefused, Reload, Persist, Fail, DeadlockVictim, db
<1>3. \A q \in Requests \ {r} : work'[q] = work[q]
  BY DEF AddUpsert, AddCommit, LineFind, LineWrite, LineGone, LineCommit, SentFind, SentWrite,
         SentGone, SentCommit, SaveCommit, ClearCommit, PayDuplicate, PayRefused, PayConflict,
         CancelRefused, Reload, Persist, Fail, DeadlockVictim, PaymentInv, TypeOK
<1>4. QED
  BY <1>1, <1>2, <1>3, QuietStep DEF Goto

\* The steps that take the advisory lock find it free.
LEMMA LockPaymentInv ==
  ASSUME PaymentInv, TypeOK', NEW r \in Requests, ClearLock(r) \/ PayCharge(r) \/ CancelFind(r)
  PROVE  PaymentInv'
<1>0. work \in [Requests -> Work] /\ pc \in [Requests -> {"idle"} \cup Steps \cup Ends]
  BY DEF PaymentInv, TypeOK
<1>1. AdvisoryFree(r, req'[r].table) /\ payments' = payments /\ req' = req
  BY DEF ClearLock, PayCharge, PayLocked, CancelFind, CancelLocked, db
<1>2. \A q \in Requests \ {r} : work'[q] = work[q]
  BY <1>0 DEF ClearLock, PayCharge, CancelFind
<1>3. CASE ClearLock(r)
  <2>1. ReadCurrent(r)'
    BY <1>0, <1>3 DEF ClearLock, Goto, ReadCurrent, PaySteps
  <2>2. QED
    BY <1>1, <1>2, <1>3, <2>1, QuietStep DEF ClearLock, Goto
<1>4. CASE PayCharge(r)
  <2>1. work'[r].pays = PaidOf(req[r].table)
    BY <1>0, <1>4 DEF PayCharge, Work
  <2>2. \A p \in work'[r].pays : p.key # req[r].key
    BY <1>4, <2>1 DEF PayCharge, Duplicate
  <2>3. PaidOf(req[r].table)' = PaidOf(req[r].table)
    BY <1>1 DEF PaidOf
  <2>4. ReadCurrent(r)'
    BY <1>0, <1>1, <1>4, <2>1, <2>2, <2>3 DEF PayCharge, Goto, ReadCurrent, PaySteps
  <2>5. QED
    BY <1>1, <1>2, <1>4, <2>4, QuietStep DEF PayCharge, Goto
<1>5. CASE CancelFind(r)
  <2>1. work'[r].pays \subseteq PaidOf(req[r].table)
    BY <1>0, <1>5 DEF CancelFind, Work
  <2>2. PaidOf(req[r].table)' = PaidOf(req[r].table)
    BY <1>1 DEF PaidOf
  <2>3. ReadCurrent(r)'
    BY <1>0, <1>1, <1>5, <2>1, <2>2 DEF CancelFind, Goto, ReadCurrent, PaySteps
  <2>4. QED
    BY <1>1, <1>2, <1>5, <2>3, QuietStep DEF CancelFind, Goto
<1>6. QED
  BY <1>3, <1>4, <1>5

\* The steps that keep the advisory lock.
LEMMA KeepPaymentInv ==
  ASSUME PaymentInv, TypeOK', NEW r \in Requests, PayLoad(r) \/ PayScan(r)
  PROVE  PaymentInv'
<1>0. work \in [Requests -> Work] /\ pc \in [Requests -> {"idle"} \cup Steps \cup Ends]
  BY DEF PaymentInv, TypeOK
<1>1. payments' = payments /\ req' = req /\ pc[r] \in {"pay_load", "pay_scan"}
  BY DEF PayLoad, PayScan, db
<1>2. PICK s \in PaySteps : Goto(r, s)
  BY DEF PayLoad, PayScan, PaySteps
<1>3. work'[r].pays = work[r].pays /\ \A q \in Requests \ {r} : work'[q] = work[q]
  BY <1>0 DEF PayLoad, PayScan, Work
<1>4. AdvisoryFree(r, req[r].table)
  <2>1. req[r].table \in Tables
    BY <1>1, RequestFields DEF PaymentInv, TypeOK, StepOK
  <2>2. HoldsAdvisory(r, req[r].table)
    BY <1>1 DEF HoldsAdvisory, AdvisoryHolders
  <2>3. QED
    BY <2>1, <2>2 DEF AdvisoryFree, PaymentInv, AdvisoryExclusive
<1>5. ReadCurrent(r)'
  BY <1>0, <1>1, <1>2, <1>3 DEF ReadCurrent, PaymentInv, PaySteps, Goto, PaidOf
<1>6. QED
  BY <1>1, <1>2, <1>3, <1>4, <1>5, QuietStep DEF Goto

\* A payment commits: its key is still new on the order.
LEMMA PayPaymentInv ==
  ASSUME PaymentInv, TypeOK', NEW r \in Requests, PayCommit(r)
  PROVE  PaymentInv' /\ \A p \in PaidOf(req[r].table) : p.key # req[r].key
<1>0. /\ pc[r] = "pay_order" /\ payments' = payments \cup {NewPayment(r)}
      /\ Goto(r, "reload") /\ UNCHANGED <<req, work>>
  BY DEF PayCommit
<1>1. req[r].table \in Tables
  BY <1>0, RequestFields DEF PaymentInv, TypeOK, StepOK
<1>2. \A p \in PaidOf(req[r].table) : p.key # req[r].key
  BY <1>0 DEF PaymentInv, ReadCurrent, PaySteps
<1>3. OnePaymentPerKey'
  BY <1>0, <1>2 DEF OnePaymentPerKey, PaymentInv, NewPayment, PaidOf
<1>4. \A t \in Tables \ {req[r].table} : PaidOf(t)' = PaidOf(t)
  BY <1>0 DEF PaidOf, NewPayment
<1>5. PaymentInv'
  BY <1>0, <1>1, <1>3, <1>4, CommitStep DEF AdvisoryHolders
<1>6. QED
  BY <1>2, <1>5

\* A cancellation commits: the payment it voids still stands.
LEMMA CancelPaymentInv ==
  ASSUME PaymentInv, TypeOK', NEW r \in Requests, CancelCommit(r)
  PROVE  /\ PaymentInv'
         /\ \E p \in PaidOf(req[r].table) : payments' = (payments \ {p}) \cup {Voided(p)}
<1>0. pc[r] = "cancel_order" /\ Goto(r, "reload") /\ UNCHANGED <<req, work>>
  BY DEF CancelCommit
<1>1. req[r].table \in Tables
  BY <1>0, RequestFields DEF PaymentInv, TypeOK, StepOK
<1>2. PICK p \in PaidOf(req[r].table) : payments' = (payments \ {p}) \cup {Voided(p)}
  BY <1>0 DEF CancelCommit, PaymentInv, ReadCurrent
<1>3. p \in Payment /\ p.table = req[r].table
  BY <1>2 DEF PaidOf, PaymentInv, TypeOK
<1>4. Voided(p).status = "voided" /\ Voided(p).table = p.table
  BY <1>3 DEF Voided, Payment
<1>5. OnePaymentPerKey'
  BY <1>2, <1>4 DEF OnePaymentPerKey, PaymentInv
<1>6. \A t \in Tables \ {req[r].table} : PaidOf(t)' = PaidOf(t)
  BY <1>2, <1>3, <1>4 DEF PaidOf
<1>7. PaymentInv'
  BY <1>0, <1>1, <1>5, <1>6, CommitStep DEF AdvisoryHolders
<1>8. QED
  BY <1>2, <1>7

LEMMA NextPaymentInv == PaymentInv /\ [Next]_vars => PaymentInv'
<1> SUFFICES ASSUME PaymentInv, [Next]_vars PROVE PaymentInv'
  OBVIOUS
<1>0. TypeOK'
  BY NextType DEF PaymentInv
<1>1. CASE UNCHANGED vars
  BY <1>0, <1>1 DEF vars, PaymentInv, AdvisoryExclusive, HoldsAdvisory, ReadCurrent, PaidOf,
                    OnePaymentPerKey
<1>2. ASSUME NEW r \in Requests, Receive(r) PROVE PaymentInv'
  BY <1>0, <1>2, ReceivePaymentInv
<1>3. ASSUME NEW r \in Requests, Progress(r) PROVE PaymentInv'
  BY <1>0, <1>3, UnlockedPaymentInv, LockPaymentInv, KeepPaymentInv, PayPaymentInv,
     CancelPaymentInv DEF Progress
<1>4. ASSUME NEW r \in Requests, Fail(r) \/ DeadlockVictim(r) PROVE PaymentInv'
  BY <1>0, <1>4, UnlockedPaymentInv
<1>5. QED
  BY <1>1, <1>2, <1>3, <1>4 DEF Next

\* Whatever requests race, at most one of them is past the advisory lock of an order
\* and not yet committed, and what it read of the payments is still so (route.ts,
\* pg_advisory_xact_lock).
THEOREM PaymentInvariant == Spec => []PaymentInv
  BY InitPaymentInv, NextPaymentInv, PTL DEF Spec

\* Terminals that race or retry with one reconciliation key leave at most one
\* paid payment of it on an order: the check for a duplicate and the insertion of the
\* payment (route.ts) are several statements apart, but under one lock.
THEOREM OnePayment == Spec => []OnePaymentPerKey
<1>1. PaymentInv => OnePaymentPerKey
  BY DEF PaymentInv
<1>2. QED
  BY <1>1, PaymentInvariant, PTL

\* What a payment or a cancellation read under the advisory lock still holds when
\* it commits.
THEOREM ReadsAreCurrent == Spec => []PaymentsReadAreCurrent
<1>1. PaymentInv => PaymentsReadAreCurrent
  BY DEF PaymentInv, PaymentsReadAreCurrent, ReadCurrent, PaySteps
<1>2. QED
  BY <1>1, PaymentInvariant, PTL

-----------------------------------------------------------------------------
(***************************************************************************)
(* The drawer and the account ledger follow the payments.  Each row is     *)
(* named after the request that wrote it, so the invariant says which      *)
(* requests have written: those past their commit (PastCommit).            *)
(***************************************************************************)

PastCommit == {"reload", "persist"} \cup Ends

\* A payment row names the request that wrote it, and what it put in the ledgers.
PaymentBooked(p) ==
  /\ pc[p.id] \in PastCommit /\ req[p.id].kind \in PaymentKinds
  /\ p.amount > 0
  /\ PutIn(p) = {CashPart(p.offer, p.amount)} \ {0}
  /\ SoldOn(p) = {AccountPart(p.offer, p.amount)} \ {0}

\* A cash row was written by the payment it is of, or by a cancellation of it.
CashBooked(c) ==
  /\ pc[c.id] \in PastCommit
  /\ \/ req[c.id].kind \in PaymentKinds /\ c.payment = c.id /\ c.amount > 0
     \/ req[c.id].kind = "cancel" /\ c.amount < 0
  /\ \E p \in payments : p.id = c.payment

PaymentIdsUnique == \A p, q \in payments : p.id = q.id => p = q

\* Cash is taken out once for a payment: the stored amount, when it is voided.
VoidedOnce ==
  \A c, d \in cash : c.amount < 0 /\ d.amount < 0 /\ c.payment = d.payment => c = d

VoidBooked(p) ==
  {c.amount : c \in TakenOut(p)} = IF p.status = "voided" THEN {-StoredCash(p)} \ {0} ELSE {}

MovementBooked(m) == \E p \in payments : p.id = m.payment /\ p.key = m.key

LedgerInv ==
  /\ PaymentIdsUnique
  /\ \A p \in payments : PaymentBooked(p) /\ VoidBooked(p)
  /\ \A c \in cash : CashBooked(c)
  /\ \A m \in movements : MovementBooked(m)
  /\ VoidedOnce

LEMMA InitLedgerInv == Init => LedgerInv
  BY DEF Init, LedgerInv, PaymentIdsUnique, VoidedOnce

\* A request past its commit stays so.
LEMMA PastStays ==
  ASSUME TypeOK, [Next]_vars, NEW q \in Requests, pc[q] \in PastCommit
  PROVE  pc'[q] \in PastCommit /\ req'[q] = req[q]
<1>1. CASE UNCHANGED vars
  BY <1>1 DEF vars
<1>2. pc \in [Requests -> {"idle"} \cup Steps \cup Ends] /\ req \in [Requests -> Request]
  BY DEF TypeOK
<1>3. ASSUME NEW r \in Requests, Receive(r) PROVE pc'[q] \in PastCommit /\ req'[q] = req[q]
  <2>1. PICK body, s : Arrive(r, body, s)
    BY <1>3 DEF Receive, ReceiveAdd, ReceiveLine, ReceiveSave, ReceiveClear, ReceivePayment,
                ReceiveCancel
  <2>2. q # r
    BY <2>1 DEF Arrive, PastCommit, Ends
  <2>3. QED
    BY <1>2, <2>1, <2>2 DEF Arrive, Goto
<1>4. ASSUME NEW r \in Requests, Progress(r) \/ Fail(r) \/ DeadlockVictim(r)
      PROVE  pc'[q] \in PastCommit /\ req'[q] = req[q]
  <2>1. req' = req /\ \E s : Goto(r, s)
    BY <1>4, Zenon DEF Progress, AddUpsert, AddCommit, LineFind, LineWrite, LineGone, LineCommit,
       SentFind, SentWrite, SentGone, SentCommit, SaveCommit, ClearLock, ClearCommit, PayDuplicate,
       PayRefused, PayCharge, PayLoad, PayScan, PayCommit, PayConflict, CancelRefused, CancelFind,
       CancelCommit, Reload, Persist, Fail, DeadlockVictim
  <2>2. pc[r] \in PastCommit => pc'[r] \in PastCommit
    <3>1. ASSUME pc[r] \in PastCommit, Progress(r) PROVE Goto(r, "persist") \/ Goto(r, "done")
      BY <3>1 DEF Progress, AddUpsert, AddCommit, LineFind, LineWrite, LineGone, LineCommit,
         SentFind, SentWrite, SentGone, SentCommit, SaveCommit, ClearLock, ClearCommit, PayDuplicate,
         PayRefused, PayCharge, PayLoad, PayScan, PayLocked, PayCommit, PayConflict, CancelRefused,
         CancelFind, CancelLocked, CancelCommit, Reload, Persist, PastCommit, Ends
    <3>2. Fail(r) \/ DeadlockVictim(r) => Goto(r, "failed")
      BY DEF Fail, DeadlockVictim
    <3>3. QED
      BY <1>2, <1>4, <3>1, <3>2 DEF Goto, PastCommit, Ends
  <2>3. QED
    BY <1>2, <2>1, <2>2 DEF Goto
<1>5. QED
  BY <1>1, <1>3, <1>4 DEF Next

LEMMA QuietLedger ==
  ASSUME TypeOK, LedgerInv, [Next]_vars, UNCHANGED <<payments, cash, movements>>
  PROVE  LedgerInv'
<1>1. \A p \in payments : p.id \in Requests
  BY DEF TypeOK, Payment
<1>2. \A c \in cash : c.id \in Requests
  BY DEF TypeOK, CashRow
<1>3. \A p \in payments : PaymentBooked(p)'
  BY <1>1, PastStays DEF LedgerInv, PaymentBooked, PutIn, SoldOn
<1>4. \A c \in cash : CashBooked(c)'
  BY <1>2, PastStays DEF LedgerInv, CashBooked
<1>5. \A p \in payments : VoidBooked(p)'
  BY DEF LedgerInv, VoidBooked, TakenOut
<1>6. QED
  BY <1>3, <1>4, <1>5 DEF LedgerInv, PaymentIdsUnique, MovementBooked, VoidedOnce

LEMMA PartsNat ==
  ASSUME NEW o \in Offer, NEW n \in Int, n > 0
  PROVE  CashPart(o, n) \in Nat /\ AccountPart(o, n) \in Nat
  BY DEF CashPart, AccountPart, Offer, Lesser, Larger, NotSent

\* A payment is booked in the step that records it.
LEMMA PayLedgerInv ==
  ASSUME PaymentInv, LedgerInv, [Next]_vars, NEW r \in Requests, PayCommit(r)
  PROVE  LedgerInv'
<1> DEFINE new == NewPayment(r)
           inDrawer == CashPart(req[r].offer, work[r].charge)
           onAccount == AccountPart(req[r].offer, work[r].charge)
           paidIn == CashRows(r, inDrawer)
           sold == SaleRows(r, onAccount)
<1>1. /\ payments' = payments \cup {new} /\ cash' = cash \cup paidIn
      /\ movements' = movements \cup sold /\ pc[r] = "pay_order" /\ Goto(r, "reload") /\ req' = req
  BY DEF PayCommit
<1>2. TypeOK /\ req[r].kind \in PaymentKinds /\ req[r].offer \in Offer
      /\ work[r].charge \in Int /\ work[r].charge > 0 /\ pc'[r] = "reload"
  BY <1>1, RequestFields DEF PaymentInv, TypeOK, StepOK, Goto, Work
<1>3. inDrawer \in Nat /\ onAccount \in Nat
  BY <1>2, PartsNat
<1>4. new.id = r /\ new.key = req[r].key /\ new.offer = req[r].offer /\ new.amount = work[r].charge
      /\ new.status = "paid"
  BY DEF NewPayment
<1> HIDE DEF new, inDrawer, onAccount
<1>5. \A c \in paidIn : c.id = r /\ c.payment = r /\ c.amount = inDrawer /\ inDrawer > 0
  BY DEF CashRows
<1>6. \A m \in sold : /\ m.payment = r /\ m.side = "sale" /\ m.key = req[r].key
                      /\ m.amount = onAccount /\ onAccount > 0
  BY DEF SaleRows
<1>7. (inDrawer > 0 => paidIn # {}) /\ (onAccount > 0 => sold # {})
  BY DEF CashRows, SaleRows
<1> HIDE DEF paidIn, sold
<1>8. r \notin Ids(payments) /\ (\A p \in payments : p.id # r) /\ (\A c \in cash : c.id # r)
      /\ (\A c \in cash : c.payment # r) /\ (\A m \in movements : m.payment # r)
  <2>1. \A p \in payments : p.id # r
    BY <1>1 DEF LedgerInv, PaymentBooked, PastCommit, Ends
  <2>2. \A c \in cash : c.id # r /\ c.payment # r
    BY <1>1, <2>1 DEF LedgerInv, CashBooked, PastCommit, Ends
  <2>3. \A m \in movements : m.payment # r
    BY <2>1 DEF LedgerInv, MovementBooked
  <2>4. QED
    BY <2>1, <2>2, <2>3 DEF Ids
<1>9. \A p \in payments : p.id \in Requests
  BY <1>2 DEF TypeOK, Payment
<1>10. \A p \in payments : PaymentBooked(p)'
  <2>1. SUFFICES ASSUME NEW p \in payments PROVE PaymentBooked(p)'
    OBVIOUS
  <2>2. {d \in cash' : d.id = p.id} = {d \in cash : d.id = p.id}
    BY <1>1, <1>5, <1>8
  <2>3. {n \in movements' : n.payment = p.id /\ n.side = "sale"}
          = {n \in movements : n.payment = p.id /\ n.side = "sale"}
    BY <1>1, <1>6, <1>8
  <2>4. PutIn(p)' = PutIn(p) /\ SoldOn(p)' = SoldOn(p)
    BY <2>2, <2>3 DEF PutIn, SoldOn
  <2>5. PaymentBooked(p)
    BY DEF LedgerInv
  <2>6. QED
    BY <1>2, <1>9, <2>4, <2>5, PastStays DEF PaymentBooked
<1>11. ASSUME NEW p, p = new PROVE PaymentBooked(p)'
  <2>1. {d \in cash' : d.id = p.id} = paidIn
    BY <1>1, <1>4, <1>5, <1>8, <1>11
  <2>2. {n \in movements' : n.payment = p.id /\ n.side = "sale"} = sold
    BY <1>1, <1>4, <1>6, <1>8, <1>11
  <2>3. {c.amount : c \in paidIn} = {inDrawer} \ {0}
    BY <1>3, <1>5, <1>7
  <2>4. {m.amount : m \in sold} = {onAccount} \ {0}
    BY <1>3, <1>6, <1>7
  <2>5. CashPart(p.offer, p.amount) = inDrawer /\ AccountPart(p.offer, p.amount) = onAccount
    BY <1>4, <1>11 DEF inDrawer, onAccount
  <2>6. pc'[p.id] \in PastCommit /\ req'[p.id].kind \in PaymentKinds
    BY <1>1, <1>2, <1>4, <1>11 DEF PastCommit
  <2>7. p.amount > 0
    BY <1>2, <1>4, <1>11
  <2>8. QED
    BY <2>1, <2>2, <2>3, <2>4, <2>5, <2>6, <2>7 DEF PaymentBooked, PutIn, SoldOn
<1>12. \A c \in cash' : CashBooked(c)'
  <2>1. SUFFICES ASSUME NEW c \in cash' PROVE CashBooked(c)'
    OBVIOUS
  <2>2. CASE c \in cash
    <3>1. c.id \in Requests /\ CashBooked(c)
      BY <1>2, <2>2 DEF TypeOK, CashRow, LedgerInv
    <3>2. QED
      BY <1>1, <1>2, <3>1, PastStays DEF CashBooked
  <2>3. CASE c \in paidIn
    <3>1. c.id = r /\ c.payment = r /\ c.amount > 0
      BY <1>5, <2>3
    <3>2. QED
      BY <1>1, <1>2, <1>4, <3>1 DEF CashBooked, PastCommit
  <2>4. QED
    BY <1>1, <2>1, <2>2, <2>3
<1>13. \A m \in movements' : MovementBooked(m)'
  BY <1>1, <1>4, <1>6 DEF LedgerInv, MovementBooked
<1>14. VoidedOnce' /\ \A p \in payments' : VoidBooked(p)'
  <2>1. \A c \in cash' : c.amount < 0 => c \in cash
    BY <1>1, <1>3, <1>5
  <2>2. VoidedOnce'
    BY <2>1 DEF LedgerInv, VoidedOnce
  <2>3. \A p : TakenOut(p)' = TakenOut(p)
    BY <1>1, <2>1 DEF TakenOut
  <2>4. \A p \in payments : VoidBooked(p)'
    BY <2>3 DEF LedgerInv, VoidBooked
  <2>5. TakenOut(new) = {}
    BY <1>4, <1>8 DEF TakenOut
  <2>6. ASSUME NEW p, p = new
        PROVE  VoidBooked(p)'
    <3>1. TakenOut(p)' = {}
      BY <2>3, <2>5, <2>6
    <3>2. QED
      BY <1>4, <2>6, <3>1 DEF VoidBooked
  <2>7. QED
    BY <1>1, <2>2, <2>4, <2>6
<1>15. PaymentIdsUnique'
  BY <1>1, <1>4, <1>8 DEF LedgerInv, PaymentIdsUnique
<1>16. QED
  BY <1>1, <1>10, <1>11, <1>12, <1>13, <1>14, <1>15 DEF LedgerInv

\* A cancellation takes the cash of one standing payment out of the drawer.
LEMMA CancelLedgerInv ==
  ASSUME PaymentInv, LedgerInv, [Next]_vars, NEW r \in Requests, CancelCommit(r)
  PROVE  LedgerInv'
<1>1. /\ pc[r] = "cancel_order" /\ Goto(r, "reload") /\ req' = req /\ TypeOK
      /\ pc'[r] = "reload" /\ req[r].kind = "cancel"
  BY DEF CancelCommit, PaymentInv, TypeOK, StepOK, Goto
<1>2. PICK p \in work[r].pays :
        /\ payments' = (payments \ {p}) \cup {Voided(p)}
        /\ cash' = cash \cup VoidCash(r, p)
        /\ movements' = movements \cup
             {m \in RefundRows(p, req[r].key) :
                ~\E n \in movements : n.key = m.key /\ n.side = m.side}
  BY DEF CancelCommit
<1>3. p \in payments /\ p \in Payment /\ p.status = "paid"
  BY <1>1 DEF PaymentInv, ReadCurrent, PaidOf, TypeOK
<1> DEFINE void == Voided(p)
           out == VoidCash(r, p)
<1>4. /\ void.id = p.id /\ void.key = p.key /\ void.offer = p.offer /\ void.amount = p.amount
      /\ void.status = "voided" /\ void.accountId = NoAccount
  BY <1>3 DEF Voided, Payment
<1>5. movements' = movements
  <2>1. RefundRows(p, req[r].key) = {}
    BY <1>4 DEF RefundRows
  <2>2. QED
    BY <1>2, <2>1
<1>6. \A c \in out : c.id = r /\ c.payment = p.id /\ c.amount < 0 /\ c.amount = -StoredCash(p)
  BY <1>3, StoredInt DEF VoidCash
<1>7. (\A c, d \in out : c = d) /\ (StoredCash(p) > 0 => out # {})
  BY DEF VoidCash
<1> HIDE DEF void, out
<1>8. payments' = (payments \ {p}) \cup {void} /\ cash' = cash \cup out
  BY <1>2 DEF void, out
<1>9. (\A q \in payments : q.id # r) /\ (\A c \in cash : c.id # r)
  BY <1>1 DEF LedgerInv, PaymentBooked, CashBooked, PastCommit, Ends
<1>10. \A q \in payments \cup {void} : PaymentBooked(q)'
  <2>1. ASSUME NEW q \in payments \cup {void}, NEW o \in payments,
               o.id = q.id /\ o.offer = q.offer /\ o.amount = q.amount
        PROVE  PaymentBooked(q)'
    <3>1. {d \in cash' : d.id = q.id} = {d \in cash : d.id = o.id}
      BY <1>6, <1>8, <1>9, <2>1
    <3>2. PutIn(q)' = PutIn(o) /\ SoldOn(q)' = SoldOn(o)
      BY <1>5, <2>1, <3>1 DEF PutIn, SoldOn
    <3>3. PaymentBooked(o) /\ o.id \in Requests
      BY <1>1 DEF LedgerInv, TypeOK, Payment
    <3>4. QED
      BY <1>1, <2>1, <3>2, <3>3, PastStays DEF PaymentBooked
  <2>2. QED
    BY <1>3, <1>4, <2>1
<1>11. \A q \in payments : \E o \in payments' : o.id = q.id /\ o.key = q.key
  BY <1>4, <1>8
<1>12. \A c \in cash' : CashBooked(c)'
  <2>1. SUFFICES ASSUME NEW c \in cash' PROVE CashBooked(c)'
    OBVIOUS
  <2>2. CASE c \in cash
    <3>1. c.id \in Requests /\ CashBooked(c)
      BY <1>1, <2>2 DEF TypeOK, CashRow, LedgerInv
    <3>2. QED
      BY <1>1, <1>11, <3>1, PastStays DEF CashBooked
  <2>3. CASE c \in out
    BY <1>1, <1>3, <1>6, <1>11, <2>3 DEF CashBooked, PastCommit
  <2>4. QED
    BY <1>8, <2>1, <2>2, <2>3
<1>13. \A m \in movements' : MovementBooked(m)'
  BY <1>5, <1>11 DEF LedgerInv, MovementBooked
<1>14. VoidedOnce' /\ \A q \in payments' : VoidBooked(q)'
  <2>1. TakenOut(p) = {}
    BY <1>3 DEF LedgerInv, VoidBooked
  <2>2. VoidedOnce'
    BY <1>6, <1>7, <1>8, <2>1 DEF LedgerInv, VoidedOnce, TakenOut
  <2>3. ASSUME NEW q \in payments \ {p}
        PROVE  VoidBooked(q)'
    <3>1. q.id # p.id
      BY <1>3 DEF LedgerInv, PaymentIdsUnique
    <3>2. TakenOut(q)' = TakenOut(q)
      BY <1>6, <1>8, <3>1 DEF TakenOut
    <3>3. QED
      BY <3>2 DEF LedgerInv, VoidBooked
  <2>4. ASSUME NEW q, q = void
        PROVE  VoidBooked(q)'
    <3>1. TakenOut(q)' = out
      BY <1>4, <1>6, <1>8, <2>1, <2>4 DEF TakenOut
    <3>2. StoredCash(q) = StoredCash(p)
      BY <1>4, <2>4 DEF StoredCash
    <3>3. StoredCash(p) \in Nat
      BY <1>3 DEF LedgerInv, PaymentBooked, StoredCash, Payment, Offer, NotSent
    <3>4. {c.amount : c \in out} = {-StoredCash(p)} \ {0}
      BY <1>6, <1>7, <3>3
    <3>5. QED
      BY <1>4, <2>4, <3>1, <3>2, <3>4 DEF VoidBooked
  <2>5. QED
    BY <1>8, <2>2, <2>3, <2>4
<1>15. PaymentIdsUnique'
  BY <1>3, <1>4, <1>8 DEF LedgerInv, PaymentIdsUnique
<1>16. QED
  BY <1>8, <1>10, <1>12, <1>13, <1>14, <1>15 DEF LedgerInv

LEMMA NextLedgerInv == PaymentInv /\ LedgerInv /\ [Next]_vars => LedgerInv'
<1> SUFFICES ASSUME PaymentInv, LedgerInv, [Next]_vars PROVE LedgerInv'
  OBVIOUS
<1>1. TypeOK
  BY DEF PaymentInv
<1>2. CASE UNCHANGED <<payments, cash, movements>>
  BY <1>1, <1>2, QuietLedger
<1>3. CASE ~UNCHANGED <<payments, cash, movements>>
  <2>1. PICK r \in Requests : Progress(r)
    BY <1>3 DEF Next, vars, Receive, ReceiveAdd, ReceiveLine, ReceiveSave, ReceiveClear,
       ReceivePayment, ReceiveCancel, Arrive, Fail, DeadlockVictim, db
  <2>2. PayCommit(r) \/ CancelCommit(r)
    BY <1>3, <2>1 DEF Progress, AddUpsert, AddCommit, LineFind, LineWrite, LineGone,
       LineCommit, SentFind, SentWrite, SentGone, SentCommit, SaveCommit, ClearLock,
       ClearCommit, PayDuplicate, PayRefused, PayCharge, PayLoad, PayScan, PayConflict,
       CancelRefused, CancelFind, Reload, Persist, db
  <2>3. QED
    BY <2>2, PayLedgerInv, CancelLedgerInv
<1>4. QED
  BY <1>2, <1>3

LEMMA LedgersFollow == LedgerInv => LedgersFollowPayments
<1> SUFFICES ASSUME LedgerInv PROVE LedgersFollowPayments
  OBVIOUS
<1>1. ASSUME NEW p \in payments
      PROVE  Cardinality(TakenOut(p)) <= 1
  <2>1. TakenOut(p) = {} \/ \E c : TakenOut(p) = {c}
    BY DEF LedgerInv, VoidedOnce, TakenOut
  <2>2. Cardinality(TakenOut(p)) \in {0, 1}
    BY <2>1, FS_EmptySet, FS_Singleton
  <2>3. QED
    BY <2>2
<1>2. \A p \in payments :
        /\ PutIn(p) = {CashPart(p.offer, p.amount)} \ {0}
        /\ SoldOn(p) = {AccountPart(p.offer, p.amount)} \ {0}
        /\ {c.amount : c \in TakenOut(p)} = IF p.status = "voided" THEN {-StoredCash(p)} \ {0} ELSE {}
  BY DEF LedgerInv, PaymentBooked, VoidBooked
<1>3. (\A c \in cash : \E p \in payments : p.id = c.payment)
      /\ (\A m \in movements : \E p \in payments : p.id = m.payment /\ p.key = m.key)
  BY DEF LedgerInv, CashBooked, MovementBooked
<1>4. QED
  BY <1>1, <1>2, <1>3 DEF LedgersFollowPayments

\* Every payment's parts are booked once, in its own commit, and stay booked; a voided
\* payment, and no other, is taken out of the drawer, once, at the cash amount stored
\* with it (route.ts).  That its account charge is given back is not part of it.
THEOREM LedgersFollowed == Spec => []LedgersFollowPayments
  BY InitLedgerInv, NextLedgerInv, PaymentInvariant, LedgersFollow, PTL DEF Spec

-----------------------------------------------------------------------------
(* The payments rows implement the ledger of charges.                       *)

LEMMA InitLedger == Init => Ledger!Init
  BY DEF Init, Ledger!Init, Charges

LEMMA PayLedger ==
  ASSUME PaymentInv, TypeOK', NEW r \in Requests, PayCommit(r)
  PROVE  Ledger!Next
<1> DEFINE p == NewPayment(r)
<1>1. payments' = payments \cup {p} /\ p.status = "paid"
  BY DEF PayCommit, NewPayment
<1>2. Charges' = Charges \cup {ChargeOf(p)}
  BY <1>1 DEF Charges
<1>3. ChargeOf(p) \in Ledger!Charge
  <2>1. p \in Payment
    BY <1>1 DEF TypeOK
  <2>2. QED
    BY <2>1 DEF ChargeOf, Ledger!Charge, Payment
<1>4. ChargeOf(p).amount > 0
  BY DEF PaymentInv, TypeOK, StepOK, PayCommit, ChargeOf, NewPayment
<1>5. \A d \in Charges : ~(d.table = ChargeOf(p).table /\ d.key = ChargeOf(p).key)
  <2>1. \A q \in PaidOf(req[r].table) : q.key # req[r].key
    BY PayPaymentInv
  <2>2. QED
    BY <2>1 DEF Charges, ChargeOf, PaidOf, NewPayment
<1>6. Ledger!Record(ChargeOf(p))
  BY <1>2, <1>3, <1>4, <1>5 DEF Ledger!Record
<1>7. QED
  BY <1>2, <1>6 DEF Ledger!Next

LEMMA CancelLedger ==
  ASSUME PaymentInv, TypeOK', NEW r \in Requests, CancelCommit(r)
  PROVE  Ledger!Next
<1>1. PICK p \in PaidOf(req[r].table) : payments' = (payments \ {p}) \cup {Voided(p)}
  BY CancelPaymentInv
<1>2. p \in payments /\ p \in Payment /\ p.status = "paid"
  BY <1>1 DEF PaidOf, PaymentInv, TypeOK
<1>3. Voided(p).status = "voided"
  BY <1>2 DEF Voided, Payment
<1>4. \A q \in payments : (q.status = "paid" /\ ChargeOf(q) = ChargeOf(p)) => q = p
  BY <1>2 DEF ChargeOf, PaymentInv, OnePaymentPerKey
<1>5. ChargeOf(p) \in Charges /\ Charges' = Charges \ {ChargeOf(p)}
  BY <1>1, <1>2, <1>3, <1>4 DEF Charges
<1>6. QED
  BY <1>5 DEF Ledger!Next, Ledger!Void

\* A step that writes no payment leaves the ledger alone.
LEMMA NextLedger == PaymentInv /\ [Next]_vars => [Ledger!Next]_Charges
<1> SUFFICES ASSUME PaymentInv, [Next]_vars PROVE Ledger!Next \/ Charges' = Charges
  OBVIOUS
<1>0. TypeOK'
  BY NextType DEF PaymentInv
<1>1. CASE payments' = payments
  BY <1>1 DEF Charges
<1>2. CASE payments' # payments
  <2>1. PICK r \in Requests : PayCommit(r) \/ CancelCommit(r)
    <3>1. payments' # payments => \E r \in Requests : Progress(r)
      BY DEF Next, vars, Receive, ReceiveAdd, ReceiveLine, ReceiveSave, ReceiveClear,
             ReceivePayment, ReceiveCancel, Arrive, Fail, DeadlockVictim, db
    <3>2. ASSUME NEW r \in Requests, Progress(r) PROVE PayCommit(r) \/ CancelCommit(r)
      BY <1>2, <3>2 DEF Progress, AddUpsert, AddCommit, LineFind, LineWrite, LineGone,
         LineCommit, SentFind, SentWrite, SentGone, SentCommit, SaveCommit, ClearLock,
         ClearCommit, PayDuplicate, PayRefused, PayCharge, PayLoad, PayScan, PayConflict,
         CancelRefused, CancelFind, Reload, Persist, db
    <3>3. QED
      BY <1>2, <3>1, <3>2
  <2>2. QED
    BY <1>0, <2>1, PayLedger, CancelLedger
<1>3. QED
  BY <1>1, <1>2

\* The payments endpoint implements the ledger: every step of every request is a charge
\* under a new key, a voiding of a whole charge, or no change of it.
THEOREM LedgerImplemented == Spec => ImplementsLedger
<1>1. Spec => Ledger!Init /\ [][Ledger!Next]_Charges
  BY InitLedger, PaymentInvariant, NextLedger, PTL DEF Spec
<1>2. QED
  BY <1>1, PTL DEF ImplementsLedger, Ledger!Spec
============================================================================
