--------------------------- MODULE PaymentLedger ---------------------------
(***************************************************************************)
(* What the payment endpoint promises a terminal, whatever the other       *)
(* terminals do: a ledger of charges in which a reconciliation key of a    *)
(* table stands for at most one charge, a charge is for a positive amount, *)
(* and it never changes except by being voided as a whole.                 *)
(***************************************************************************)
EXTENDS Integers

CONSTANTS Tables, Keys

VARIABLE ledger  \* the charges that stand

Charge == [table : Tables, key : Keys, amount : Int]

Init == ledger = {}

Record(c) ==
  /\ c \in Charge /\ c.amount > 0
  /\ \A d \in ledger : ~(d.table = c.table /\ d.key = c.key)
  /\ ledger' = ledger \cup {c}

Void(c) ==
  /\ c \in ledger
  /\ ledger' = ledger \ {c}

Next == (\E c \in ledger' : Record(c)) \/ (\E c \in ledger : Void(c))

Spec == Init /\ [][Next]_ledger
============================================================================
