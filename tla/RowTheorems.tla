---------------------------- MODULE RowTheorems ----------------------------
(***************************************************************************)
(* What the operators of Rows do to a table, for the proofs about the      *)
(* components that keep their state in tables.                             *)
(***************************************************************************)
EXTENDS Rows, Integers, TLAPS

(* The empty table is a table of every kind.                               *)
LEMMA EmptyTableIsTable ==
  ASSUME NEW K, NEW R
  PROVE  IsTable(EmptyTable, K, R) /\ DOMAIN EmptyTable = {}
BY DEF IsTable, EmptyTable

(* Reading a table gives a row.                                            *)
LEMMA TableRead ==
  ASSUME NEW K, NEW R, NEW t, IsTable(t, K, R), NEW k \in DOMAIN t
  PROVE  k \in K /\ t[k] \in R
BY DEF IsTable

(* INSERT adds one key and leaves the other rows alone.                    *)
LEMMA InsertRow ==
  ASSUME NEW t, NEW k, NEW row
  PROVE  /\ DOMAIN Insert(t, k, row) = DOMAIN t \cup {k}
         /\ Insert(t, k, row)[k] = row
         /\ \A j \in DOMAIN t : j # k => Insert(t, k, row)[j] = t[j]
BY DEF Insert

LEMMA InsertIsTable ==
  ASSUME NEW K, NEW R, NEW t, IsTable(t, K, R), NEW k \in K, NEW row \in R
  PROVE  IsTable(Insert(t, k, row), K, R)
BY DEF Insert, IsTable

(* DELETE leaves the rows it keeps alone.                                  *)
LEMMA DeleteRows ==
  ASSUME NEW t, NEW S
  PROVE  /\ DOMAIN Delete(t, S) = DOMAIN t \ S
         /\ \A j \in DOMAIN t \ S : Delete(t, S)[j] = t[j]
BY DEF Delete

LEMMA DeleteIsTable ==
  ASSUME NEW K, NEW R, NEW t, IsTable(t, K, R), NEW S
  PROVE  IsTable(Delete(t, S), K, R)
BY DEF Delete, IsTable

(* Truncation to seconds.                                                  *)
LEMMA DivIsNat ==
  ASSUME NEW a \in Nat, NEW b \in Nat \ {0}
  PROVE  a \div b \in Nat
OBVIOUS

LEMMA DivBounds ==
  ASSUME NEW a \in Nat, NEW b \in Nat \ {0}
  PROVE  (a \div b) * b <= a /\ a < (a \div b) * b + b
OBVIOUS
============================================================================
