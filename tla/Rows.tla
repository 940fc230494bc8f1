-------------------------------- MODULE Rows --------------------------------
(***************************************************************************)
(* SQLite tables as functions from a primary key to a row (a record).      *)
(* mobile-auth-broker/internal/db holds every table of the broker in one   *)
(* SQLite file behind a pool of one connection (SetMaxOpenConns(1)), so a  *)
(* statement, or a whole transaction, is one atomic step on these values.  *)
(***************************************************************************)

(* t is a table with keys in K and rows in R.                              *)
IsTable(t, K, R) == DOMAIN t \subseteq K /\ t \in [DOMAIN t -> R]

EmptyTable == [k \in {} |-> {}]

(* INSERT of one row.                                                      *)
Insert(t, k, row) == [j \in DOMAIN t \cup {k} |-> IF j = k THEN row ELSE t[j]]

(* DELETE of the rows whose key is in S.                                   *)
Delete(t, S) == [j \in DOMAIN t \ S |-> t[j]]
=============================================================================
