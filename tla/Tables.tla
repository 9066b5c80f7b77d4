------------------------------- MODULE Tables -------------------------------
(***************************************************************************)
(* The storage every contract of the repository is written against: a      *)
(* multi_index table is a function from the primary keys present to rows.  *)
(* common/tables.hpp and the counters of common/contracts.hpp are thin     *)
(* wrappers over it.                                                       *)
(***************************************************************************)
EXTENDS Integers

(* t is a table whose keys are in K and whose rows are in R.               *)
IsTable(t, K, R) == DOMAIN t \subseteq K /\ t \in [DOMAIN t -> R]

(* The table with no row.                                                  *)
EmptyTable == [k \in {} |-> k]

(* emplace or modify, whichever applies: one row written.                  *)
Put(t, k, row) == [x \in DOMAIN t \cup {k} |-> IF x = k THEN row ELSE t[x]]

(* Several rows written, the last one for each key being in new.           *)
PutAll(t, new) == [x \in DOMAIN t \cup DOMAIN new |-> IF x \in DOMAIN new THEN new[x] ELSE t[x]]

(* erase: the rows of the keys in S are gone.                              *)
Erase(t, S) == [x \in DOMAIN t \ S |-> t[x]]

(* get_global: a counter that was never written reads as 0.                *)
Global(t, k) == IF k \in DOMAIN t THEN t[k] ELSE 0

(* increment_global: the value after the increment (1 for the first use).  *)
NextGlobal(t, k) == Global(t, k) + 1

(* increment_global_mod: the first use gives 1 whatever the modulus, later *)
(* ones count modulo mod.                                                  *)
NextGlobalMod(t, k, mod) == IF k \in DOMAIN t THEN (t[k] + 1) % mod ELSE 1
=============================================================================
