---- MODULE MCTransaction ----
(* Model checking Transaction: two goroutines that execute the same transaction *)
(* of two participants, at once or one after the other, with one retry.         *)
EXTENDS Transaction
====
