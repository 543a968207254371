---------------------------- MODULE MCMigration -----------------------------
(* Values for TLC: three customers in batches of two, one without orders.   *)
EXTENDS Migration

MCCustomers == {1, 2, 3}
MCOrders == {11, 12, 13}
MCOwner == [o \in MCOrders |-> IF o = 13 THEN 3 ELSE 1]
FirstBatchOnly == {1, 12}
SecondBatchToo == {1, 3}
OneMisdated == {13}
=============================================================================
