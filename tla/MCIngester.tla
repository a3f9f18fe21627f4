----------------------------- MODULE MCIngester ------------------------------
(***************************************************************************)
(* Instances of Ingester: three batches, one of which is not valid, over   *)
(* two partitions, while the table is dropped and created again.           *)
(***************************************************************************)
EXTENDS Ingester

CONSTANTS b1, b2, bad, p1, p2

=============================================================================
