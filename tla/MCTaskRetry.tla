----------------------------- MODULE MCTaskRetry -----------------------------
(***************************************************************************)
(* An instance of TaskRetry: two tasks and two workers.                    *)
(***************************************************************************)
EXTENDS TaskRetry

CONSTANTS t1, t2, w1, w2

=============================================================================
