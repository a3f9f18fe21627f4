----------------------------- MODULE MCAsyncQuery ------------------------------
(***************************************************************************)
(* An instance of AsyncQuery: a query of two tasks.                        *)
(***************************************************************************)
EXTENDS AsyncQuery

CONSTANTS t1, t2

=============================================================================
