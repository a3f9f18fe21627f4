-------------------------- MODULE MCTableLifecycle ---------------------------
(***************************************************************************)
(* Instances of TableLifecycle: two names, and a handful of CREATE and     *)
(* DROP calls.                                                             *)
(***************************************************************************)
EXTENDS TableLifecycle

CONSTANTS t, u

=============================================================================
