-------------------------- MODULE MCLeaderElection ---------------------------
(***************************************************************************)
(* An instance of LeaderElection: a few coordinators.                      *)
(***************************************************************************)
EXTENDS LeaderElection

CONSTANTS i1, i2, i3

=============================================================================
