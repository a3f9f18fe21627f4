---------------------------- MODULE MCUploadManager ----------------------------
(***************************************************************************)
(* Instances of UploadManager: a lazy task and an eager one.               *)
(***************************************************************************)
EXTENDS UploadManager

CONSTANTS t1, t2, j1, j2, j3

\* t1 writes two files, t2 one.
MCOwner == [j \in Job |-> IF j = j3 THEN t2 ELSE t1]

=============================================================================
