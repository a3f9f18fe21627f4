--------------------------- MODULE MCTableManifest ---------------------------
(***************************************************************************)
(* Small tables for TLC.  Statements contend for one row; two rows let two *)
(* writers touch the same file and different rows, or, in two files, a     *)
(* compaction merge what a DELETE marks.  MCFile has a path for every      *)
(* object that the statements and compactors of a run can upload, so that  *)
(* no upload is ever held up for want of a path.                           *)
(***************************************************************************)
EXTENDS TableManifest, TLC

CONSTANTS u, d, m, i, a, b

MCFile == 1..6

FourFiles == 1..4

OneFile == 1 :> {a, b}

OneRow == 1 :> {a}

TwoFiles == (1 :> {a}) @@ (2 :> {b})

UpdateMergeInsert == (u :> "update") @@ (m :> "merge") @@ (i :> "insert")

UpdateDelete == (u :> "update") @@ (d :> "delete")

OnlyDelete == d :> "delete"

=============================================================================
