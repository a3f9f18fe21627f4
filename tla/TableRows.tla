------------------------------ MODULE TableRows ------------------------------
(***************************************************************************)
(* What a table promises its clients, with files, delete markers, the      *)
(* manifest and its revisions left out.  A table is a set of row versions. *)
(* A row version is <<root, n>>: root names the row from the INSERT that   *)
(* created it through every UPDATE, and n counts the UPDATEs applied to    *)
(* it.  A statement takes effect at most once and all at once: the rows it *)
(* deletes go, the rows it updates move to their next version, and the row *)
(* it inserts, named after the statement, appears.                         *)
(*                                                                         *)
(* Compaction, delete-marker GC, object retirement, refused commits and    *)
(* retries have no counterpart here: TableManifest shows that each of them *)
(* is a stuttering step of this specification.                             *)
(***************************************************************************)
EXTENDS Naturals

CONSTANTS
  Stmt,     \* the DML statements that may run
  Loaded    \* the roots of the rows the table holds to begin with

VARIABLES
  rows,     \* the row versions a query of the table returns
  done      \* the statements that have taken effect

vars == <<rows, done>>

Root == Loaded \cup Stmt

Row == Root \X Nat

\* The version an UPDATE replaces row version r with.
Successor(r) == <<r[1], r[2] + 1>>

Init ==
  /\ rows = Loaded \X {0}
  /\ done = {}

\* One statement: an INSERT has no upd and no del, a DELETE no upd and no ins,
\* an UPDATE no del and no ins, and a MERGE may have all three.
Execute(s, upd, del, ins) ==
  /\ s \notin done
  /\ upd \cap del = {}
  /\ rows' = (rows \ (upd \cup del)) \cup {Successor(r) : r \in upd} \cup ins
  /\ done' = done \cup {s}

Next ==
  \E s \in Stmt, upd \in SUBSET rows, del \in SUBSET rows :
    \E ins \in SUBSET {<<s, 0>>} : Execute(s, upd, del, ins)

Spec == Init /\ [][Next]_vars

-----------------------------------------------------------------------------

\* The table is a set of row versions; the statements done are statements.
TypeOK == rows \subseteq Row /\ done \subseteq Stmt

\* At most one version of a row is in the table: an UPDATE replaces the row it
\* read instead of adding a second copy beside it.
OneVersion == \A r, q \in rows : r[1] = q[1] => r = q

\* A row that has left the table never comes back: its root cannot reappear,
\* because the statement that could insert it has already taken effect.
GoneStaysGone ==
  [][\A x \in Root :
       /\ x \in Loaded \cup done
       /\ ~ \E r \in rows : r[1] = x
       => ~ \E r \in rows' : r[1] = x]_vars

\* Every row was loaded, or the statement that inserts it has taken effect.
RootsAccounted == \A r \in rows : r[1] \in Loaded \cup done

IInv == TypeOK /\ OneVersion /\ RootsAccounted
=============================================================================
