-------------------------- MODULE MCCatalogSnapshot ---------------------------
(***************************************************************************)
(* Instances of CatalogSnapshot with one table.                            *)
(***************************************************************************)
EXTENDS CatalogSnapshot

CONSTANT t1

=============================================================================
