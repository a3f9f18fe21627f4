--------------------------- MODULE MCMemoryTracker ----------------------------
(***************************************************************************)
(* Instances of MemoryTracker: two operators of one task and a third       *)
(* elsewhere.                                                              *)
(***************************************************************************)
EXTENDS MemoryTracker

CONSTANTS o1, o2, o3, a, b

MCOf == [o \in Operator |-> IF o = o3 THEN b ELSE a]

=============================================================================
