------------------------- MODULE MCObjectRetirement --------------------------
(***************************************************************************)
(* Two tables, one of which is created during the run, and two objects:    *)
(* the first table holds one to begin with, the other is uploaded later.   *)
(* With two sweeps a second holder of a path can outlive the first.        *)
(***************************************************************************)
EXTENDS ObjectRetirement, TLC

CONSTANTS events, archive, p1, p2, r1, r2, s1, s2

EventsLoaded == (events :> {p1}) @@ (archive :> {})

\* Registrations are alike, and so are sweeps.
Interchangeable == Permutations({r1, r2}) \cup Permutations({s1, s2})

=============================================================================
