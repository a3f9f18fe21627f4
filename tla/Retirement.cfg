\* Registrations race two sweeps over the same two objects.
CONSTANTS
  events = events
  archive = archive
  p1 = p1
  p2 = p2
  r1 = r1
  r2 = r2
  s1 = s1
  s2 = s2
  Path = {p1, p2}
  Table = {events, archive}
  Listed = {events}
  Loaded <- EventsLoaded
  Register = {r1, r2}
  Sweep = {s1, s2}
  MaxTime = 3
SYMMETRY Interchangeable
SPECIFICATION Spec
INVARIANTS RegisteredBytesStay
PROPERTIES DeletesOnlyUnreferenced
CHECK_DEADLOCK FALSE
