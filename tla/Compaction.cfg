\* Two compactors, one of which may crash, race with a DELETE.
CONSTANTS
  u = u
  d = d
  m = m
  i = i
  a = a
  b = b
  Stmt = {d}
  Compactor = {c1, c2}
  Crashing = {c1}
  Loaded = {a, b}
  File <- FourFiles
  Seed <- TwoFiles
  Kind <- OnlyDelete
  MaxAttempts = 2
  MaxRetries = 2
  MaxRounds = 1
SPECIFICATION FairSpec
INVARIANTS SingleCopy NoDanglingFile MarkersApply
PROPERTIES ImplementsTable InputsReclaimed
CHECK_DEADLOCK FALSE
