\* What becomes of a refused statement's output.
CONSTANTS
  u = u
  d = d
  m = m
  i = i
  a = a
  b = b
  Stmt = {u, d}
  Compactor = {}
  Crashing = {}
  Loaded = {a, b}
  File <- MCFile
  Seed <- OneFile
  Kind <- UpdateDelete
  MaxAttempts = 2
  MaxRetries = 2
  MaxRounds = 0
SPECIFICATION FairSpec
PROPERTIES RefusedOutputsReclaimed
CHECK_DEADLOCK FALSE
