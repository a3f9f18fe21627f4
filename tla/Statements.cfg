\* An INSERT races with an UPDATE and a MERGE on a table of one row.
CONSTANTS
  u = u
  d = d
  m = m
  i = i
  a = a
  b = b
  Stmt = {u, m, i}
  Compactor = {}
  Crashing = {}
  Loaded = {a}
  File <- MCFile
  Seed <- OneRow
  Kind <- UpdateMergeInsert
  MaxAttempts = 2
  MaxRetries = 2
  MaxRounds = 0
SPECIFICATION FairSpec
INVARIANTS
  ReportsAreTrue
  ConflictsAreReal
PROPERTIES
  ImplementsTable
  StatementsReport
CHECK_DEADLOCK FALSE
