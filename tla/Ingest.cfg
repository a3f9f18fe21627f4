\* Two valid batches and a bad one over two partitions; one fault, one drop.
CONSTANTS
  b1 = b1
  b2 = b2
  bad = bad
  p1 = p1
  p2 = p2
  Batch = {b1, b2, bad}
  Bad = {bad}
  NoBatch = NoBatch
  NoPart = NoPart
  Part = {p1, p2}
  MaxBufferRows = 2
  MinFlushRows = 1
  CASRetries = 2
  MaxInc = 2
  MaxRev = 3
  MaxFaults = 1
SPECIFICATION LiveSpec
INVARIANTS
  LandsInItsTable
  AcceptedIsKept
  WrittenOnce
PROPERTIES
  FlushedInTheEnd
CHECK_DEADLOCK FALSE
