\* A query of two tasks: both may fail, one is lost, one report comes twice.
CONSTANTS
  t1 = t1
  t2 = t2
  Task = {t1, t2}
  MaxDuplicates = 1
  MaxFailures = 2
  MaxLosses = 1
  PublishFails = TRUE
SPECIFICATION LiveSpec
INVARIANTS
  CompletedIsReported
PROPERTIES
  EveryQueryEnds
  ScratchIsReclaimed
CHECK_DEADLOCK FALSE
