\* Two tasks on two workers.  One worker may die or stall; attempts of one task fail, are
\* late, lost, and their results are repeated.
CONSTANTS
  t1 = t1
  t2 = t2
  w1 = w1
  w2 = w2
  Task = {t1, t2}
  Worker = {w1, w2}
  NoWorker = NoWorker
  MaxAttempts = 3
  RetryEnabled = TRUE
  Flaky = {w1}
  Troubled = {t1}
  MaxFaults = 1
SPECIFICATION LiveSpec
INVARIANTS
  CompleteMeansAll
  OutcomeIsEarned
PROPERTIES
  ResultIsFinal
  Recovers
CHECK_DEADLOCK FALSE
