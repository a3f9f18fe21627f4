\* A lazy task with two files and an eager one, two slots.
CONSTANTS
  t1 = t1
  t2 = t2
  j1 = j1
  j2 = j2
  j3 = j3
  Task = {t1, t2}
  Job = {j1, j2, j3}
  Handlers = 2
  Owner <- MCOwner
  Lazy = {t1}
  Slots = 2
  uploadRetryAttempts = 2
  MaxFaults = 4
  MaxReleases = 1
SPECIFICATION LiveUploadSpec
INVARIANTS
  DurableIsStored
PROPERTIES
  SettlesOnce
  JobsEnd
CHECK_DEADLOCK FALSE
