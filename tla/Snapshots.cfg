\* One table, three seconds, two snapshots that may overlap or share a second; a
\* fault, and a crash that may lose the bucket.
CONSTANTS
  t1 = t1
  Table = {t1}
  None = None
  Keep = 1
  MinAge = 2
  MaxTime = 3
  MaxSnapshots = 2
  MaxVersion = 2
  MaxWrites = 3
  MaxFaults = 1
  MaxCrashes = 1
SPECIFICATION LiveSpec
INVARIANTS
  LatestRestores
  ServesWhole
PROPERTIES
  ServesAgain
CHECK_DEADLOCK FALSE
