\* CREATE and DROP, alone and overlapping, with a fault, a crash and the sweep.
CONSTANTS
  t = t
  u = u
  Name = {t, u}
  MaxCalls = 4
  MaxOverlap = 3
  MaxInc = 2
  MaxFaults = 1
  MaxCrashes = 1
  MaxRegister = 1
  MaxPending = 2
SPECIFICATION LiveSpec
INVARIANTS
  ListedIsWhole
  LiveFilesStay
  OnlyDroppedGo
PROPERTIES
  EveryDropIsDecided
CHECK_DEADLOCK FALSE
