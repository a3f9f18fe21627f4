\* Three coordinators, stalls, failing calls and lost answers.
CONSTANTS
  i1 = i1
  i2 = i2
  i3 = i3
  Instance = {i1, i2, i3}
  None = None
  MaxFaults = 2
  MaxStalls = 2
  MaxStops = 1
SPECIFICATION LiveElectionSpec
INVARIANTS
  LeaderIsCurrent
  SplitNeedsStall
PROPERTIES
  LeaseMovesByExpiry
  DisplacedStandsDown
  SomeoneLeads
