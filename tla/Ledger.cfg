\* Two operators of one task, and a producer that forces without a purpose.
CONSTANTS
  o1 = o1
  o2 = o2
  o3 = o3
  a = a
  b = b
  Operator = {o1, o2, o3}
  Child = {a, b}
  Root = Root
  Of <- MCOf
  Bare = {o3}
  Budget = 3
  Size = {1, 2, 4}
  MaxCalls = 3
SPECIFICATION Spec
INVARIANTS
  LedgerIsExact
  AdmittedFits
  PeakCovers
CHECK_DEADLOCK FALSE
