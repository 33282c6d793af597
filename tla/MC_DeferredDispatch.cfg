CONSTANTS
  r1 = r1
  r2 = r2
  r3 = r3
  r4 = r4
  Fin = Fin
  PW = PW
  None = None
  Reqs <- MCReqs4
  NumLanes = 2
  NumEntries = 2
  HighWater = 1
  LowWater = 0
  MaxIterations = 2
SPECIFICATION Spec
SYMMETRY MCSymmetry
INVARIANTS TypeOK SingleAllocation
CHECK_DEADLOCK FALSE
