CONSTANTS
  r1 = r1
  r2 = r2
  r3 = r3
  r4 = r4
  Fin = Fin
  PW = PW
  None = None
  Reqs <- MCReqs
  NumLanes = 2
  NumEntries = 1
  HighWater = 1
  LowWater = 0
  MaxIterations = 4
SPECIFICATION FairSpec
PROPERTIES RequestEventuallyCompletes
CHECK_DEADLOCK FALSE
