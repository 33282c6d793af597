CONSTANTS
  e1 = e1
  e2 = e2
  e3 = e3
  LogEntries <- MCLogEntries
  MaxBlock = 3
  NoEntry = NoEntry
  MinLength = 1
SPECIFICATION Spec
INVARIANTS
  TypeOK
  NoOverlap
  RefCountMatches
  RemovedUnreferenced
PROPERTIES
  AbstractSpec
