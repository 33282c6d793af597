CONSTANTS
  w1 = w1
  w2 = w2
  w3 = w3
  f1 = f1
  r1 = r1
  d1 = d1
  i1 = i1
  NoReq = NoReq
  Writes <- MCWrites
  UserFlushes <- MCUserFlushes
  Reads <- MCNoReads
  Ext <- MCExt
  MaxBlock = 1
  NumLogEntries = 4
  NumLanes = 2
  BytesAllocatedCap = 3
  HighWater = 1
  LowWater = 0
  MaxWritesPerSyncPoint = 1
  OpsFlushedTogether = 4
  OpsAppendedTogether = 8
  MaxFreePerTransaction = 8
  InFlightFlushWriteLimit = 8
  PersistOnFlushInit = FALSE
  PersistOnWriteUntilFlush = FALSE
  WritebackMayFail = TRUE
  ShutDownCalled = FALSE
  Discards <- MCNoDiscards
  DExt <- MCDExt
  InvalidateAfterWrites = FALSE
  Invalidates <- MCNoInvalidates
SPECIFICATION Spec
INVARIANTS FlushWritesBack
