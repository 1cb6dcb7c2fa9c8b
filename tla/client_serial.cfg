SPECIFICATION FairSpec
CONSTANTS
  Callers = {c1, c2}
  c1 = c1
  c2 = c2
  NoThread = NoThread
  Ops <- AllOps
  Serial = TRUE
  HistoryChunk = 2
  TransactionChunk = 3
  Faults = {"disconnect", "stop", "interrupt"}
  MaxCalls = 2
  MaxTimeouts = 1
CHECK_DEADLOCK FALSE
INVARIANTS
  TypeOK
  OwnReply
  WaitsForWritten
PROPERTIES
  CallsReturn
