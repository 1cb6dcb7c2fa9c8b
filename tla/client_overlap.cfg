SPECIFICATION FairSpec
CONSTANTS
  Callers = {c1, c2}
  c1 = c1
  c2 = c2
  NoThread = NoThread
  Ops <- MixedOps
  Serial = FALSE
  HistoryChunk = 2
  TransactionChunk = 2
  Faults = {"disconnect"}
  MaxCalls = 3
  MaxTimeouts = 0
CHECK_DEADLOCK FALSE
INVARIANTS
  UniqueIds
  WritesExcluded
  NoResidue
PROPERTIES
  QueueMoves
