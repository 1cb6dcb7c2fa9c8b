SPECIFICATION Spec
CONSTANTS
  Callers = {c1, c2}
  c1 = c1
  c2 = c2
  NoThread = NoThread
  Ops <- MixedOps
  Serial = FALSE
  HistoryChunk = 2
  TransactionChunk = 2
  Faults = {}
  MaxCalls = 2
  MaxTimeouts = 0
SYMMETRY CallerSymmetry
INVARIANTS
  BulkOneToOne
CHECK_DEADLOCK FALSE
