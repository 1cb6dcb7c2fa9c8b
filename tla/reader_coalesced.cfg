SPECIFICATION Spec
CONSTANTS
  RecordAligned = FALSE
  BufSize = 4
  Sizes = {3, 4}
  MaxMessages = 2
  MaxErrors = 2
CHECK_DEADLOCK FALSE
INVARIANTS
  NotYetParsable
