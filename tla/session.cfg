SPECIFICATION FairSession
CONSTANTS
  RecordAligned = TRUE
  BufSize = 4
  Sizes = {3, 4, 6}
  MaxMessages = 2
  MaxErrors = 2
CHECK_DEADLOCK FALSE
INVARIANTS
  SessionTypeOK
  ParsedInOrder
  NotYetParsable
  NoSilentFailure
PROPERTIES
  EveryMessageParsed
  InitReturns
  InterruptEnds
  StopEnds
