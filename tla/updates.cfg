SPECIFICATION UpdatesSpec
CONSTANTS
  Poppers = {listener, caller}
  listener = listener
  caller = caller
  Pushers = {io, interrupter}
  io = io
  interrupter = interrupter
  Listener = listener
  Interrupter = interrupter
  Viewers = {v1, v2}
  v1 = v1
  v2 = v2
  Messages <- SomeMessages
  Wants <- SomeWants
CHECK_DEADLOCK FALSE
INVARIANTS
  Accounted
PROPERTIES
  ImplementsReplyBox
  ImplementsChannel
  UpdatesShown
  PoisonEndsListener
