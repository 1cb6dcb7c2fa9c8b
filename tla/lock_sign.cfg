SPECIFICATION Spec
CONSTANTS
  Keys = {alice}
  alice = alice
  LockTimes <- SecondsAboveSign
  Threshold = 4
  SignBit = 8
  MaxHeight = 2
  MaxTime = 16
  MaxLocks = 1
CHECK_DEADLOCK FALSE
INVARIANTS
  UnlockableAfter
