SPECIFICATION Spec
CONSTANTS
  Keys = {alice, bob}
  alice = alice
  bob = bob
  LockTimes <- SecondsBelowSign
  Threshold = 4
  SignBit = 8
  MaxHeight = 3
  MaxTime = 8
  MaxLocks = 2
CHECK_DEADLOCK FALSE
INVARIANTS
  TypeOK
  UnlockableAfter
PROPERTIES
  LockedUntil
