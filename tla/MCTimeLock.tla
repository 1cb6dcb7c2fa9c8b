------------------------------ MODULE MCTimeLock ------------------------------
(* Instances of TimeLock for TLC: lock times of four bits, 8 is the sign.  *)
EXTENDS TimeLock

\* Lock times that are seconds and are positive script numbers.
SecondsBelowSign == Threshold .. SignBit - 1
\* Lock times that are negative script numbers.
SecondsAboveSign == SignBit + 1 .. 2 * SignBit - 1
=============================================================================
